---------------------------- MODULE KernelProofs ----------------------------
(***************************************************************************)
(* Theorems about Kernel for process tables and semaphore tables of any    *)
(* size, any time slice and any arguments of the calls.                    *)
(*                                                                         *)
(* IInv is the inductive invariant.  It says more than TypeOK and          *)
(* QueueConsistent: the null process never leaves the CPU but for the      *)
(* ready list, so that resched() always finds a process to run, and        *)
(* rescheduling is deferred exactly while a kernel loop runs, so that a    *)
(* process that gives up the CPU is never left on it.  PrioInv, further    *)
(* down, adds the order of the ready list, CountInv and RefInv what is     *)
(* needed for the counters and for the mapping to Semaphores.              *)
(***************************************************************************)
EXTENDS Kernel, KernelSemaphores, QueueProofs

Running == {PR_CURR, PR_READY}
Asleep  == {PR_SLEEP, PR_RECTIM}
Deferral == [ndefers : {0, 1}, attempt : BOOLEAN]

SchedInv ==
  /\ prstate \in [Pids -> States]
  /\ currpid \in Pids
  /\ \A p \in Pids : prstate[p] = PR_CURR <=> p = currpid
  /\ prstate[NULLPROC] \in Running
  /\ Holds(readylist, Pids, {p \in Pids : prstate[p] = PR_READY})

SleepInv == Holds(sleepq, Pids, {p \in Pids : prstate[p] \in Asleep})

SemInv ==
  /\ prsem \in [Pids -> Sems \cup {-1}]
  /\ squeue \in [Sems -> Seq(Queued)]
  /\ \A p \in Pids : prstate[p] = PR_WAIT => prsem[p] \in Sems
  /\ \A s \in Sems :
       Holds(squeue[s], Pids, {p \in Pids : prstate[p] = PR_WAIT /\ prsem[p] = s})

TableInv ==
  /\ prprio \in [Pids -> Int]
  /\ prhasmsg \in [Pids -> BOOLEAN]
  /\ prcount \in Nat
  /\ ~halted => prcount >= 1
  /\ nextpid \in [create : 1..NPROC, rcreate : 1..NPROC]
  /\ preempt \in 0..U32MAX
  /\ sstate \in [Sems -> BOOLEAN]
  /\ scount \in [Sems -> Int]
  /\ nextsem \in Sems
  /\ kont \in [Pids -> {"user", "clkhandler"}]
  /\ halted \in BOOLEAN

LoopInv ==
  /\ loop \in [op : {"none", "wakeup", "signaln", "semdelete", "semreset"},
               sem : Sems, n : Int]
  /\ loop.op = "none" => loop = NoLoop
  /\ Defer \in Deferral
  /\ Defer.ndefers = IF loop = NoLoop THEN 0 ELSE 1

IInv == SchedInv /\ SleepInv /\ SemInv /\ TableInv /\ LoopInv

\* Every process that neither runs nor is ready is in the state it has in st.
SameBlocked(st) ==
  \A p \in Pids : \A s \in States \ Running : prstate'[p] = s <=> st[p] = s

-----------------------------------------------------------------------------
(* Constants and types                                                     *)

\* What the assumptions on the constants say of the derived sets.
LEMMA Constants ==
  /\ NULLPROC \in Pids
  /\ 0 \in Sems
  /\ QUANTUM \in 0..U32MAX
  /\ Prios \subseteq Int /\ NewPrios \subseteq Int /\ Delays \subseteq Int
  /\ Waits \subseteq Int /\ Counts \subseteq Int
<1>1. NULLPROC \in Pids /\ 0 \in Sems /\ QUANTUM \in 0..U32MAX
  BY SizeAssumption DEF Pids, Sems, NULLPROC
<1>2. /\ Prios \subseteq Int /\ NewPrios \subseteq Int /\ Delays \subseteq Int
      /\ Waits \subseteq Int /\ Counts \subseteq Int
  BY InputAssumption
<1> QED BY <1>1, <1>2

\* The names of the states are distinct.
LEMMA StateNames ==
  /\ States \ Running = {PR_FREE, PR_RECV, PR_SLEEP, PR_SUSP, PR_WAIT, PR_RECTIM}
  /\ Running \subseteq States /\ Asleep \subseteq States \ Running
  /\ PR_CURR # PR_READY
  /\ PR_WAIT \notin Asleep
  /\ \A s \in {PR_FREE, PR_RECV, PR_SUSP} \cup Running : s \notin Asleep /\ s # PR_WAIT
BY DEF States, Running, Asleep, PR_FREE, PR_CURR, PR_READY, PR_RECV, PR_SLEEP,
       PR_SUSP, PR_WAIT, PR_RECTIM

\* An empty queue holds no process.
LEMMA EmptyHolds == \A P : Holds(<<>>, P, {})
BY DEF Holds, Members, NoDuplicates

-----------------------------------------------------------------------------
(* The scheduler                                                           *)

\* Handing the CPU to the first process of a ready list rl that is not empty.
LEMMA SwitchStep ==
  ASSUME NEW st \in [Pids -> States], NEW rl,
         \A p \in Pids : st[p] # PR_CURR,
         st[NULLPROC] = PR_READY,
         Holds(rl, Pids, {p \in Pids : st[p] = PR_READY}),
         SwitchTo(st, rl)
  PROVE  SchedInv' /\ SameBlocked(st) /\ preempt' = QUANTUM
<1> DEFINE M == {p \in Pids : st[p] = PR_READY}
           f == first(rl)
<1>1. rl # <<>>
  <2>1. Members(rl) # {}
    BY Constants DEF Holds
  <2> QED BY <2>1 DEF Members
<1>2. f \in M /\ f \in Pids /\ Holds(rest(rl), Pids, M \ {f})
  <2> HIDE DEF M
  <2> QED BY <1>1, DequeueHolds DEF M
<1>3. /\ currpid' = f
      /\ prstate' = [st EXCEPT ![f] = PR_CURR]
      /\ readylist' = rest(rl)
      /\ preempt' = QUANTUM
  BY <1>1 DEF SwitchTo
<1> HIDE DEF f
<1>4. M \ {f} = {p \in Pids : prstate'[p] = PR_READY}
  BY <1>2, <1>3, StateNames
<1>5. Holds(readylist', Pids, {p \in Pids : prstate'[p] = PR_READY})
  BY <1>2, <1>3, <1>4
<1>6. prstate' \in [Pids -> States] /\ \A p \in Pids : prstate'[p] = PR_CURR <=> p = f
  BY <1>2, <1>3, StateNames DEF Running
<1>7. prstate'[NULLPROC] \in Running
  BY <1>2, <1>3, Constants DEF Running
<1>8. SameBlocked(st)
  BY <1>2, <1>3 DEF SameBlocked, Running
<1> QED BY <1>2, <1>3, <1>5, <1>6, <1>7, <1>8 DEF SchedInv

\* resched() keeps the ready list and the states of the processes consistent,
\* whether it is deferred, keeps the current process or gives the CPU away.
LEMMA ReschedStep ==
  ASSUME currpid \in Pids, prprio \in [Pids -> Int],
         NEW d \in Deferral, NEW st \in [Pids -> States], NEW rl, NEW pre,
         \A p \in Pids : st[p] = PR_CURR => p = currpid,
         st[NULLPROC] \in Running,
         Holds(rl, Pids, {p \in Pids : st[p] = PR_READY}),
         d.ndefers > 0 => st[currpid] = PR_CURR,
         resched(d, st, rl, pre)
  PROVE  /\ SchedInv' /\ SameBlocked(st)
         /\ preempt' \in {pre, QUANTUM}
         /\ Defer' \in Deferral /\ Defer'.ndefers = d.ndefers
         /\ d.ndefers > 0 => currpid' = currpid
<1> DEFINE M == {p \in Pids : st[p] = PR_READY}
<1>0. d.ndefers \in {0, 1} /\ [d EXCEPT !.attempt = TRUE] \in Deferral
  BY DEF Deferral
<1>1. CASE /\ st[currpid] = PR_CURR /\ prstate' = st /\ readylist' = rl
           /\ preempt' = pre /\ currpid' = currpid
           /\ Defer' \in {d, [d EXCEPT !.attempt = TRUE]}
  <2>1. SchedInv' /\ SameBlocked(st)
    BY <1>1 DEF SchedInv, SameBlocked
  <2>2. Defer' \in Deferral /\ Defer'.ndefers = d.ndefers
    BY <1>0, <1>1 DEF Deferral
  <2> QED BY <1>1, <2>1, <2>2
<1>2. CASE /\ st[currpid] = PR_CURR /\ Defer' = d /\ d.ndefers = 0
           /\ SwitchTo([st EXCEPT ![currpid] = PR_READY],
                       insert(rl, currpid, prprio[currpid]))
  <2> DEFINE st2 == [st EXCEPT ![currpid] = PR_READY]
             rl2 == insert(rl, currpid, prprio[currpid])
  <2>1. st2 \in [Pids -> States] /\ (\A p \in Pids : st2[p] # PR_CURR)
    BY StateNames DEF Running
  <2>2. st2[NULLPROC] = PR_READY
    BY <2>1, Constants DEF Running
  <2>3. Holds(rl2, Pids, M \cup {currpid})
    <3>1. currpid \notin M /\ prprio[currpid] \in Int
      BY <1>2, StateNames
    <3> HIDE DEF M
    <3> QED BY <3>1, InsertHolds DEF M
  <2>4. M \cup {currpid} = {p \in Pids : st2[p] = PR_READY}
    OBVIOUS
  <2>5. SameBlocked(st2) => SameBlocked(st)
    BY <1>2, StateNames DEF SameBlocked, Running
  <2>6. SchedInv' /\ SameBlocked(st2) /\ preempt' = QUANTUM
    <3>1. SwitchTo(st2, rl2)
      BY <1>2
    <3> HIDE DEF st2, rl2, M
    <3> QED BY <2>1, <2>2, <2>3, <2>4, <3>1, SwitchStep
  <2> QED BY <1>2, <2>5, <2>6
<1>3. CASE st[currpid] # PR_CURR /\ Defer' = d /\ d.ndefers = 0 /\ SwitchTo(st, rl)
  <2>1. (\A p \in Pids : st[p] # PR_CURR) /\ st[NULLPROC] = PR_READY
    BY <1>3, Constants DEF Running
  <2>2. SchedInv' /\ SameBlocked(st) /\ preempt' = QUANTUM
    BY <1>3, <2>1, SwitchStep
  <2> QED BY <1>3, <2>2
<1> QED BY <1>0, <1>1, <1>2, <1>3 DEF resched

\* What a step of the scheduler establishes.
SchedStep(st) ==
  /\ SchedInv' /\ SameBlocked(st)
  /\ preempt' \in 0..U32MAX
  /\ Defer' \in Deferral /\ Defer'.ndefers = Defer.ndefers
  /\ Defer.ndefers > 0 => currpid' = currpid

\* ready() of a process that is not yet ready.
LEMMA ReadyStep ==
  ASSUME SchedInv, prprio \in [Pids -> Int], preempt \in 0..U32MAX,
         Defer \in Deferral,
         NEW p \in Pids, prstate[p] \notin Running, NEW prio \in Int,
         ready(prstate, p, prio)
  PROVE  SchedStep([prstate EXCEPT ![p] = PR_READY])
<1> DEFINE st == [prstate EXCEPT ![p] = PR_READY]
           rl == insert(readylist, p, prio)
           M == {q \in Pids : prstate[q] = PR_READY}
<1>1. /\ currpid \in Pids /\ st \in [Pids -> States]
      /\ \A q \in Pids : st[q] = PR_CURR => q = currpid
      /\ st[currpid] = PR_CURR
  BY StateNames DEF SchedInv, Running
<1>2. st[NULLPROC] \in Running
  BY Constants DEF SchedInv, Running
<1>3. Holds(rl, Pids, M \cup {p})
  <2>1. p \notin M
    BY DEF Running
  <2>2. Holds(readylist, Pids, M)
    BY DEF SchedInv
  <2> HIDE DEF M
  <2> QED BY <2>1, <2>2, InsertHolds
<1>4. M \cup {p} = {q \in Pids : st[q] = PR_READY}
  BY DEF SchedInv
<1>5. resched(Defer, st, rl, preempt)
  BY DEF ready
<1> HIDE DEF st, rl, M
<1>6. /\ SchedInv' /\ SameBlocked(st)
      /\ preempt' \in {preempt, QUANTUM}
      /\ Defer' \in Deferral /\ Defer'.ndefers = Defer.ndefers
      /\ Defer.ndefers > 0 => currpid' = currpid
  BY <1>1, <1>2, <1>3, <1>4, <1>5, ReschedStep
<1> QED BY <1>6, Constants DEF SchedStep, st

\* A process other than the null process gives up the CPU.
LEMMA BlockStep ==
  ASSUME SchedInv, prprio \in [Pids -> Int], preempt \in 0..U32MAX,
         Defer \in Deferral, Defer.ndefers = 0,
         currpid # NULLPROC, NEW s \in States \ Running, block(s)
  PROVE  SchedStep([prstate EXCEPT ![currpid] = s])
<1> DEFINE st == [prstate EXCEPT ![currpid] = s]
<1>1. /\ currpid \in Pids /\ st \in [Pids -> States]
      /\ \A q \in Pids : st[q] = PR_CURR => q = currpid
  BY DEF SchedInv, Running
<1>2. st[NULLPROC] \in Running
  BY Constants DEF SchedInv
<1>3. {q \in Pids : prstate[q] = PR_READY} = {q \in Pids : st[q] = PR_READY}
  BY StateNames DEF SchedInv, Running
<1>4. Holds(readylist, Pids, {q \in Pids : st[q] = PR_READY})
  BY <1>3 DEF SchedInv
<1>5. resched(Defer, st, readylist, preempt)
  BY DEF block
<1> HIDE DEF st
<1>6. /\ SchedInv' /\ SameBlocked(st)
      /\ preempt' \in {preempt, QUANTUM}
      /\ Defer' \in Deferral /\ Defer'.ndefers = Defer.ndefers
  BY <1>1, <1>2, <1>4, <1>5, ReschedStep
<1> QED BY <1>6, Constants DEF SchedStep, st

\* A call of resched() with nothing changed before it.
LEMMA YieldStep ==
  ASSUME SchedInv, prprio \in [Pids -> Int], NEW d \in Deferral,
         NEW pre \in 0..U32MAX, resched(d, prstate, readylist, pre)
  PROVE  /\ SchedInv' /\ SameBlocked(prstate)
         /\ preempt' \in {pre, QUANTUM} /\ preempt' \in 0..U32MAX
         /\ Defer' \in Deferral /\ Defer'.ndefers = d.ndefers
         /\ d.ndefers > 0 => currpid' = currpid
BY ReschedStep, Constants DEF SchedInv

-----------------------------------------------------------------------------
(* The queues of blocked processes                                         *)

\* Processes that go to sleep, or leave sleep, must change the delta list; a
\* step that moves no process into or out of sleep must not.
LEMMA SleepKept ==
  ASSUME SleepInv, sleepq' = sleepq,
         \A p \in Pids : prstate'[p] \in Asleep <=> prstate[p] \in Asleep
  PROVE  SleepInv'
<1>1. {p \in Pids : prstate'[p] \in Asleep} = {p \in Pids : prstate[p] \in Asleep}
  OBVIOUS
<1> QED BY <1>1 DEF SleepInv

\* insertd() puts the process that goes to sleep on the delta list.
LEMMA SleepGrows ==
  ASSUME SleepInv, NEW c \in Pids, prstate[c] \notin Asleep, prstate'[c] \in Asleep,
         \A p \in Pids \ {c} : prstate'[p] \in Asleep <=> prstate[p] \in Asleep,
         NEW delay \in Int, sleepq' = insertd(sleepq, c, delay)
  PROVE  SleepInv'
<1> DEFINE M == {p \in Pids : prstate[p] \in Asleep}
<1>1. M \cup {c} = {p \in Pids : prstate'[p] \in Asleep}
  OBVIOUS
<1>2. Holds(sleepq', Pids, M \cup {c})
  <2>1. Holds(sleepq, Pids, M) /\ c \notin M
    BY DEF SleepInv
  <2> HIDE DEF M
  <2> QED BY <2>1, InsertdHolds
<1> QED BY <1>1, <1>2 DEF SleepInv

\* A process that leaves sleep is taken off the delta list.
LEMMA SleepShrinks ==
  ASSUME SleepInv, NEW c \in Pids, prstate'[c] \notin Asleep,
         \A p \in Pids \ {c} : prstate'[p] \in Asleep <=> prstate[p] \in Asleep,
         NEW q, Holds(q, Pids, {p \in Pids : prstate[p] \in Asleep} \ {c}),
         sleepq' = q
  PROVE  SleepInv'
<1>1. {p \in Pids : prstate[p] \in Asleep} \ {c} = {p \in Pids : prstate'[p] \in Asleep}
  OBVIOUS
<1> QED BY <1>1 DEF SleepInv

\* The same for the queues of the semaphores.
LEMMA SemKept ==
  ASSUME SemInv, squeue' = squeue, prsem' \in [Pids -> Sems \cup {-1}],
         \A p \in Pids : /\ prstate'[p] = PR_WAIT <=> prstate[p] = PR_WAIT
                         /\ prstate[p] = PR_WAIT => prsem'[p] = prsem[p]
  PROVE  SemInv'
<1>1. ASSUME NEW s \in Sems
      PROVE  {p \in Pids : prstate'[p] = PR_WAIT /\ prsem'[p] = s} =
             {p \in Pids : prstate[p] = PR_WAIT /\ prsem[p] = s}
  OBVIOUS
<1>2. \A s \in Sems :
        Holds(squeue'[s], Pids, {p \in Pids : prstate'[p] = PR_WAIT /\ prsem'[p] = s})
  BY <1>1 DEF SemInv
<1> QED BY <1>2 DEF SemInv

\* wait() puts the process that blocks on the queue of its semaphore.
LEMMA SemGrows ==
  ASSUME SemInv, NEW c \in Pids, NEW s \in Sems,
         prstate[c] # PR_WAIT, prstate'[c] = PR_WAIT,
         \A p \in Pids \ {c} : prstate'[p] = PR_WAIT <=> prstate[p] = PR_WAIT,
         prsem' = [prsem EXCEPT ![c] = s],
         squeue' = [squeue EXCEPT ![s] = enqueue(@, c)]
  PROVE  SemInv'
<1> DEFINE M(t) == {p \in Pids : prstate[p] = PR_WAIT /\ prsem[p] = t}
           N(t) == {p \in Pids : prstate'[p] = PR_WAIT /\ prsem'[p] = t}
<1>1. ASSUME NEW t \in Sems PROVE Holds(squeue'[t], Pids, N(t))
  <2>1. Holds(squeue[t], Pids, M(t))
    BY DEF SemInv
  <2>2. CASE t = s
    <3>1. M(s) \cup {c} = N(s)
      BY DEF SemInv
    <3>2. Holds(enqueue(squeue[s], c), Pids, M(s) \cup {c})
      <4>1. c \notin M(s)
        OBVIOUS
      <4> HIDE DEF M
      <4> QED BY <2>1, <2>2, <4>1, EnqueueHolds
    <3>3. squeue'[s] = enqueue(squeue[s], c)
      BY DEF SemInv
    <3> QED BY <2>2, <3>1, <3>2, <3>3
  <2>3. CASE t # s
    <3>1. M(t) = N(t)
      BY <2>3 DEF SemInv
    <3>2. squeue'[t] = squeue[t]
      BY <2>3 DEF SemInv
    <3> QED BY <2>1, <3>1, <3>2
  <2> QED BY <2>2, <2>3
<1>2. squeue' \in [Sems -> Seq(Queued)]
  <2>1. squeue'[s] \in Seq(Queued)
    BY <1>1 DEF Holds, EntriesOf, Queued
  <2> QED BY <2>1 DEF SemInv
<1>3. prsem' \in [Pids -> Sems \cup {-1}]
  BY DEF SemInv
<1>4. \A p \in Pids : prstate'[p] = PR_WAIT => prsem'[p] \in Sems
  BY DEF SemInv
<1> QED BY <1>1, <1>2, <1>3, <1>4 DEF SemInv

\* A process that stops waiting is taken off the queue of its semaphore.
LEMMA SemShrinks ==
  ASSUME SemInv, NEW c \in Pids, NEW s \in Sems, prsem[c] = s,
         prstate'[c] # PR_WAIT, prsem' = prsem,
         \A p \in Pids \ {c} : prstate'[p] = PR_WAIT <=> prstate[p] = PR_WAIT,
         NEW q,
         Holds(q, Pids, {p \in Pids : prstate[p] = PR_WAIT /\ prsem[p] = s} \ {c}),
         squeue' = [squeue EXCEPT ![s] = q]
  PROVE  SemInv'
<1> DEFINE M(t) == {p \in Pids : prstate[p] = PR_WAIT /\ prsem[p] = t}
           N(t) == {p \in Pids : prstate'[p] = PR_WAIT /\ prsem'[p] = t}
<1>1. ASSUME NEW t \in Sems PROVE Holds(squeue'[t], Pids, N(t))
  <2>1. CASE t = s
    <3>1. M(s) \ {c} = N(s)
      OBVIOUS
    <3>2. squeue'[s] = q
      BY DEF SemInv
    <3> QED BY <2>1, <3>1, <3>2
  <2>2. CASE t # s
    <3>1. M(t) = N(t) /\ squeue'[t] = squeue[t]
      BY <2>2 DEF SemInv
    <3> QED BY <3>1 DEF SemInv
  <2> QED BY <2>1, <2>2
<1>2. squeue' \in [Sems -> Seq(Queued)]
  <2>1. squeue'[s] \in Seq(Queued)
    BY <1>1 DEF Holds, EntriesOf, Queued
  <2> QED BY <2>1 DEF SemInv
<1> QED BY <1>1, <1>2 DEF SemInv

\* A step that leaves the blocked processes as they are in st.
LEMMA BlockedIn ==
  ASSUME NEW st, SameBlocked(st)
  PROVE  \A p \in Pids : /\ prstate'[p] = PR_WAIT <=> st[p] = PR_WAIT
                         /\ prstate'[p] \in Asleep <=> st[p] \in Asleep
                         /\ \A s \in Asleep : prstate'[p] = s <=> st[p] = s
BY StateNames DEF SameBlocked

-----------------------------------------------------------------------------
(* Calls                                                                   *)

\* What holds whenever a process, and no loop of the kernel, runs.
LEMMA InUserFacts ==
  ASSUME IInv, InUser
  PROVE  /\ ~halted /\ loop = NoLoop /\ Defer.ndefers = 0
         /\ currpid \in Pids /\ prstate[currpid] = PR_CURR
         /\ Calling => currpid # NULLPROC
BY DEF IInv, InUser, Calling, SchedInv, LoopInv

\* newpid() returns a free entry of the process table if there is one.
LEMMA NewpidFree ==
  ASSUME NEW from \in Int, FreePids # {}
  PROVE  newpid(from) \in FreePids
<1> DEFINE dist(p) == (p - from) % NPROC
           T == {dist(p) : p \in FreePids}
<1>1. \A p \in FreePids : dist(p) \in Nat
  BY SizeAssumption DEF FreePids, Pids
<1> HIDE DEF dist
<1>2. T \in SUBSET Nat /\ T # {}
  BY <1>1
<1>3. PICK x \in T : \A y \in T : x <= y
  BY <1>2, LeastNat
<1>4. \E p \in FreePids : \A q \in FreePids : dist(p) <= dist(q)
  BY <1>3
<1> QED BY <1>4 DEF newpid, dist

\* newsem() returns a free semaphore if there is one.
LEMMA NewsemFree ==
  ASSUME nextsem \in Int, FreeSems # {}
  PROVE  newsem \in FreeSems
<1> DEFINE dist(s) == (s - nextsem) % NSEM
           T == {dist(s) : s \in FreeSems}
<1>1. \A s \in FreeSems : dist(s) \in Nat
  BY SizeAssumption DEF FreeSems, Sems
<1> HIDE DEF dist
<1>2. T \in SUBSET Nat /\ T # {}
  BY <1>1
<1>3. PICK x \in T : \A y \in T : x <= y
  BY <1>2, LeastNat
<1>4. \E s \in FreeSems : \A t \in FreeSems : dist(s) <= dist(t)
  BY <1>3
<1> QED BY <1>4 DEF newsem, dist

\* A new process is on no queue, whatever its entry of the process table held.
LEMMA CreateStep ==
  ASSUME IInv, NEW prio \in Prios, create(prio)
  PROVE  IInv'
<1> DEFINE p == newpid(nextpid.create)
<1>1. p \in FreePids
  <2>1. nextpid.create \in Int /\ FreePids # {}
    BY DEF IInv, TableInv, create
  <2> QED BY <2>1, NewpidFree
<1> HIDE DEF p
<1>2. p \in Pids /\ prstate[p] = PR_FREE
  BY <1>1 DEF FreePids
<1>3. /\ prstate' = [prstate EXCEPT ![p] = PR_SUSP]
      /\ nextpid' = [nextpid EXCEPT !.create = p + 1]
      /\ NewProc(p, prio)
      /\ UNCHANGED <<readylist, currpid, preempt, Defer>>
  BY DEF create, p
<1>4. SchedInv'
  <2>1. {q \in Pids : prstate'[q] = PR_READY} = {q \in Pids : prstate[q] = PR_READY}
    BY <1>2, <1>3, StateNames DEF IInv, SchedInv, Running
  <2>2. /\ prstate' \in [Pids -> States]
        /\ \A q \in Pids : prstate'[q] = PR_CURR <=> q = currpid
        /\ prstate'[NULLPROC] \in Running
    BY <1>2, <1>3, StateNames, Constants DEF IInv, SchedInv, Running
  <2> QED BY <1>3, <2>1, <2>2 DEF IInv, SchedInv
<1>5. SleepInv'
  BY <1>2, <1>3, StateNames, SleepKept DEF IInv, SchedInv, NewProc
<1>6. SemInv'
  <2>1. prsem' = [prsem EXCEPT ![p] = -1] /\ squeue' = squeue
    BY <1>3 DEF NewProc, semVars
  <2>2. prsem' \in [Pids -> Sems \cup {-1}]
    BY <2>1 DEF IInv, SemInv
  <2>3. \A q \in Pids : /\ prstate'[q] = PR_WAIT <=> prstate[q] = PR_WAIT
                        /\ prstate[q] = PR_WAIT => prsem'[q] = prsem[q]
    BY <1>2, <1>3, <2>1, StateNames DEF IInv, SchedInv, SemInv
  <2> QED BY <2>1, <2>2, <2>3, SemKept DEF IInv
<1>7. TableInv'
  <2>1. nextpid' \in [create : 1..NPROC, rcreate : 1..NPROC]
    <3>1. p + 1 \in 1..NPROC
      BY <1>2, SizeAssumption DEF Pids
    <3> QED BY <1>3, <3>1 DEF IInv, TableInv
  <2> QED BY <1>2, <1>3, <2>1, Constants DEF IInv, TableInv, NewProc, semVars
<1>8. LoopInv'
  BY <1>3 DEF IInv, LoopInv, NewProc
<1> QED BY <1>4, <1>5, <1>6, <1>7, <1>8 DEF IInv

\* rcreate() fills a free entry of the process table, as create() does.
LEMMA RcreateStep ==
  ASSUME IInv, InUser, NEW prio \in Prios, rcreate(prio)
  PROVE  IInv'
<1> DEFINE p == newpid(nextpid.rcreate)
           st == [prstate EXCEPT ![p] = PR_READY]
<1>1. p \in FreePids
  <2>1. nextpid.rcreate \in Int /\ FreePids # {}
    BY DEF IInv, TableInv, rcreate
  <2> QED BY <2>1, NewpidFree
<1> HIDE DEF p
<1>2. p \in Pids /\ prstate[p] = PR_FREE /\ prio \in Int /\ prstate[p] \notin Running
  BY <1>1, Constants, StateNames DEF FreePids
<1>3. /\ nextpid' = [nextpid EXCEPT !.rcreate = p + 1]
      /\ NewProc(p, prio)
      /\ ready(prstate, p, prio)
  BY DEF rcreate, p
<1>4. SchedStep(st)
  BY <1>2, <1>3, ReadyStep DEF IInv, TableInv, LoopInv
<1>5. \A q \in Pids : /\ prstate'[q] = PR_WAIT <=> prstate[q] = PR_WAIT
                      /\ prstate'[q] \in Asleep <=> prstate[q] \in Asleep
  <2>1. \A q \in Pids : /\ prstate'[q] = PR_WAIT <=> st[q] = PR_WAIT
                        /\ prstate'[q] \in Asleep <=> st[q] \in Asleep
    <3> HIDE DEF st
    <3> QED BY <1>4, BlockedIn DEF SchedStep
  <2> QED BY <1>2, <2>1, StateNames DEF IInv, SchedInv, Running
<1>6. SleepInv'
  BY <1>3, <1>5, SleepKept DEF IInv, NewProc
<1>7. SemInv'
  <2>1. prsem' = [prsem EXCEPT ![p] = -1] /\ squeue' = squeue
    BY <1>3 DEF NewProc, semVars
  <2>2. prsem' \in [Pids -> Sems \cup {-1}]
    BY <2>1 DEF IInv, SemInv
  <2>3. \A q \in Pids : prstate[q] = PR_WAIT => prsem'[q] = prsem[q]
    BY <1>2, <2>1, StateNames DEF IInv, SemInv
  <2> QED BY <1>5, <2>1, <2>2, <2>3, SemKept DEF IInv
<1>8. TableInv'
  <2>1. nextpid' \in [create : 1..NPROC, rcreate : 1..NPROC]
    <3>1. p + 1 \in 1..NPROC
      BY <1>2, SizeAssumption DEF Pids
    <3> QED BY <1>3, <3>1 DEF IInv, TableInv
  <2> QED BY <1>2, <1>3, <1>4, <2>1 DEF IInv, TableInv, NewProc, semVars, SchedStep
<1>9. LoopInv'
  BY <1>3, <1>4 DEF IInv, LoopInv, NewProc, SchedStep
<1> QED BY <1>4, <1>6, <1>7, <1>8, <1>9 DEF IInv, SchedStep

\* What a call that gives up the CPU does to the caller and to the others.
LEMMA CallerBlocks ==
  ASSUME IInv, Calling, NEW s \in States \ Running, block(s)
  PROVE  /\ SchedInv' /\ preempt' \in 0..U32MAX
         /\ Defer' \in Deferral /\ Defer'.ndefers = Defer.ndefers
         /\ prstate'[currpid] = s
         /\ prstate[currpid] \notin Asleep /\ prstate[currpid] # PR_WAIT
         /\ \A p \in Pids \ {currpid} :
              /\ prstate'[p] = PR_WAIT <=> prstate[p] = PR_WAIT
              /\ prstate'[p] \in Asleep <=> prstate[p] \in Asleep
<1> DEFINE st == [prstate EXCEPT ![currpid] = s]
<1>1. /\ Defer.ndefers = 0 /\ currpid \in Pids /\ currpid # NULLPROC
      /\ prstate[currpid] = PR_CURR /\ prstate \in [Pids -> States]
  BY InUserFacts DEF Calling, IInv, SchedInv
<1>2. SchedStep(st)
  BY <1>1, BlockStep DEF IInv, TableInv, LoopInv
<1>3. st[currpid] = s /\ \A p \in Pids \ {currpid} : st[p] = prstate[p]
  BY <1>1
<1> HIDE DEF st
<1>4. SameBlocked(st)
  BY <1>2 DEF SchedStep
<1>5. prstate'[currpid] = s
  BY <1>1, <1>3, <1>4 DEF SameBlocked
<1>6. \A p \in Pids \ {currpid} :
        /\ prstate'[p] = PR_WAIT <=> prstate[p] = PR_WAIT
        /\ prstate'[p] \in Asleep <=> prstate[p] \in Asleep
  BY <1>3, <1>4, BlockedIn
<1> QED BY <1>1, <1>2, <1>5, <1>6, StateNames DEF SchedStep, Running

\* A process, not the current one, leaves state PR_READY or a blocked state
\* for another blocked state, and nobody else changes state.
LEMMA MoveStep ==
  ASSUME SchedInv, NEW p \in Pids, p # currpid, p # NULLPROC,
         NEW s \in States \ Running, prstate' = [prstate EXCEPT ![p] = s],
         Holds(readylist', Pids, {q \in Pids : prstate[q] = PR_READY} \ {p}),
         UNCHANGED currpid
  PROVE  SchedInv'
<1>1. {q \in Pids : prstate[q] = PR_READY} \ {p} = {q \in Pids : prstate'[q] = PR_READY}
  BY StateNames DEF SchedInv, Running
<1>2. /\ prstate' \in [Pids -> States]
      /\ \A q \in Pids : prstate'[q] = PR_CURR <=> q = currpid
      /\ prstate'[NULLPROC] \in Running
  BY StateNames, Constants DEF SchedInv, Running
<1> QED BY <1>1, <1>2 DEF SchedInv

\* kill() takes the process off the one queue it is on.
LEMMA RemoveStep ==
  ASSUME IInv, Calling, NEW p \in Pids, prstate[p] # PR_FREE, p # NULLPROC,
         remove(p), UNCHANGED prsem
  PROVE  SchedInv' /\ SleepInv' /\ SemInv' /\ LoopInv'
         /\ preempt' \in 0..U32MAX /\ scount' \in [Sems -> Int]
<1> DEFINE freed == [prstate EXCEPT ![p] = PR_FREE]
           R == {q \in Pids : prstate[q] = PR_READY}
<1>0. /\ PR_FREE \in States \ Running
      /\ PR_FREE \notin Asleep /\ PR_FREE # PR_WAIT
      /\ prstate \in [Pids -> States]
      /\ currpid \in Pids /\ prstate[currpid] = PR_CURR
      /\ UNCHANGED <<loop, halted>>
  BY StateNames DEF IInv, SchedInv, remove, ctlVars
<1>1. CASE prstate[p] = PR_CURR /\ block(PR_FREE) /\ UNCHANGED <<sleepq, scount, squeue>>
  <2>1. /\ SchedInv' /\ preempt' \in 0..U32MAX
        /\ Defer' \in Deferral /\ Defer'.ndefers = Defer.ndefers
        /\ \A q \in Pids : /\ prstate'[q] = PR_WAIT <=> prstate[q] = PR_WAIT
                           /\ prstate'[q] \in Asleep <=> prstate[q] \in Asleep
    BY <1>0, <1>1, CallerBlocks
  <2>2. SleepInv'
    BY <1>1, <2>1, SleepKept DEF IInv
  <2>3. SemInv'
    BY <1>1, <2>1, SemKept DEF IInv, SemInv
  <2> QED BY <1>0, <1>1, <2>1, <2>2, <2>3 DEF IInv, LoopInv, TableInv
<1>2. CASE prstate[p] # PR_CURR /\ p # currpid /\ prstate' = freed /\ UNCHANGED <<currpid, preempt, Defer>>
  <2>1. \A q \in Pids \ {p} : prstate'[q] = prstate[q]
    BY <1>0, <1>2
  <2>2. prstate'[p] = PR_FREE
    BY <1>0, <1>2
  <2>3. LoopInv' /\ preempt' \in 0..U32MAX
    BY <1>0, <1>2 DEF IInv, LoopInv, TableInv
  <2>4. Holds(readylist, Pids, R)
    BY DEF IInv, SchedInv
  <2>5. readylist' = readylist /\ prstate[p] # PR_READY => SchedInv'
    <3> SUFFICES ASSUME readylist' = readylist, prstate[p] # PR_READY PROVE SchedInv'
      OBVIOUS
    <3>1. R \ {p} = R
      OBVIOUS
    <3> HIDE DEF R
    <3>2. Holds(readylist', Pids, R \ {p})
      BY <2>4, <3>1
    <3> QED BY <1>0, <1>2, <3>2, MoveStep DEF R, IInv
  <2>6. sleepq' = sleepq /\ prstate[p] \notin Asleep => SleepInv'
    BY <1>0, <2>1, <2>2, SleepKept DEF IInv
  <2>7. squeue' = squeue /\ prstate[p] # PR_WAIT => SemInv'
    BY <1>0, <2>1, <2>2, SemKept DEF IInv, SemInv
  <2>8. CASE /\ prstate[p] \in Asleep /\ sleepq' = unsleep(sleepq, p)
             /\ UNCHANGED <<readylist, scount, squeue>>
    <3>1. Holds(unsleep(sleepq, p), Pids, {q \in Pids : prstate[q] \in Asleep} \ {p})
      <4> DEFINE M == {q \in Pids : prstate[q] \in Asleep}
      <4>1. p \in M /\ Holds(sleepq, Pids, M)
        BY <2>8 DEF IInv, SleepInv
      <4> HIDE DEF M
      <4>2. Holds(unsleep(sleepq, p), Pids, M \ {p})
        BY <4>1, UnsleepHolds
      <4> QED BY <4>2 DEF M
    <3>2. SleepInv'
      BY <1>0, <2>1, <2>2, <2>8, <3>1, SleepShrinks DEF IInv
    <3>3. prstate[p] # PR_READY /\ prstate[p] # PR_WAIT
      BY <2>8, StateNames DEF Running
    <3> QED BY <2>3, <2>5, <2>7, <2>8, <3>2, <3>3 DEF IInv, TableInv
  <2>9. CASE /\ prstate[p] = PR_WAIT
             /\ scount' = [scount EXCEPT ![prsem[p]] = @ + 1]
             /\ squeue' = [squeue EXCEPT ![prsem[p]] = getitem(@, p)]
             /\ UNCHANGED <<readylist, sleepq>>
    <3> DEFINE s == prsem[p]
               M == {q \in Pids : prstate[q] = PR_WAIT /\ prsem[q] = s}
    <3>1. s \in Sems /\ p \in M /\ Holds(squeue[s], Pids, M)
      BY <2>9 DEF IInv, SemInv
    <3>2. Holds(getitem(squeue[s], p), Pids, M \ {p})
      <4> HIDE DEF M, s
      <4> QED BY <3>1, GetitemHolds
    <3>3. SemInv'
      <4>1. squeue' = [squeue EXCEPT ![s] = getitem(squeue[s], p)]
        BY <2>9, <3>1 DEF IInv, SemInv
      <4>2. \A q \in Pids \ {p} : prstate'[q] = PR_WAIT <=> prstate[q] = PR_WAIT
        BY <2>1
      <4>3. prstate'[p] # PR_WAIT
        BY <1>0, <2>2
      <4> HIDE DEF s
      <4> QED BY <3>1, <3>2, <4>1, <4>2, <4>3, SemShrinks DEF IInv, s
    <3>4. scount' \in [Sems -> Int]
      BY <2>9, <3>1 DEF IInv, TableInv
    <3>5. prstate[p] # PR_READY /\ prstate[p] \notin Asleep
      BY <2>9, StateNames DEF Running
    <3> QED BY <2>3, <2>5, <2>6, <2>9, <3>3, <3>4, <3>5
  <2>10. CASE /\ prstate[p] = PR_READY /\ readylist' = getitem(readylist, p)
              /\ UNCHANGED <<sleepq, scount, squeue>>
    <3>1. Holds(getitem(readylist, p), Pids, R \ {p})
      <4>1. p \in R
        BY <2>10
      <4> HIDE DEF R
      <4> QED BY <2>4, <4>1, GetitemHolds
    <3>2. SchedInv'
      BY <1>0, <1>2, <2>10, <3>1, MoveStep DEF IInv
    <3>3. prstate[p] # PR_WAIT /\ prstate[p] \notin Asleep
      BY <2>10, StateNames DEF Running
    <3> QED BY <2>3, <2>6, <2>7, <2>10, <3>2, <3>3 DEF IInv, TableInv
  <2>11. CASE /\ prstate[p] \in {PR_RECV, PR_SUSP}
              /\ UNCHANGED <<readylist, sleepq, scount, squeue>>
    <3>1. prstate[p] # PR_READY /\ prstate[p] \notin Asleep /\ prstate[p] # PR_WAIT
      BY <2>11, StateNames DEF Running
    <3> QED BY <2>3, <2>5, <2>6, <2>7, <2>11, <3>1 DEF IInv, TableInv
  <2> HIDE DEF R
  <2> QED BY <1>2, <2>8, <2>9, <2>10, <2>11 DEF remove, Asleep
<1>3. prstate[p] # PR_CURR => /\ p # currpid /\ prstate' = freed
                              /\ UNCHANGED <<currpid, preempt, Defer>>
  BY <1>0 DEF remove
<1>4. prstate[p] = PR_CURR => block(PR_FREE) /\ UNCHANGED <<sleepq, scount, squeue>>
  BY DEF remove, PR_CURR, PR_SLEEP, PR_RECTIM, PR_WAIT, PR_READY, PR_RECV, PR_SUSP
<1> QED BY <1>1, <1>2, <1>3, <1>4

\* prcount stays a natural number: the machine halts before it would reach 0.
LEMMA KillStep ==
  ASSUME IInv, NEW p \in Pids, kill(p)
  PROVE  IInv'
<1>1. /\ Calling /\ prstate[p] # PR_FREE /\ p # NULLPROC
      /\ prcount' = prcount - 1
      /\ UNCHANGED <<prprio, prsem, prhasmsg, nextpid>>
  BY DEF kill, isbadpid
<1>2. prcount >= 1 /\ prcount \in Nat
  BY <1>1, InUserFacts DEF Calling, IInv, TableInv
<1>3. CASE xdone(p)
  <2>1. SchedInv' /\ LoopInv'
    BY <1>3 DEF xdone, schedVars, IInv, SchedInv, LoopInv
  <2>2. SleepInv' /\ SemInv'
    BY <1>1, <1>3 DEF xdone, schedVars, semVars, IInv, SleepInv, SemInv
  <2>3. TableInv'
    BY <1>1, <1>2, <1>3 DEF xdone, schedVars, semVars, IInv, TableInv
  <2> QED BY <2>1, <2>2, <2>3 DEF IInv
<1>4. CASE remove(p)
  <2>1. /\ SchedInv' /\ SleepInv' /\ SemInv' /\ LoopInv'
        /\ preempt' \in 0..U32MAX /\ scount' \in [Sems -> Int]
    BY <1>1, <1>4, RemoveStep
  <2>2. prcount - 1 > 1 /\ UNCHANGED <<sstate, nextsem, kont, loop, halted>>
    BY <1>4 DEF remove, ctlVars
  <2>3. TableInv'
    BY <1>1, <1>2, <2>1, <2>2 DEF IInv, TableInv
  <2> QED BY <2>1, <2>3 DEF IInv
<1> QED BY <1>3, <1>4 DEF kill

\* suspend() takes a ready or current process out of scheduling.
LEMMA SuspendStep ==
  ASSUME IInv, NEW p \in Pids, suspend(p)
  PROVE  IInv'
<1> DEFINE R == {q \in Pids : prstate[q] = PR_READY}
<1>0. /\ Calling /\ p # NULLPROC /\ PR_SUSP \in States \ Running
      /\ prstate \in [Pids -> States] /\ prstate[currpid] = PR_CURR
      /\ PR_SUSP \notin Asleep /\ PR_SUSP # PR_WAIT
      /\ currpid \in Pids
      /\ UNCHANGED <<procVars, sleepq, semVars, ctlVars>>
  BY StateNames DEF suspend, IInv, SchedInv
<1>1. CASE prstate[p] = PR_CURR /\ block(PR_SUSP)
  <2>1. /\ SchedInv' /\ preempt' \in 0..U32MAX
        /\ Defer' \in Deferral /\ Defer'.ndefers = Defer.ndefers
        /\ \A q \in Pids : /\ prstate'[q] = PR_WAIT <=> prstate[q] = PR_WAIT
                           /\ prstate'[q] \in Asleep <=> prstate[q] \in Asleep
    BY <1>0, <1>1, CallerBlocks
  <2>2. SleepInv'
    BY <1>0, <2>1, SleepKept DEF IInv
  <2>3. SemInv'
    BY <1>0, <2>1, SemKept DEF IInv, SemInv, procVars, semVars
  <2> QED BY <1>0, <2>1, <2>2, <2>3
       DEF IInv, LoopInv, TableInv, procVars, semVars, ctlVars
<1>2. CASE /\ prstate[p] = PR_READY /\ readylist' = getitem(readylist, p)
           /\ prstate' = [prstate EXCEPT ![p] = PR_SUSP]
           /\ UNCHANGED <<currpid, preempt, Defer>>
  <2>1. p # currpid
    BY <1>0, <1>2, StateNames
  <2>2. Holds(getitem(readylist, p), Pids, R \ {p})
    <3>1. p \in R /\ Holds(readylist, Pids, R)
      BY <1>2 DEF IInv, SchedInv
    <3> HIDE DEF R
    <3> QED BY <3>1, GetitemHolds
  <2>3. SchedInv'
    BY <1>0, <1>2, <2>1, <2>2, MoveStep DEF IInv
  <2>4. \A q \in Pids : /\ prstate'[q] = PR_WAIT <=> prstate[q] = PR_WAIT
                        /\ prstate'[q] \in Asleep <=> prstate[q] \in Asleep
    BY <1>0, <1>2, StateNames DEF Running
  <2>5. SleepInv'
    BY <1>0, <2>4, SleepKept DEF IInv
  <2>6. SemInv'
    BY <1>0, <2>4, SemKept DEF IInv, SemInv, procVars, semVars
  <2> QED BY <1>0, <1>2, <2>3, <2>5, <2>6
       DEF IInv, LoopInv, TableInv, procVars, semVars, ctlVars
<1> QED BY <1>1, <1>2 DEF suspend

\* resume() readies a suspended process.
LEMMA ResumeStep ==
  ASSUME IInv, NEW p \in Pids, resume(p)
  PROVE  IInv'
<1> DEFINE st == [prstate EXCEPT ![p] = PR_READY]
<1>1. /\ prstate[p] = PR_SUSP /\ ready(prstate, p, prprio[p])
      /\ UNCHANGED <<procVars, sleepq, semVars, ctlVars>>
  BY DEF resume
<1>2. prstate[p] \notin Running /\ prprio[p] \in Int
  BY <1>1, StateNames DEF IInv, TableInv
<1>3. SchedStep(st)
  BY <1>1, <1>2, ReadyStep DEF IInv, TableInv, LoopInv
<1>4. \A q \in Pids : /\ prstate'[q] = PR_WAIT <=> prstate[q] = PR_WAIT
                      /\ prstate'[q] \in Asleep <=> prstate[q] \in Asleep
  <2>1. \A q \in Pids : /\ prstate'[q] = PR_WAIT <=> st[q] = PR_WAIT
                        /\ prstate'[q] \in Asleep <=> st[q] \in Asleep
    <3> HIDE DEF st
    <3> QED BY <1>3, BlockedIn DEF SchedStep
  <2> QED BY <1>1, <2>1, StateNames DEF IInv, SchedInv, Running
<1>5. SleepInv'
  BY <1>1, <1>4, SleepKept DEF IInv
<1>6. SemInv'
  BY <1>1, <1>4, SemKept DEF IInv, SemInv, procVars, semVars
<1> HIDE DEF st
<1> QED BY <1>1, <1>3, <1>5, <1>6
     DEF IInv, LoopInv, TableInv, procVars, semVars, ctlVars, SchedStep

\* chprio() changes a priority and no queue.
LEMMA ChprioStep ==
  ASSUME IInv, NEW p \in Pids, NEW prio \in NewPrios, chprio(p, prio)
  PROVE  IInv'
<1>1. /\ prprio' = [prprio EXCEPT ![p] = prio]
      /\ UNCHANGED <<prsem, prhasmsg, prcount, nextpid,
                     schedVars, sleepq, semVars, ctlVars>>
  BY DEF chprio
<1>2. prio \in Int
  BY Constants
<1>3. SchedInv' /\ SleepInv' /\ SemInv' /\ LoopInv'
  BY <1>1 DEF schedVars, semVars, ctlVars, IInv, SchedInv, SleepInv, SemInv, LoopInv
<1>4. TableInv'
  BY <1>1, <1>2 DEF schedVars, semVars, ctlVars, IInv, TableInv
<1> QED BY <1>3, <1>4 DEF IInv

\* yield() reschedules.
LEMMA YieldCallStep ==
  ASSUME IInv, yield
  PROVE  IInv'
<1>1. /\ resched(Defer, prstate, readylist, preempt)
      /\ UNCHANGED <<procVars, sleepq, semVars, ctlVars>>
  BY DEF yield
<1>2. /\ SchedInv' /\ SameBlocked(prstate) /\ preempt' \in 0..U32MAX
      /\ Defer' \in Deferral /\ Defer'.ndefers = Defer.ndefers
  BY <1>1, YieldStep DEF IInv, TableInv, LoopInv
<1>3. SleepInv' /\ SemInv'
  <2>1. \A q \in Pids : /\ prstate'[q] = PR_WAIT <=> prstate[q] = PR_WAIT
                        /\ prstate'[q] \in Asleep <=> prstate[q] \in Asleep
    BY <1>2, BlockedIn
  <2> QED BY <1>1, <2>1, SleepKept, SemKept DEF IInv, SemInv, procVars, semVars
<1> QED BY <1>1, <1>2, <1>3 DEF IInv, LoopInv, TableInv, procVars, semVars, ctlVars

\* sleepms(), recvtime() and receive(): the caller leaves the CPU.
LEMMA SleepStep ==
  ASSUME IInv, Calling, NEW s \in Asleep, NEW delay \in Int,
         sleepq' = insertd(sleepq, currpid, delay), block(s),
         UNCHANGED <<procVars, semVars, ctlVars>>
  PROVE  IInv'
<1>0. s \in States \ Running /\ s # PR_WAIT /\ currpid \in Pids
  BY StateNames DEF IInv, SchedInv
<1>1. /\ SchedInv' /\ preempt' \in 0..U32MAX
      /\ Defer' \in Deferral /\ Defer'.ndefers = Defer.ndefers
      /\ prstate'[currpid] = s
      /\ prstate[currpid] \notin Asleep /\ prstate[currpid] # PR_WAIT
      /\ \A p \in Pids \ {currpid} :
           /\ prstate'[p] = PR_WAIT <=> prstate[p] = PR_WAIT
           /\ prstate'[p] \in Asleep <=> prstate[p] \in Asleep
  BY <1>0, CallerBlocks
<1>2. SleepInv'
  BY <1>0, <1>1, SleepGrows DEF IInv
<1>3. SemInv'
  <2>1. \A p \in Pids : prstate'[p] = PR_WAIT <=> prstate[p] = PR_WAIT
    BY <1>0, <1>1
  <2> QED BY <2>1, SemKept DEF IInv, SemInv, procVars, semVars
<1> QED BY <1>1, <1>2, <1>3 DEF IInv, LoopInv, TableInv, procVars, semVars, ctlVars

\* receive() blocks a process without putting it on a queue.
LEMMA ReceiveStep ==
  ASSUME IInv, receive
  PROVE  IInv'
<1>0. /\ Calling /\ block(PR_RECV) /\ UNCHANGED <<procVars, sleepq, semVars, ctlVars>>
      /\ PR_RECV \in States \ Running /\ PR_RECV # PR_WAIT /\ PR_RECV \notin Asleep
  BY StateNames DEF receive
<1>1. /\ SchedInv' /\ preempt' \in 0..U32MAX
      /\ Defer' \in Deferral /\ Defer'.ndefers = Defer.ndefers
      /\ \A p \in Pids : /\ prstate'[p] = PR_WAIT <=> prstate[p] = PR_WAIT
                         /\ prstate'[p] \in Asleep <=> prstate[p] \in Asleep
  BY <1>0, CallerBlocks
<1>2. SleepInv' /\ SemInv'
  BY <1>0, <1>1, SleepKept, SemKept DEF IInv, SemInv, procVars, semVars
<1> QED BY <1>0, <1>1, <1>2 DEF IInv, LoopInv, TableInv, procVars, semVars, ctlVars

-----------------------------------------------------------------------------
(* The clock                                                               *)

\* The end of a time slice reschedules at most.
LEMMA TimeSliceStep ==
  ASSUME SchedInv, prprio \in [Pids -> Int], preempt \in 0..U32MAX,
         Defer \in Deferral, TimeSlice
  PROVE  /\ SchedInv' /\ SameBlocked(prstate) /\ preempt' \in 0..U32MAX
         /\ Defer' \in Deferral /\ Defer'.ndefers = Defer.ndefers
<1> DEFINE left == Decrement(preempt)
<1>1. left \in 0..U32MAX
  BY SizeAssumption DEF Decrement
<1>2. CASE left = 0 /\ resched(Defer, prstate, readylist, QUANTUM)
  BY <1>2, YieldStep, Constants
<1>3. CASE preempt' = left /\ UNCHANGED <<prstate, readylist, currpid, Defer>>
  BY <1>1, <1>3 DEF SchedInv, SameBlocked
<1> QED BY <1>2, <1>3 DEF TimeSlice

\* clkhandler() counts the first delay down.
LEMMA TickHolds ==
  ASSUME SleepInv, sleepq # <<>>
  PROVE  Holds([sleepq EXCEPT ![1].key = @ - 1], Pids,
               {p \in Pids : prstate[p] \in Asleep})
<1> DEFINE M == {p \in Pids : prstate[p] \in Asleep}
           n == sleepq[1].key - 1
<1>1. Holds(sleepq, Pids, M)
  BY DEF SleepInv
<1>2. 1 \in 1..Len(sleepq) /\ n \in Int
  <2>1. sleepq \in Seq(EntriesOf(Pids)) /\ 1 \in 1..Len(sleepq)
    BY <1>1, EmptySeq DEF Holds
  <2>2. sleepq[1] \in EntriesOf(Pids)
    BY <2>1, ElementOfSeq
  <2> QED BY <2>1, <2>2 DEF EntriesOf
<1> HIDE DEF M, n
<1>3. Holds([sleepq EXCEPT ![1].key = n], Pids, M)
  BY <1>1, <1>2, RekeyHolds
<1> QED BY <1>3 DEF M, n

\* The delta list holds the sleepers after a step that moves none of them.
LEMMA SleepInvOf ==
  ASSUME NEW q, Holds(q, Pids, {p \in Pids : prstate[p] \in Asleep}), sleepq' = q,
         \A p \in Pids : prstate'[p] \in Asleep <=> prstate[p] \in Asleep
  PROVE  SleepInv'
<1>1. {p \in Pids : prstate'[p] \in Asleep} = {p \in Pids : prstate[p] \in Asleep}
  OBVIOUS
<1> QED BY <1>1 DEF SleepInv

\* A tick that wakes nobody shortens the first delay.
LEMMA ClkhandlerStep ==
  ASSUME IInv, clkhandler
  PROVE  IInv'
<1> DEFINE M == {p \in Pids : prstate[p] \in Asleep}
<1>1. TimeSlice /\ UNCHANGED <<procVars, semVars, ctlVars>>
  BY DEF clkhandler
<1>2. /\ SchedInv' /\ SameBlocked(prstate) /\ preempt' \in 0..U32MAX
      /\ Defer' \in Deferral /\ Defer'.ndefers = Defer.ndefers
  BY <1>1, TimeSliceStep DEF IInv, TableInv, LoopInv
<1>3. \A p \in Pids : /\ prstate'[p] = PR_WAIT <=> prstate[p] = PR_WAIT
                      /\ prstate'[p] \in Asleep <=> prstate[p] \in Asleep
  BY <1>2, BlockedIn
<1>4. Holds(sleepq', Pids, M)
  <2>1. CASE UNCHANGED sleepq
    BY <2>1 DEF IInv, SleepInv
  <2>2. CASE sleepq # <<>> /\ sleepq' = [sleepq EXCEPT ![1].key = @ - 1]
    BY <2>2, TickHolds DEF IInv
  <2> QED BY <2>1, <2>2 DEF clkhandler
<1>5. SleepInv'
  BY <1>3, <1>4, SleepInvOf
<1>6. SemInv'
  BY <1>1, <1>3, SemKept DEF IInv, SemInv, procVars, semVars
<1> QED BY <1>1, <1>2, <1>5, <1>6
     DEF IInv, LoopInv, TableInv, procVars, semVars, ctlVars

\* The start and the end of a loop during which rescheduling is deferred.
LEMMA DeferStartStep ==
  ASSUME IInv, loop = NoLoop, DeferStart
  PROVE  SchedInv' /\ UNCHANGED prstate /\ Defer' \in Deferral /\ Defer'.ndefers = 1
BY DEF IInv, LoopInv, SchedInv, DeferStart, Deferral

\* The end of deferral reschedules if a request was deferred.
LEMMA DeferStopStep ==
  ASSUME IInv, loop # NoLoop, DeferStop
  PROVE  /\ SchedInv' /\ SameBlocked(prstate) /\ preempt' \in 0..U32MAX
         /\ Defer' \in Deferral /\ Defer'.ndefers = 0
<1> DEFINE d == [Defer EXCEPT !.ndefers = @ - 1]
<1>1. d \in Deferral /\ d.ndefers = 0
  BY DEF IInv, LoopInv, Deferral
<1>2. CASE resched(d, prstate, readylist, preempt)
  <2> HIDE DEF d
  <2> QED BY <1>1, <1>2, YieldStep DEF IInv, TableInv
<1>3. CASE Defer' = d /\ UNCHANGED <<prstate, readylist, currpid, preempt>>
  BY <1>1, <1>3 DEF IInv, SchedInv, TableInv, SameBlocked
<1> QED BY <1>2, <1>3 DEF DeferStop

\* A tick that ends a delay starts the loop of wakeup().
LEMMA ClkwakeupStep ==
  ASSUME IInv, clkwakeup
  PROVE  IInv'
<1>1. /\ loop = NoLoop /\ DeferStart /\ sleepq # <<>>
      /\ sleepq' = [sleepq EXCEPT ![1].key = @ - 1]
      /\ loop' = [NoLoop EXCEPT !.op = "wakeup"]
      /\ UNCHANGED <<procVars, semVars, preempt, kont, halted>>
  BY DEF clkwakeup, InUser
<1>2. /\ SchedInv' /\ UNCHANGED prstate
      /\ Defer' \in Deferral /\ Defer'.ndefers = 1
  BY <1>1, DeferStartStep
<1>3. SleepInv'
  BY <1>1, <1>2, TickHolds, SleepInvOf DEF IInv
<1>4. SemInv'
  BY <1>1, <1>2, SemKept DEF IInv, SemInv, procVars, semVars
<1>5. LoopInv'
  BY <1>1, <1>2, Constants DEF LoopInv, NoLoop
<1> QED BY <1>1, <1>2, <1>3, <1>4, <1>5 DEF IInv, TableInv, procVars, semVars

\* Each turn of the loop of wakeup() readies a process whose delay has ended.
LEMMA WakeupStep ==
  ASSUME IInv, wakeup
  PROVE  IInv'
<1> DEFINE M == {p \in Pids : prstate[p] \in Asleep}
           f == first(sleepq)
           st == [prstate EXCEPT ![f] = PR_READY]
<1>0. loop.op = "wakeup" /\ loop # NoLoop /\ UNCHANGED <<procVars, semVars, halted>>
  BY DEF wakeup, NoLoop
<1>1. CASE /\ sleepq # <<>> /\ sleepq' = rest(sleepq)
           /\ ready(prstate, f, prprio[f])
           /\ UNCHANGED <<loop, kont>>
  <2>1. f \in M /\ f \in Pids /\ Holds(rest(sleepq), Pids, M \ {f})
    <3>1. Holds(sleepq, Pids, M)
      BY DEF IInv, SleepInv
    <3> HIDE DEF M
    <3> QED BY <1>1, <3>1, DequeueHolds
  <2> HIDE DEF f
  <2>2. prstate[f] \in Asleep /\ prstate[f] \notin Running /\ prprio[f] \in Int
    BY <2>1, StateNames DEF IInv, TableInv
  <2>3. SchedStep(st)
    BY <1>1, <2>1, <2>2, ReadyStep DEF IInv, TableInv, LoopInv
  <2>4. \A q \in Pids : /\ prstate'[q] = PR_WAIT <=> st[q] = PR_WAIT
                        /\ prstate'[q] \in Asleep <=> st[q] \in Asleep
    <3> HIDE DEF st
    <3> QED BY <2>3, BlockedIn DEF SchedStep
  <2>5. /\ st[f] = PR_READY /\ prstate'[f] \notin Asleep
        /\ \A q \in Pids \ {f} : prstate'[q] \in Asleep <=> prstate[q] \in Asleep
        /\ \A q \in Pids : prstate'[q] = PR_WAIT <=> prstate[q] = PR_WAIT
    BY <2>1, <2>2, <2>4, StateNames DEF IInv, SchedInv, Running
  <2>6. SleepInv'
    BY <1>1, <2>1, <2>5, SleepShrinks DEF IInv
  <2>7. SemInv'
    BY <1>0, <2>5, SemKept DEF IInv, SemInv, procVars, semVars
  <2> HIDE DEF st
  <2> QED BY <1>0, <1>1, <2>3, <2>6, <2>7
       DEF IInv, LoopInv, TableInv, procVars, semVars, SchedStep
<1>2. CASE /\ DeferStop /\ loop' = NoLoop
           /\ kont' = [kont EXCEPT ![currpid] = "clkhandler"] /\ UNCHANGED sleepq
  <2>1. /\ SchedInv' /\ SameBlocked(prstate) /\ preempt' \in 0..U32MAX
        /\ Defer' \in Deferral /\ Defer'.ndefers = 0
    BY <1>0, <1>2, DeferStopStep
  <2>2. SleepInv' /\ SemInv'
    BY <1>0, <1>2, <2>1, BlockedIn, SleepKept, SemKept
       DEF IInv, SemInv, procVars, semVars
  <2>3. LoopInv'
    BY <1>2, <2>1, Constants DEF LoopInv, NoLoop
  <2> QED BY <1>0, <1>2, <2>1, <2>2, <2>3 DEF IInv, TableInv, procVars, semVars
<1> QED BY <1>1, <1>2 DEF wakeup

\* The clock handler goes on to the time slice after wakeup().
LEMMA ClkreturnStep ==
  ASSUME IInv, clkreturn
  PROVE  IInv'
<1>1. /\ TimeSlice /\ kont' = [kont EXCEPT ![currpid] = "user"]
      /\ UNCHANGED <<procVars, sleepq, semVars, loop, halted>>
  BY DEF clkreturn
<1>2. /\ SchedInv' /\ SameBlocked(prstate) /\ preempt' \in 0..U32MAX
      /\ Defer' \in Deferral /\ Defer'.ndefers = Defer.ndefers
  BY <1>1, TimeSliceStep DEF IInv, TableInv, LoopInv
<1>3. SleepInv' /\ SemInv'
  BY <1>1, <1>2, BlockedIn, SleepKept, SemKept DEF IInv, SemInv, procVars, semVars
<1> QED BY <1>1, <1>2, <1>3 DEF IInv, LoopInv, TableInv, procVars, semVars

-----------------------------------------------------------------------------
(* Semaphores                                                              *)

\* semcreate() takes a free semaphore, whose queue is empty.
LEMMA SemcreateStep ==
  ASSUME IInv, NEW count \in Counts, semcreate(count)
  PROVE  IInv'
<1>1. newsem \in Sems
  <2>1. nextsem \in Int /\ FreeSems # {}
    BY DEF IInv, TableInv, semcreate, Sems
  <2> QED BY <2>1, NewsemFree DEF FreeSems
<1>2. /\ sstate' = [sstate EXCEPT ![newsem] = TRUE]
      /\ scount' = [scount EXCEPT ![newsem] = count]
      /\ nextsem' = (newsem + 1) % NSEM
      /\ UNCHANGED <<procVars, schedVars, sleepq, squeue, ctlVars>>
  BY DEF semcreate
<1>3. SchedInv' /\ SleepInv' /\ SemInv' /\ LoopInv'
  BY <1>2 DEF procVars, schedVars, ctlVars, IInv, SchedInv, SleepInv, SemInv, LoopInv
<1>4. nextsem' \in Sems
  BY <1>1, <1>2, SizeAssumption DEF Sems
<1>5. TableInv'
  BY <1>1, <1>2, <1>4, Constants DEF procVars, schedVars, ctlVars, IInv, TableInv
<1> QED BY <1>3, <1>5 DEF IInv

\* A step that leaves the states of processes and all queues alone keeps what
\* the invariant says of them.
LEMMA QueuesKept ==
  ASSUME IInv, UNCHANGED <<prsem, sleepq, squeue, schedVars>>
  PROVE  /\ SchedInv' /\ SleepInv' /\ SemInv' /\ preempt' \in 0..U32MAX
         /\ Defer' \in Deferral /\ Defer'.ndefers = Defer.ndefers
<1>0. /\ prsem' = prsem /\ sleepq' = sleepq /\ squeue' = squeue
      /\ prstate' = prstate /\ readylist' = readylist /\ currpid' = currpid
      /\ preempt' = preempt /\ Defer' = Defer
  BY DEF schedVars
<1>1. SchedInv'
  BY <1>0 DEF IInv, SchedInv
<1>2. SleepInv'
  BY <1>0 DEF IInv, SleepInv
<1>3. SemInv'
  BY <1>0 DEF IInv, SemInv
<1> QED BY <1>0, <1>1, <1>2, <1>3 DEF IInv, TableInv, LoopInv

\* wait() blocks the caller if the count becomes negative.
LEMMA WaitStep ==
  ASSUME IInv, NEW s \in Sems, wait(s)
  PROVE  IInv'
<1>0. /\ Calling /\ currpid \in Pids /\ PR_WAIT \in States \ Running
      /\ PR_WAIT \notin Asleep
      /\ scount' = [scount EXCEPT ![s] = @ - 1]
      /\ UNCHANGED <<prprio, prhasmsg, prcount, nextpid,
                     sleepq, sstate, nextsem, ctlVars>>
  BY StateNames DEF wait, IInv, SchedInv
<1>1. scount' \in [Sems -> Int]
  BY <1>0 DEF IInv, TableInv
<1>2. CASE /\ prsem' = [prsem EXCEPT ![currpid] = s]
           /\ squeue' = [squeue EXCEPT ![s] = enqueue(@, currpid)]
           /\ block(PR_WAIT)
  <2>1. /\ SchedInv' /\ preempt' \in 0..U32MAX
        /\ Defer' \in Deferral /\ Defer'.ndefers = Defer.ndefers
        /\ prstate'[currpid] = PR_WAIT
        /\ prstate[currpid] \notin Asleep /\ prstate[currpid] # PR_WAIT
        /\ \A p \in Pids \ {currpid} :
             /\ prstate'[p] = PR_WAIT <=> prstate[p] = PR_WAIT
             /\ prstate'[p] \in Asleep <=> prstate[p] \in Asleep
    BY <1>0, <1>2, CallerBlocks
  <2>2. SleepInv'
    <3>1. \A p \in Pids : prstate'[p] \in Asleep <=> prstate[p] \in Asleep
      BY <1>0, <2>1
    <3> QED BY <1>0, <3>1, SleepKept DEF IInv
  <2>3. SemInv'
    BY <1>0, <1>2, <2>1, SemGrows DEF IInv
  <2> QED BY <1>0, <1>1, <2>1, <2>2, <2>3 DEF IInv, LoopInv, TableInv, ctlVars
<1>3. CASE UNCHANGED <<prsem, squeue, schedVars>>
  <2>1. /\ SchedInv' /\ SleepInv' /\ SemInv' /\ preempt' \in 0..U32MAX
        /\ Defer' \in Deferral /\ Defer'.ndefers = Defer.ndefers
    BY <1>0, <1>3, QueuesKept
  <2> QED BY <1>0, <1>1, <2>1 DEF IInv, LoopInv, TableInv, ctlVars
<1> QED BY <1>2, <1>3 DEF wait

\* Readying the process that has waited longest.
LEMMA ReleaseStep ==
  ASSUME IInv, NEW s \in Sems, release(s), UNCHANGED <<procVars, sleepq>>
  PROVE  /\ SchedInv' /\ SleepInv' /\ SemInv' /\ preempt' \in 0..U32MAX
         /\ Defer' \in Deferral /\ Defer'.ndefers = Defer.ndefers
<1>1. CASE UNCHANGED <<squeue, schedVars>>
  BY <1>1, QueuesKept DEF procVars
<1>2. CASE /\ squeue[s] # <<>>
           /\ squeue' = [squeue EXCEPT ![s] = rest(@)]
           /\ ready(prstate, first(squeue[s]), prprio[first(squeue[s])])
  <2> DEFINE M == {p \in Pids : prstate[p] = PR_WAIT /\ prsem[p] = s}
             f == first(squeue[s])
             st == [prstate EXCEPT ![f] = PR_READY]
  <2>1. f \in M /\ f \in Pids /\ Holds(rest(squeue[s]), Pids, M \ {f})
    <3>1. Holds(squeue[s], Pids, M)
      BY DEF IInv, SemInv
    <3> HIDE DEF M
    <3> QED BY <1>2, <3>1, DequeueHolds
  <2>2. ready(prstate, f, prprio[f])
    BY <1>2
  <2> HIDE DEF f
  <2>3. prstate[f] = PR_WAIT /\ prsem[f] = s /\ prstate[f] \notin Running /\ prprio[f] \in Int
    BY <2>1, StateNames DEF IInv, TableInv
  <2>4. SchedStep(st)
    BY <2>1, <2>2, <2>3, ReadyStep DEF IInv, TableInv, LoopInv
  <2>5. \A q \in Pids : /\ prstate'[q] = PR_WAIT <=> st[q] = PR_WAIT
                        /\ prstate'[q] \in Asleep <=> st[q] \in Asleep
    <3> HIDE DEF st
    <3> QED BY <2>4, BlockedIn DEF SchedStep
  <2>6. /\ prstate'[f] # PR_WAIT
        /\ \A q \in Pids \ {f} : prstate'[q] = PR_WAIT <=> prstate[q] = PR_WAIT
        /\ \A q \in Pids : prstate'[q] \in Asleep <=> prstate[q] \in Asleep
    BY <2>1, <2>3, <2>5, StateNames DEF IInv, SchedInv, Running
  <2>7. SleepInv'
    BY <2>6, SleepKept DEF IInv
  <2>8. SemInv'
    <3>1. squeue' = [squeue EXCEPT ![s] = rest(squeue[s])]
      BY <1>2 DEF IInv, SemInv
    <3>2. prsem' = prsem
      BY DEF procVars
    <3> QED BY <2>1, <2>3, <2>6, <3>1, <3>2, SemShrinks DEF IInv
  <2> HIDE DEF st
  <2> QED BY <2>4, <2>7, <2>8 DEF SchedStep
<1> QED BY <1>1, <1>2 DEF release

\* signal() and the loops raise a count and ready at most one process.
LEMMA CountupStep ==
  ASSUME IInv, NEW s \in Sems, countup(s), UNCHANGED <<procVars, sleepq>>
  PROVE  /\ SchedInv' /\ SleepInv' /\ SemInv' /\ preempt' \in 0..U32MAX
         /\ Defer' \in Deferral /\ Defer'.ndefers = Defer.ndefers
         /\ scount' \in [Sems -> Int]
<1>1. scount' \in [Sems -> Int]
  BY DEF countup, IInv, TableInv
<1>2. CASE release(s)
  BY <1>1, <1>2, ReleaseStep
<1>3. CASE UNCHANGED <<squeue, schedVars>>
  BY <1>1, <1>3, QueuesKept DEF procVars
<1> QED BY <1>2, <1>3 DEF countup

\* signal() is one such release.
LEMMA SignalStep ==
  ASSUME IInv, NEW s \in Sems, signal(s)
  PROVE  IInv'
<1>1. countup(s) /\ UNCHANGED <<procVars, sleepq, sstate, nextsem, ctlVars>>
  BY DEF signal
<1>2. /\ SchedInv' /\ SleepInv' /\ SemInv' /\ preempt' \in 0..U32MAX
      /\ Defer' \in Deferral /\ Defer'.ndefers = Defer.ndefers
      /\ scount' \in [Sems -> Int]
  BY <1>1, CountupStep
<1> QED BY <1>1, <1>2 DEF IInv, LoopInv, TableInv, procVars, ctlVars

\* signaln(), semdelete() and semreset() start their loops.
LEMMA StartloopStep ==
  ASSUME IInv, NEW op \in {"signaln", "semdelete", "semreset"}, NEW s \in Sems,
         NEW n \in Int, startloop(op, s, n), sstate' \in [Sems -> BOOLEAN]
  PROVE  IInv'
<1>1. /\ loop = NoLoop /\ DeferStart
      /\ loop' = [op |-> op, sem |-> s, n |-> n]
      /\ UNCHANGED <<procVars, preempt, sleepq, scount, squeue, nextsem, kont, halted>>
  BY DEF startloop, Calling, InUser
<1>2. /\ SchedInv' /\ UNCHANGED prstate
      /\ Defer' \in Deferral /\ Defer'.ndefers = 1
  BY <1>1, DeferStartStep
<1>3. SleepInv' /\ SemInv'
  BY <1>1, <1>2, SleepKept, SemKept DEF IInv, SemInv, procVars
<1>4. LoopInv'
  BY <1>1, <1>2 DEF LoopInv, NoLoop
<1> QED BY <1>1, <1>2, <1>3, <1>4 DEF IInv, TableInv, procVars

\* The last turn of a loop: rescheduling is no longer deferred.
LEMMA EndloopStep ==
  ASSUME IInv, loop # NoLoop, endloop, squeue' = squeue, UNCHANGED <<procVars, sleepq>>
  PROVE  SchedInv' /\ SleepInv' /\ SemInv' /\ LoopInv' /\ preempt' \in 0..U32MAX
<1>1. /\ SchedInv' /\ SameBlocked(prstate) /\ preempt' \in 0..U32MAX
      /\ Defer' \in Deferral /\ Defer'.ndefers = 0 /\ loop' = NoLoop
  BY DeferStopStep DEF endloop
<1>2. SleepInv' /\ SemInv'
  BY <1>1, BlockedIn, SleepKept, SemKept DEF IInv, SemInv, procVars
<1>3. LoopInv'
  BY <1>1, Constants DEF LoopInv, NoLoop
<1> QED BY <1>1, <1>2, <1>3

\* One turn of the loop of signaln().
LEMMA SignalnloopStep ==
  ASSUME IInv, signalnloop
  PROVE  IInv'
<1>0. /\ loop.op = "signaln" /\ loop # NoLoop /\ loop.sem \in Sems
      /\ UNCHANGED <<procVars, sleepq, sstate, nextsem, kont, halted>>
  BY DEF signalnloop, NoLoop, IInv, LoopInv
<1>1. CASE countup(loop.sem) /\ loop' = [loop EXCEPT !.n = @ - 1]
  <2>1. /\ SchedInv' /\ SleepInv' /\ SemInv' /\ preempt' \in 0..U32MAX
        /\ Defer' \in Deferral /\ Defer'.ndefers = Defer.ndefers
        /\ scount' \in [Sems -> Int]
    BY <1>0, <1>1, CountupStep
  <2>2. LoopInv'
    BY <1>0, <1>1, <2>1 DEF IInv, LoopInv, NoLoop
  <2> QED BY <1>0, <2>1, <2>2 DEF IInv, TableInv, procVars
<1>2. CASE endloop /\ UNCHANGED <<scount, squeue>>
  BY <1>0, <1>2, EndloopStep DEF IInv, TableInv, procVars
<1> QED BY <1>1, <1>2 DEF signalnloop

\* One turn of the loop of semdelete().
LEMMA SemdeleteloopStep ==
  ASSUME IInv, semdeleteloop
  PROVE  IInv'
<1>0. /\ loop # NoLoop /\ loop.sem \in Sems
      /\ scount' = [scount EXCEPT ![loop.sem] = @ + 1]
      /\ UNCHANGED <<procVars, sleepq, sstate, nextsem, kont, halted>>
  BY DEF semdeleteloop, NoLoop, IInv, LoopInv
<1>1. scount' \in [Sems -> Int]
  BY <1>0 DEF IInv, TableInv
<1>2. CASE release(loop.sem) /\ UNCHANGED loop
  <2>1. /\ SchedInv' /\ SleepInv' /\ SemInv' /\ preempt' \in 0..U32MAX
        /\ Defer' \in Deferral /\ Defer'.ndefers = Defer.ndefers
    BY <1>0, <1>2, ReleaseStep
  <2> QED BY <1>0, <1>1, <1>2, <2>1 DEF IInv, TableInv, LoopInv, procVars
<1>3. CASE endloop /\ UNCHANGED squeue
  BY <1>0, <1>1, <1>3, EndloopStep DEF IInv, TableInv, procVars
<1> QED BY <1>2, <1>3 DEF semdeleteloop

\* One turn of the loop of semreset().
LEMMA SemresetloopStep ==
  ASSUME IInv, semresetloop
  PROVE  IInv'
<1>0. /\ loop # NoLoop /\ loop.sem \in Sems
      /\ UNCHANGED <<procVars, sleepq, sstate, nextsem, kont, halted>>
  BY DEF semresetloop, NoLoop, IInv, LoopInv
<1>1. CASE release(loop.sem) /\ UNCHANGED <<scount, loop>>
  <2>1. /\ SchedInv' /\ SleepInv' /\ SemInv' /\ preempt' \in 0..U32MAX
        /\ Defer' \in Deferral /\ Defer'.ndefers = Defer.ndefers
    BY <1>0, <1>1, ReleaseStep
  <2> QED BY <1>0, <1>1, <2>1 DEF IInv, TableInv, LoopInv, procVars
<1>2. CASE scount' = [scount EXCEPT ![loop.sem] = loop.n] /\ endloop /\ UNCHANGED squeue
  <2>1. scount' \in [Sems -> Int]
    BY <1>0, <1>2 DEF IInv, TableInv, LoopInv
  <2> QED BY <1>0, <1>2, <2>1, EndloopStep DEF IInv, TableInv, procVars
<1> QED BY <1>1, <1>2 DEF semresetloop

-----------------------------------------------------------------------------
(* The invariant                                                           *)

\* The state that nulluser() leaves satisfies the invariant.
LEMMA InitIInv == Init => IInv
<1> SUFFICES ASSUME Init PROVE IInv
  OBVIOUS
<1>1. SchedInv
  <2>1. {p \in Pids : prstate[p] = PR_READY} = {}
    BY DEF Init, PR_READY, PR_CURR, PR_FREE
  <2>2. prstate \in [Pids -> States]
    BY DEF Init, States
  <2>3. \A p \in Pids : prstate[p] = PR_CURR <=> p = currpid
    BY DEF Init, PR_CURR, PR_FREE
  <2> QED BY <2>1, <2>2, <2>3, EmptyHolds, Constants DEF Init, SchedInv, Running
<1>2. SleepInv
  <2>1. {p \in Pids : prstate[p] \in Asleep} = {}
    BY StateNames DEF Init, Running
  <2> QED BY <2>1, EmptyHolds DEF Init, SleepInv
<1>3. SemInv
  <2>1. \A p \in Pids : prstate[p] # PR_WAIT
    BY StateNames DEF Init, Running
  <2>2. ASSUME NEW s \in Sems
        PROVE  Holds(squeue[s], Pids, {p \in Pids : prstate[p] = PR_WAIT /\ prsem[p] = s})
    <3>1. {p \in Pids : prstate[p] = PR_WAIT /\ prsem[p] = s} = {}
      BY <2>1
    <3> QED BY <3>1, EmptyHolds DEF Init
  <2>3. squeue \in [Sems -> Seq(Queued)] /\ prsem \in [Pids -> Sems \cup {-1}]
    BY Constants DEF Init
  <2> QED BY <2>1, <2>2, <2>3 DEF SemInv
<1>4. TableInv
  <2>1. 1 \in 1..NPROC
    BY SizeAssumption
  <2>2. nextpid \in [create : 1..NPROC, rcreate : 1..NPROC]
    BY <2>1 DEF Init
  <2> QED BY <2>2, Constants DEF Init, TableInv
<1>5. LoopInv
  BY Constants DEF Init, LoopInv, NoLoop, Deferral
<1> QED BY <1>1, <1>2, <1>3, <1>4, <1>5 DEF IInv

\* A step that changes nothing keeps the invariant.
LEMMA StutterStep ==
  ASSUME IInv, UNCHANGED vars
  PROVE  IInv'
BY DEF vars, procVars, schedVars, semVars, ctlVars, IInv, SchedInv, SleepInv,
       SemInv, TableInv, LoopInv

\* The calls on processes keep the invariant.
LEMMA ProcessCallsStep ==
  ASSUME IInv, ProcessCalls
  PROVE  IInv'
<1>1. ASSUME NEW prio \in Prios, create(prio) PROVE IInv'
  BY <1>1, CreateStep
<1>2. ASSUME NEW prio \in Prios, nulluser(prio) \/ usercreate(prio) PROVE IInv'
  BY <1>2, RcreateStep DEF nulluser, usercreate, Calling
<1>3. ASSUME NEW which \in {"create", "rcreate"}, createfail(which) PROVE IInv'
  <2>1. newpid(nextpid[which]) \in Pids
    <3>1. nextpid[which] \in Int /\ FreePids # {}
      BY <1>3 DEF IInv, TableInv, createfail
    <3> QED BY <3>1, NewpidFree DEF FreePids
  <2>2. nextpid' \in [create : 1..NPROC, rcreate : 1..NPROC]
    <3>1. newpid(nextpid[which]) + 1 \in 1..NPROC
      BY <2>1, SizeAssumption DEF Pids
    <3>2. nextpid' = [nextpid EXCEPT ![which] = newpid(nextpid[which]) + 1]
      BY <1>3 DEF createfail
    <3> QED BY <3>1, <3>2 DEF IInv, TableInv
  <2>3. UNCHANGED <<prprio, prsem, prhasmsg, prcount, schedVars, sleepq, semVars, ctlVars>>
    BY <1>3 DEF createfail
  <2>4. SchedInv' /\ SleepInv' /\ SemInv' /\ LoopInv'
    BY <2>3 DEF schedVars, semVars, ctlVars, IInv, SchedInv, SleepInv, SemInv, LoopInv
  <2> QED BY <2>2, <2>3, <2>4 DEF schedVars, semVars, ctlVars, IInv, TableInv
<1>4. ASSUME NEW p \in Pids, kill(p) \/ suspend(p) \/ resume(p) PROVE IInv'
  BY <1>4, KillStep, SuspendStep, ResumeStep
<1>5. ASSUME NEW p \in Pids, NEW prio \in NewPrios, chprio(p, prio) PROVE IInv'
  BY <1>5, ChprioStep
<1>6. CASE yield
  BY <1>6, YieldCallStep
<1> QED BY <1>1, <1>2, <1>3, <1>4, <1>5, <1>6 DEF ProcessCalls

\* The calls by which a process blocks itself keep the invariant.
LEMMA BlockingCallsStep ==
  ASSUME IInv, BlockingCalls
  PROVE  IInv'
<1>1. ASSUME NEW delay \in Delays, sleepms(delay) PROVE IInv'
  <2>1. CASE yield
    BY <2>1, YieldCallStep
  <2>2. CASE /\ Calling /\ sleepq' = insertd(sleepq, currpid, delay)
             /\ block(PR_SLEEP) /\ UNCHANGED <<procVars, semVars, ctlVars>>
    BY <2>2, SleepStep, Constants DEF Asleep
  <2> QED BY <1>1, <2>1, <2>2 DEF sleepms
<1>2. ASSUME NEW maxwait \in Waits, recvtime(maxwait) PROVE IInv'
  BY <1>2, SleepStep, Constants DEF Asleep, recvtime
<1>3. CASE receive
  BY <1>3, ReceiveStep
<1> QED BY <1>1, <1>2, <1>3 DEF BlockingCalls

\* The calls on semaphores keep the invariant.
LEMMA SemaphoreCallsStep ==
  ASSUME IInv, SemaphoreCalls
  PROVE  IInv'
<1>0. sstate \in [Sems -> BOOLEAN]
  BY DEF IInv, TableInv
<1>1. ASSUME NEW count \in Counts, semcreate(count) PROVE IInv'
  BY <1>1, SemcreateStep
<1>2. ASSUME NEW s \in Sems, wait(s) \/ signal(s) PROVE IInv'
  BY <1>2, WaitStep, SignalStep
<1>3. ASSUME NEW s \in Sems, semdelete(s) PROVE IInv'
  <2>1. sstate' \in [Sems -> BOOLEAN] /\ startloop("semdelete", s, 0)
    BY <1>0, <1>3 DEF semdelete
  <2> QED BY <2>1, StartloopStep
<1>4. ASSUME NEW s \in Sems, NEW count \in Counts, signaln(s, count) \/ semreset(s, count)
      PROVE  IInv'
  <2>1. sstate' \in [Sems -> BOOLEAN] /\ count \in Int
    BY <1>0, <1>4, Constants DEF signaln, semreset
  <2>2. startloop("signaln", s, count) \/ startloop("semreset", s, count)
    BY <1>4 DEF signaln, semreset
  <2> QED BY <2>1, <2>2, StartloopStep
<1> QED BY <1>1, <1>2, <1>3, <1>4 DEF SemaphoreCalls

\* Every step keeps the invariant.
LEMMA NextIInv == IInv /\ [Next]_vars => IInv'
<1> SUFFICES ASSUME IInv, [Next]_vars PROVE IInv'
  OBVIOUS
<1>1. CASE ProcessCalls
  BY <1>1, ProcessCallsStep
<1>2. CASE BlockingCalls
  BY <1>2, BlockingCallsStep
<1>3. CASE SemaphoreCalls
  BY <1>3, SemaphoreCallsStep
<1>4. CASE KernelLoops
  BY <1>4, WakeupStep, SignalnloopStep, SemdeleteloopStep, SemresetloopStep
     DEF KernelLoops
<1>5. CASE Clock
  BY <1>5, ClkhandlerStep, ClkwakeupStep DEF Clock
<1>6. CASE clkreturn
  BY <1>6, ClkreturnStep
<1>7. CASE halt \/ UNCHANGED vars
  BY <1>7, StutterStep DEF halt
<1> QED BY <1>1, <1>2, <1>3, <1>4, <1>5, <1>6, <1>7 DEF Next

\* IInv is an invariant of the kernel.
THEOREM IInvCorrect == Spec => []IInv
BY InitIInv, NextIInv, PTL DEF Spec

\* The invariant gives the type invariant ...
LEMMA IInvTypeOK == IInv => TypeOK
<1> SUFFICES ASSUME IInv PROVE TypeOK
  OBVIOUS
<1>1. readylist \in Seq(Queued) /\ sleepq \in Seq(Queued)
  BY DEF IInv, SchedInv, SleepInv, Holds, EntriesOf, Queued
<1>2. Defer \in [ndefers : Nat, attempt : BOOLEAN]
  BY DEF IInv, LoopInv, Deferral
<1> QED BY <1>1, <1>2 DEF IInv, SchedInv, SemInv, TableInv, LoopInv, TypeOK

\* ... and the agreement of queues and process states.
LEMMA IInvQueueConsistent == IInv => QueueConsistent
<1> SUFFICES ASSUME IInv PROVE QueueConsistent
  OBVIOUS
<1>1. /\ \A p \in Pids : prstate[p] = PR_CURR <=> p = currpid
      /\ \A p \in Pids : prstate[p] = PR_READY <=> p \in Members(readylist)
      /\ NoDuplicates(readylist)
  BY DEF IInv, SchedInv, Holds
<1>2. /\ \A p \in Pids : prstate[p] \in {PR_SLEEP, PR_RECTIM} <=> p \in Members(sleepq)
      /\ NoDuplicates(sleepq)
  BY DEF IInv, SleepInv, Holds, Asleep
<1>3. /\ \A p \in Pids, s \in Sems :
           (prstate[p] = PR_WAIT /\ prsem[p] = s) <=> p \in Members(squeue[s])
      /\ \A p \in Pids : prstate[p] = PR_WAIT => prsem[p] \in Sems
      /\ \A s \in Sems : NoDuplicates(squeue[s])
  BY DEF IInv, SemInv, Holds
<1> QED BY <1>1, <1>2, <1>3 DEF QueueConsistent

\* In every reachable state of a kernel with tables of any size the variables
\* have their types; in particular resched() has found a process to run
\* (resched.c:40).
THEOREM TypeCorrect == Spec => []TypeOK
BY IInvCorrect, IInvTypeOK, PTL

\* In every reachable state of a kernel with tables of any size every process
\* is on the queue its state says, once, and on no other (getitem.c:47).
THEOREM QueuesCorrect == Spec => []QueueConsistent
BY IInvCorrect, IInvQueueConsistent, PTL

-----------------------------------------------------------------------------
(* Deferred rescheduling and the time slice                                *)

\* A kernel loop readies processes without losing the CPU (resched.c:18).
LEMMA DeferStep ==
  ASSUME IInv, [Next]_vars, Defer.ndefers > 0, Defer'.ndefers > 0
  PROVE  currpid' = currpid
<1>1. loop # NoLoop
  BY DEF IInv, LoopInv
<1>2. CASE wakeup
  <2> DEFINE M == {p \in Pids : prstate[p] \in Asleep}
             f == first(sleepq)
  <2>1. CASE sleepq # <<>> /\ ready(prstate, f, prprio[f])
    <3>1. f \in M /\ f \in Pids
      <4>1. Holds(sleepq, Pids, M)
        BY DEF IInv, SleepInv
      <4> HIDE DEF M
      <4> QED BY <2>1, <4>1, DequeueHolds
    <3> HIDE DEF f
    <3>2. prstate[f] \notin Running /\ prprio[f] \in Int
      BY <3>1, StateNames DEF IInv, TableInv
    <3>3. SchedStep([prstate EXCEPT ![f] = PR_READY])
      BY <2>1, <3>1, <3>2, ReadyStep DEF IInv, TableInv, LoopInv
    <3> QED BY <3>3 DEF SchedStep
  <2>2. CASE DeferStop
    BY <1>1, <2>2, DeferStopStep
  <2> QED BY <1>2, <2>1, <2>2 DEF wakeup
<1>3. ASSUME NEW s \in Sems, release(s) PROVE currpid' = currpid
  <2> DEFINE M == {p \in Pids : prstate[p] = PR_WAIT /\ prsem[p] = s}
             f == first(squeue[s])
  <2>1. CASE squeue[s] # <<>> /\ ready(prstate, f, prprio[f])
    <3>1. f \in M /\ f \in Pids
      <4>1. Holds(squeue[s], Pids, M)
        BY DEF IInv, SemInv
      <4> HIDE DEF M
      <4> QED BY <2>1, <4>1, DequeueHolds
    <3> HIDE DEF f
    <3>2. prstate[f] \notin Running /\ prprio[f] \in Int
      BY <3>1, StateNames DEF IInv, TableInv
    <3>3. SchedStep([prstate EXCEPT ![f] = PR_READY])
      BY <2>1, <3>1, <3>2, ReadyStep DEF IInv, TableInv, LoopInv
    <3> QED BY <3>3 DEF SchedStep
  <2> QED BY <1>3, <2>1 DEF release, schedVars
<1>4. CASE endloop
  BY <1>1, <1>4, DeferStopStep DEF endloop
<1>5. CASE signalnloop
  <2>1. loop.sem \in Sems
    BY DEF IInv, LoopInv
  <2>2. release(loop.sem) \/ UNCHANGED schedVars \/ endloop
    BY <1>5 DEF signalnloop, countup
  <2> QED BY <1>3, <1>4, <2>1, <2>2 DEF schedVars
<1>6. CASE semdeleteloop \/ semresetloop
  <2>1. loop.sem \in Sems
    BY DEF IInv, LoopInv
  <2> QED BY <1>3, <1>4, <1>6, <2>1 DEF semdeleteloop, semresetloop
<1>7. ~ProcessCalls /\ ~BlockingCalls /\ ~SemaphoreCalls /\ ~Clock /\ ~clkreturn
  <2>1. ~InUser /\ ~Calling
    BY <1>1 DEF InUser, Calling
  <2>2. ~ProcessCalls
    BY <2>1 DEF ProcessCalls, create, nulluser, usercreate, createfail, kill,
                suspend, resume, chprio, yield
  <2>3. ~BlockingCalls
    BY <2>1 DEF BlockingCalls, sleepms, yield, recvtime, receive
  <2>4. ~SemaphoreCalls
    BY <2>1 DEF SemaphoreCalls, semcreate, wait, signal, signaln, semdelete,
                semreset, startloop
  <2>5. ~Clock /\ ~clkreturn
    BY <1>1, <2>1 DEF Clock, clkhandler, clkwakeup, clkreturn
  <2> QED BY <2>2, <2>3, <2>4, <2>5
<1>8. CASE halt \/ UNCHANGED vars
  BY <1>8 DEF halt, vars, schedVars
<1> QED BY <1>2, <1>5, <1>6, <1>7, <1>8 DEF Next, KernelLoops

\* The CPU stays with the process that runs a kernel loop, however many
\* processes of higher priority the loop readies.
THEOREM DeferCorrect == Spec => DeferHolds
<1>1. IInv /\ [Next]_vars
      => [Defer.ndefers > 0 /\ Defer'.ndefers > 0 => currpid' = currpid]_vars
  BY DeferStep
<1> QED BY <1>1, IInvCorrect, PTL DEF Spec, DeferHolds

\* What the steps of the kernel do to the preemption counter: nothing, a new
\* time slice, or the end of an interrupt.
LEMMA ReschedSlice ==
  ASSUME NEW d, NEW st, NEW rl, NEW pre, resched(d, st, rl, pre)
  PROVE  preempt' \in {pre, QUANTUM}
BY DEF resched, SwitchTo

\* Only the end of a tick counts the slice down; every switch renews it.
LEMMA SliceStep ==
  ASSUME Next
  PROVE  preempt' \in {preempt, QUANTUM} \/ TimeSlice
<1>1. ASSUME NEW st, NEW p, NEW prio, ready(st, p, prio)
      PROVE  preempt' \in {preempt, QUANTUM}
  BY <1>1, ReschedSlice DEF ready
<1>2. ASSUME NEW s, block(s) PROVE preempt' \in {preempt, QUANTUM}
  BY <1>2, ReschedSlice DEF block
<1>3. CASE DeferStop
  BY <1>3, ReschedSlice DEF DeferStop
<1>4. ASSUME NEW s, release(s) PROVE preempt' \in {preempt, QUANTUM}
  BY <1>1, <1>4 DEF release, schedVars
<1>5. ASSUME NEW s, countup(s) PROVE preempt' \in {preempt, QUANTUM}
  BY <1>4, <1>5 DEF countup, schedVars
<1>6. CASE ProcessCalls
  <2>1. ASSUME NEW prio, rcreate(prio) PROVE preempt' \in {preempt, QUANTUM}
    BY <1>1, <2>1 DEF rcreate
  <2>2. ASSUME NEW p, kill(p) PROVE preempt' \in {preempt, QUANTUM}
    BY <1>2, <2>2 DEF kill, xdone, remove, schedVars
  <2>3. ASSUME NEW p, suspend(p) \/ resume(p) PROVE preempt' \in {preempt, QUANTUM}
    BY <1>1, <1>2, <2>3 DEF suspend, resume
  <2>4. CASE yield
    BY <2>4, ReschedSlice DEF yield
  <2> QED BY <1>6, <2>1, <2>2, <2>3, <2>4
       DEF ProcessCalls, create, nulluser, usercreate, createfail, chprio, schedVars
<1>7. CASE BlockingCalls
  BY <1>2, <1>7, ReschedSlice DEF BlockingCalls, sleepms, yield, recvtime, receive
<1>8. CASE SemaphoreCalls
  <2>1. ASSUME NEW s, wait(s) \/ signal(s) PROVE preempt' \in {preempt, QUANTUM}
    BY <1>2, <1>5, <2>1 DEF wait, signal, schedVars
  <2> QED BY <1>8, <2>1
       DEF SemaphoreCalls, semcreate, signaln, semdelete, semreset, startloop, schedVars
<1>9. CASE KernelLoops
  BY <1>1, <1>3, <1>4, <1>5, <1>9
     DEF KernelLoops, wakeup, signalnloop, semdeleteloop, semresetloop, endloop
<1>10. CASE Clock \/ clkreturn \/ halt
  BY <1>10 DEF Clock, clkhandler, clkwakeup, clkreturn, halt, vars, schedVars
<1> QED BY <1>6, <1>7, <1>8, <1>9, <1>10 DEF Next

\* No step makes the slice counter wrap.
LEMMA NextNoWrap == NoWrap /\ [Next]_vars => NoWrap'
<1> SUFFICES ASSUME NoWrap, [Next]_vars PROVE NoWrap'
  OBVIOUS
<1>1. QUANTUM \in 1..QUANTUM /\ preempt \in 1..QUANTUM
  BY SizeAssumption DEF NoWrap
<1>2. CASE preempt' \in {preempt, QUANTUM}
  BY <1>1, <1>2 DEF NoWrap
<1>3. CASE TimeSlice
  <2>1. Decrement(preempt) = preempt - 1
    BY <1>1 DEF Decrement
  <2>2. preempt - 1 = 0 => preempt' = QUANTUM
    BY <1>3, <2>1, ReschedSlice DEF TimeSlice
  <2>3. preempt - 1 # 0 => preempt' = preempt - 1
    BY <1>3, <2>1 DEF TimeSlice
  <2> QED BY <1>1, <2>2, <2>3, SizeAssumption DEF NoWrap
<1>4. CASE UNCHANGED vars
  BY <1>1, <1>4 DEF vars, schedVars, NoWrap
<1> QED BY <1>2, <1>3, <1>4, SliceStep

\* The unsigned counter of clkhandler.c:41 is never decremented below 0, for any
\* length of the time slice.
THEOREM NoWrapCorrect == Spec => []NoWrap
<1>1. Init => NoWrap
  BY SizeAssumption DEF Init, NoWrap
<1> QED BY <1>1, NextNoWrap, PTL DEF Spec

-----------------------------------------------------------------------------
(***************************************************************************)
(* Priorities: as long as nobody changes the priority of a process, no     *)
(* ready process outranks the current one.                                 *)
(*                                                                         *)
(* The ready list is ordered by keys that are the priorities of its        *)
(* processes, so that its first key, the only one resched() looks at, is   *)
(* the largest.  A kernel loop may put a process of a higher priority on   *)
(* the list while rescheduling is deferred, but not without leaving an     *)
(* attempt behind that ends the loop with resched().                       *)
(***************************************************************************)

\* A list of processes in the order of their priorities pr.
Ranked(q, pr) ==
  /\ q \in Seq(EntriesOf(Pids))
  /\ \A i \in 1..Len(q) : q[i].key = pr[q[i].pid]
  /\ \A i, j \in 1..Len(q) : i <= j => q[i].key >= q[j].key

\* No process on q has a higher priority than k.
Below(q, k) == \A i \in 1..Len(q) : q[i].key <= k

\* resched() is going to be called when the kernel loop ends.
Attempted == Defer.ndefers > 0 /\ Defer.attempt

PrioInv ==
  /\ Ranked(readylist, prprio)
  /\ Attempted \/ Below(readylist, prprio[currpid])

-----------------------------------------------------------------------------
(* Ordered lists                                                           *)

LEMMA RankedFacts ==
  ASSUME NEW pr, NEW q, Ranked(q, pr)
  PROVE  /\ Len(q) \in Nat
         /\ \A i \in 1..Len(q) : q[i] \in EntriesOf(Pids) /\ q[i].pid \in Pids /\ q[i].key \in Int
<1>1. \A i \in 1..Len(q) : q[i] \in EntriesOf(Pids)
  BY ElementOfSeq DEF Ranked
<1> QED BY <1>1, LenProperties DEF Ranked, EntriesOf

\* insert() keeps the order.
LEMMA RankedInsert ==
  ASSUME NEW pr, NEW q, Ranked(q, pr), NEW p \in Pids, NEW key \in Int, key = pr[p]
  PROVE  Ranked(insert(q, p, key), pr)
<1> DEFINE k == InsertPos(q, key)
           e == Entry(p, key)
           r == InsertAt(q, k, e)
<1>1. Len(q) \in Nat /\ \A i \in 1..Len(q) : q[i].pid \in Pids /\ q[i].key \in Int
  BY RankedFacts
<1>2. e \in EntriesOf(Pids) /\ e.pid = p /\ e.key = key
  BY DEF Entry, EntriesOf
<1>3. /\ k \in 1..(Len(q) + 1)
      /\ \A i \in 1..(k - 1) : q[i].key >= key
      /\ k <= Len(q) => q[k].key < key
  BY <1>1, InsertPosInRange
<1> HIDE DEF k, e
<1>4. /\ r \in Seq(EntriesOf(Pids))
      /\ Len(r) = Len(q) + 1
      /\ \A i \in 1..(Len(q) + 1) :
           r[i] = IF i < k THEN q[i] ELSE IF i = k THEN e ELSE q[i - 1]
  BY <1>2, <1>3, InsertAtProperties DEF Ranked
<1> HIDE DEF r
<1>5. ASSUME NEW i \in 1..Len(r)
      PROVE  /\ i < k => i \in 1..Len(q) /\ r[i] = q[i] /\ q[i].key >= key
             /\ i = k => r[i] = e
             /\ i > k => i - 1 \in 1..Len(q) /\ r[i] = q[i - 1] /\ key >= q[i - 1].key
  <2>1. i < k \/ i = k \/ i > k
    BY <1>3
  <2>2. CASE i < k
    BY <1>1, <1>3, <1>4, <2>2
  <2>3. CASE i = k
    BY <1>4, <2>3
  <2>4. CASE i > k
    <3>1. i - 1 \in 1..Len(q) /\ r[i] = q[i - 1] /\ k <= i - 1 /\ k <= Len(q) /\ k \in 1..Len(q)
      BY <1>1, <1>3, <1>4, <2>4
    <3>2. q[k].key >= q[i - 1].key
      BY <3>1 DEF Ranked
    <3>3. q[k].key \in Int /\ q[i - 1].key \in Int /\ q[k].key < key
      BY <1>1, <1>3, <3>1
    <3> QED BY <1>3, <2>4, <3>1, <3>2, <3>3
  <2> QED BY <1>3, <2>1, <2>2, <2>3, <2>4
<1>6. ASSUME NEW i \in 1..Len(r) PROVE r[i].key \in Int /\ r[i].key = pr[r[i].pid]
  <2>1. CASE i = k
    BY <1>2, <1>5, <2>1
  <2>2. CASE i # k
    <3>1. PICK m \in 1..Len(q) : r[i] = q[m]
      BY <1>3, <1>5, <2>2
    <3> QED BY <1>1, <3>1 DEF Ranked
  <2> QED BY <2>1, <2>2
<1>7. ASSUME NEW i \in 1..Len(r), NEW j \in 1..Len(r), i <= j
      PROVE  r[i].key >= r[j].key
  <2>1. CASE i = j
    BY <1>6, <2>1
  <2>2. CASE i < k /\ j < k
    BY <1>5, <1>7, <2>2 DEF Ranked
  <2>3. CASE i < k /\ j = k
    BY <1>2, <1>5, <2>3
  <2>4. CASE i < k /\ j > k
    <3>1. r[i] = q[i] /\ r[j] = q[j - 1] /\ i \in 1..Len(q) /\ j - 1 \in 1..Len(q)
      BY <1>5, <2>4
    <3>2. i <= j - 1
      BY <1>3, <2>4
    <3> QED BY <3>1, <3>2 DEF Ranked
  <2>5. CASE i = k /\ j > k
    BY <1>2, <1>5, <2>5
  <2>6. CASE i > k /\ j > k
    <3>1. r[i] = q[i - 1] /\ r[j] = q[j - 1] /\ i - 1 \in 1..Len(q) /\ j - 1 \in 1..Len(q)
      BY <1>5, <2>6
    <3>2. i - 1 <= j - 1
      BY <1>7
    <3> QED BY <3>1, <3>2 DEF Ranked
  <2> QED BY <1>3, <1>7, <2>1, <2>2, <2>3, <2>4, <2>5, <2>6
<1>8. Ranked(r, pr)
  BY <1>4, <1>6, <1>7 DEF Ranked
<1> QED BY <1>8 DEF insert, r, k, e

\* Taking a process off keeps the order.
LEMMA RankedRemove ==
  ASSUME NEW pr, NEW q, Ranked(q, pr), NEW k \in 1..Len(q)
  PROVE  Ranked(RemoveAt(q, k), pr)
<1> DEFINE r == RemoveAt(q, k)
<1>1. Len(q) \in Nat
  BY RankedFacts
<1>2. /\ r \in Seq(EntriesOf(Pids))
      /\ Len(r) = Len(q) - 1
      /\ \A i \in 1..(Len(q) - 1) : r[i] = IF i < k THEN q[i] ELSE q[i + 1]
  BY RemoveAtProperties DEF Ranked
<1> HIDE DEF r
<1>3. \A i \in 1..Len(r) : \E m \in 1..Len(q) : r[i] = q[m] /\ m = IF i < k THEN i ELSE i + 1
  BY <1>1, <1>2
<1>4. \A i \in 1..Len(r) : r[i].key = pr[r[i].pid]
  BY <1>3 DEF Ranked
<1>5. ASSUME NEW i \in 1..Len(r), NEW j \in 1..Len(r), i <= j
      PROVE  r[i].key >= r[j].key
  <2>1. PICK m \in 1..Len(q), n \in 1..Len(q) : r[i] = q[m] /\ r[j] = q[n] /\ m <= n
    BY <1>1, <1>3, <1>5
  <2> QED BY <2>1 DEF Ranked
<1> QED BY <1>2, <1>4, <1>5 DEF Ranked, r

\* What dequeue() leaves is below what it returns.
LEMMA RankedRest ==
  ASSUME NEW pr, NEW q, Ranked(q, pr), q # <<>>
  PROVE  /\ first(q) \in Pids
         /\ Ranked(rest(q), pr)
         /\ Below(rest(q), pr[first(q)])
<1>0. q \in Seq(EntriesOf(Pids)) /\ Len(q) \in Nat /\ 1 \in 1..Len(q)
  BY RankedFacts, EmptySeq, LenProperties DEF Ranked
<1>1. first(q) \in Pids /\ q[1].key = pr[first(q)]
  BY <1>0, RankedFacts DEF first, Ranked
<1>2. /\ rest(q) \in Seq(EntriesOf(Pids))
      /\ Len(rest(q)) = Len(q) - 1
      /\ \A i \in 1..Len(rest(q)) : rest(q)[i] = q[i + 1]
  BY <1>0, HeadTailProperties DEF rest
<1>3. \A i \in 1..Len(rest(q)) : i + 1 \in 1..Len(q)
  BY <1>0, <1>2
<1>4. Ranked(rest(q), pr)
  <2> DEFINE r == rest(q)
  <2> HIDE DEF r
  <2>1. \A i \in 1..Len(r) : r[i] = q[i + 1] /\ i + 1 \in 1..Len(q)
    BY <1>2, <1>3 DEF r
  <2>2. \A i \in 1..Len(r) : r[i].key = pr[r[i].pid]
    BY <2>1 DEF Ranked
  <2>3. ASSUME NEW i \in 1..Len(r), NEW j \in 1..Len(r), i <= j
        PROVE  r[i].key >= r[j].key
    <3>1. i + 1 <= j + 1
      BY <2>3
    <3> QED BY <2>1, <3>1 DEF Ranked
  <2>4. r \in Seq(EntriesOf(Pids))
    BY <1>2 DEF r
  <2>5. Ranked(r, pr)
    BY <2>2, <2>3, <2>4 DEF Ranked
  <2> QED BY <2>5 DEF r
<1>5. Below(rest(q), pr[first(q)])
  <2>1. ASSUME NEW i \in 1..Len(rest(q)) PROVE rest(q)[i].key <= q[1].key
    <3>1. q[1].key >= q[i + 1].key /\ q[1].key \in Int /\ q[i + 1].key \in Int
      BY <1>0, <1>3, RankedFacts DEF Ranked
    <3> QED BY <1>2, <3>1
  <2> QED BY <1>1, <2>1 DEF Below
<1> QED BY <1>1, <1>4, <1>5

\* getitem() on the ready list.
LEMMA RankedGetitem ==
  ASSUME SchedInv, Ranked(readylist, prprio), NEW p \in Pids, prstate[p] = PR_READY
  PROVE  /\ Ranked(getitem(readylist, p), prprio)
         /\ \A k \in Int : Below(readylist, k) => Below(getitem(readylist, p), k)
<1> DEFINE M == {q \in Pids : prstate[q] = PR_READY}
           k == Position(readylist, p)
<1>1. k \in 1..Len(readylist)
  <2>1. Holds(readylist, Pids, M) /\ p \in M
    BY DEF SchedInv
  <2> HIDE DEF M
  <2> QED BY <2>1, PositionFound
<1> HIDE DEF k
<1>2. Ranked(RemoveAt(readylist, k), prprio)
  BY <1>1, RankedRemove
<1>3. ASSUME NEW n \in Int, Below(readylist, n) PROVE Below(RemoveAt(readylist, k), n)
  <2>1. /\ Len(RemoveAt(readylist, k)) = Len(readylist) - 1
        /\ \A i \in 1..(Len(readylist) - 1) :
             RemoveAt(readylist, k)[i] = IF i < k THEN readylist[i] ELSE readylist[i + 1]
    BY <1>1, RemoveAtProperties DEF Ranked
  <2>2. Len(readylist) \in Nat
    BY RankedFacts
  <2> QED BY <1>1, <1>3, <2>1, <2>2 DEF Below
<1> QED BY <1>2, <1>3 DEF getitem, k

-----------------------------------------------------------------------------
(* The scheduler                                                           *)

\* What resched() leaves, with the priorities pr.
Ranks(pr) ==
  /\ Ranked(readylist', pr)
  /\ (Defer'.ndefers > 0 /\ Defer'.attempt) \/ Below(readylist', pr[currpid'])

\* The CPU goes to the process with the highest priority.
LEMMA SwitchRanks ==
  ASSUME NEW pr, NEW st, NEW rl, Ranked(rl, pr), SwitchTo(st, rl)
  PROVE  Ranks(pr)
<1>1. CASE rl = <<>>
  BY <1>1 DEF SwitchTo, Ranks, Below
<1>2. CASE rl # <<>>
  BY <1>2, RankedRest DEF SwitchTo, Ranks
<1> QED BY <1>1, <1>2

\* resched(), on an ordered list, leaves the CPU to a process of the highest
\* priority or the attempt behind.
LEMMA ReschedRanks ==
  ASSUME currpid \in Pids, prprio \in [Pids -> Int],
         NEW pr, pr[currpid] = prprio[currpid],
         NEW d \in Deferral, NEW st, NEW rl, NEW pre, Ranked(rl, pr),
         resched(d, st, rl, pre)
  PROVE  Ranks(pr)
<1> DEFINE own == prprio[currpid]
<1>0. own \in Int
  OBVIOUS
<1>1. CASE d.ndefers > 0
  <2>1. readylist' = rl /\ Defer'.attempt /\ Defer'.ndefers = d.ndefers
    BY <1>1 DEF resched, Deferral
  <2> QED BY <1>1, <2>1 DEF Ranks
<1>2. CASE own > firstkey(rl) /\ readylist' = rl /\ currpid' = currpid
  <2>1. Below(rl, own)
    <3> SUFFICES ASSUME NEW i \in 1..Len(rl) PROVE rl[i].key <= own
      BY DEF Below
    <3>1. rl # <<>> /\ 1 \in 1..Len(rl) /\ rl[1].key >= rl[i].key
      BY RankedFacts DEF Ranked
    <3>2. rl[1].key \in Int /\ rl[i].key \in Int /\ own > rl[1].key
      BY <1>2, <3>1, RankedFacts DEF firstkey
    <3> QED BY <1>0, <3>1, <3>2
  <2> QED BY <1>2, <2>1 DEF Ranks
<1>3. CASE SwitchTo([st EXCEPT ![currpid] = PR_READY], insert(rl, currpid, own))
  BY <1>0, <1>3, RankedInsert, SwitchRanks
<1>4. CASE SwitchTo(st, rl)
  BY <1>4, SwitchRanks
<1> QED BY <1>1, <1>2, <1>3, <1>4 DEF resched, Deferral

\* A step that leaves the scheduler alone, and the priorities of the processes
\* it looks at.
LEMMA RanksKept ==
  ASSUME SchedInv, PrioInv, UNCHANGED <<readylist, currpid, Defer>>,
         \A p \in Pids : prstate[p] \in Running => prprio'[p] = prprio[p]
  PROVE  PrioInv'
<1>1. ASSUME NEW i \in 1..Len(readylist) PROVE prprio'[readylist[i].pid] = readylist[i].key
  <2>1. readylist[i].pid \in Pids
    BY RankedFacts DEF PrioInv
  <2>2. prstate[readylist[i].pid] \in Running
    BY <2>1 DEF SchedInv, Holds, Members, Running
  <2> QED BY <2>1, <2>2 DEF PrioInv, Ranked
<1>2. prprio'[currpid] = prprio[currpid]
  BY DEF SchedInv, Running
<1> QED BY <1>1, <1>2 DEF PrioInv, Ranked, Below, Attempted

-----------------------------------------------------------------------------
(* The steps of the kernel                                                 *)

\* ready() of a process p that is not the current one, with the priority that it
\* has in the new state.
LEMMA ReadyRanks ==
  ASSUME IInv, PrioInv, prprio' \in [Pids -> Int],
         NEW p \in Pids, prstate[p] \notin Running,
         \A q \in Pids \ {p} : prprio'[q] = prprio[q],
         NEW prio \in Int, prio = prprio'[p], ready(prstate, p, prio)
  PROVE  PrioInv'
<1> DEFINE rl == insert(readylist, p, prio)
<1>1. /\ currpid \in Pids /\ prprio \in [Pids -> Int] /\ Defer \in Deferral
      /\ prprio'[currpid] = prprio[currpid]
  BY DEF IInv, SchedInv, TableInv, LoopInv, Running
<1>2. Ranked(readylist, prprio')
  <2>1. ASSUME NEW i \in 1..Len(readylist) PROVE prprio'[readylist[i].pid] = readylist[i].key
    <3>1. readylist[i].pid \in Pids
      BY RankedFacts DEF PrioInv
    <3>2. prstate[readylist[i].pid] = PR_READY
      BY <3>1 DEF IInv, SchedInv, Holds, Members
    <3> QED BY <3>1, <3>2 DEF PrioInv, Ranked, Running
  <2> QED BY <2>1 DEF PrioInv, Ranked
<1>3. Ranked(rl, prprio')
  BY <1>2, RankedInsert
<1>4. resched(Defer, [prstate EXCEPT ![p] = PR_READY], rl, preempt)
  BY DEF ready
<1> HIDE DEF rl
<1>5. Ranks(prprio')
  BY <1>1, <1>3, <1>4, ReschedRanks
<1> QED BY <1>5 DEF Ranks, PrioInv, Attempted

\* The same when no priority changes.
LEMMA WakeRanks ==
  ASSUME IInv, PrioInv, UNCHANGED prprio,
         NEW p \in Pids, prstate[p] \notin Running, ready(prstate, p, prprio[p])
  PROVE  PrioInv'
BY ReadyRanks DEF IInv, TableInv

\* A call of resched() with the ready list as it is.
LEMMA CallRanks ==
  ASSUME IInv, PrioInv, UNCHANGED prprio, NEW d \in Deferral, NEW st, NEW pre,
         resched(d, st, readylist, pre)
  PROVE  PrioInv'
<1>1. currpid \in Pids /\ prprio \in [Pids -> Int] /\ Ranked(readylist, prprio)
  BY DEF IInv, SchedInv, TableInv, PrioInv
<1>2. Ranks(prprio)
  BY <1>1, ReschedRanks
<1> QED BY <1>2 DEF Ranks, PrioInv, Attempted

LEMMA BlockRanks ==
  ASSUME IInv, PrioInv, UNCHANGED prprio, NEW s, block(s)
  PROVE  PrioInv'
BY CallRanks DEF block, IInv, LoopInv

\* Nothing the scheduler looks at changes.
LEMMA QuietRanks ==
  ASSUME IInv, PrioInv, UNCHANGED <<prprio, readylist, currpid, Defer>>
  PROVE  PrioInv'
BY RanksKept DEF IInv

\* The first of the processes that wait for a semaphore becomes ready.
LEMMA ReleaseRanks ==
  ASSUME IInv, PrioInv, UNCHANGED prprio, NEW s \in Sems, release(s)
  PROVE  PrioInv'
<1>1. CASE squeue[s] = <<>>
  BY <1>1, QuietRanks DEF release, schedVars
<1>2. CASE squeue[s] # <<>>
  <2> DEFINE f == first(squeue[s])
             M == {p \in Pids : prstate[p] = PR_WAIT /\ prsem[p] = s}
  <2>1. f \in Pids /\ f \in M
    <3>1. Holds(squeue[s], Pids, M)
      BY DEF IInv, SemInv
    <3> HIDE DEF M
    <3> QED BY <1>2, <3>1, DequeueHolds
  <2>2. prstate[f] \notin Running
    BY <2>1, StateNames
  <2>3. ready(prstate, f, prprio[f])
    BY <1>2 DEF release
  <2> HIDE DEF f
  <2> QED BY <2>1, <2>2, <2>3, WakeRanks
<1> QED BY <1>1, <1>2

LEMMA CountupRanks ==
  ASSUME IInv, PrioInv, UNCHANGED prprio, NEW s \in Sems, countup(s)
  PROVE  PrioInv'
BY ReleaseRanks, QuietRanks DEF countup, schedVars

\* Deferring starts when no attempt is pending.
LEMMA DeferStartRanks ==
  ASSUME IInv, PrioInv, UNCHANGED prprio, loop = NoLoop, DeferStart
  PROVE  PrioInv'
<1>1. Below(readylist, prprio[currpid])
  BY DEF PrioInv, Attempted, IInv, LoopInv
<1> QED BY <1>1 DEF DeferStart, PrioInv

\* It ends with resched() if there was an attempt, and only then is it needed.
LEMMA DeferStopRanks ==
  ASSUME IInv, PrioInv, UNCHANGED prprio, loop # NoLoop, DeferStop
  PROVE  PrioInv'
<1> DEFINE d == [Defer EXCEPT !.ndefers = @ - 1]
<1>1. Defer \in Deferral /\ Defer.ndefers = 1
  BY DEF IInv, LoopInv
<1>2. d \in Deferral /\ d.ndefers = 0 /\ d.attempt = Defer.attempt
  BY <1>1 DEF Deferral
<1> HIDE DEF d
<1>3. CASE Defer.attempt
  <2>1. resched(d, prstate, readylist, preempt)
    BY <1>2, <1>3 DEF DeferStop, d
  <2> QED BY <1>2, <2>1, CallRanks
<1>4. CASE ~Defer.attempt
  <2>1. UNCHANGED <<readylist, currpid>>
    BY <1>2, <1>4 DEF DeferStop, d
  <2> QED BY <1>4, <2>1 DEF PrioInv, Attempted
<1> QED BY <1>3, <1>4

LEMMA TimeSliceRanks ==
  ASSUME IInv, PrioInv, UNCHANGED prprio, TimeSlice
  PROVE  PrioInv'
<1>1. Defer \in Deferral
  BY DEF IInv, LoopInv
<1> QED BY <1>1, CallRanks, QuietRanks DEF TimeSlice

\* kill() of a ready process leaves a shorter list.
LEMMA RemoveRanks ==
  ASSUME IInv, PrioInv, UNCHANGED prprio, NEW p \in Pids, remove(p)
  PROVE  PrioInv'
<1>1. CASE block(PR_FREE)
  BY <1>1, BlockRanks
<1>2. CASE UNCHANGED <<readylist, currpid, Defer>>
  BY <1>2, QuietRanks
<1>3. CASE prstate[p] = PR_READY /\ readylist' = getitem(readylist, p) /\ UNCHANGED <<currpid, Defer>>
  <2>1. prprio[currpid] \in Int
    BY DEF IInv, SchedInv, TableInv
  <2> QED BY <1>3, <2>1, RankedGetitem DEF IInv, PrioInv, Attempted
<1> QED BY <1>1, <1>2, <1>3 DEF remove

LEMMA ProcessCallsRanks ==
  ASSUME IInv, PrioInv, NewPrios = {}, ProcessCalls
  PROVE  PrioInv'
<1>1. ASSUME NEW prio \in Prios, create(prio) PROVE PrioInv'
  <2> DEFINE p == newpid(nextpid.create)
  <2>1. p \in Pids /\ prstate[p] = PR_FREE
    <3>1. nextpid.create \in Int /\ FreePids # {}
      BY <1>1 DEF IInv, TableInv, create
    <3> QED BY <3>1, NewpidFree DEF FreePids
  <2>2. prprio' = [prprio EXCEPT ![p] = prio] /\ UNCHANGED <<readylist, currpid, Defer>>
    BY <1>1 DEF create, NewProc
  <2> HIDE DEF p
  <2>3. \A q \in Pids : prstate[q] \in Running => prprio'[q] = prprio[q]
    BY <2>1, <2>2, StateNames DEF IInv, TableInv
  <2> QED BY <2>2, <2>3, RanksKept DEF IInv
<1>2. ASSUME NEW prio \in Prios, rcreate(prio) PROVE PrioInv'
  <2> DEFINE p == newpid(nextpid.rcreate)
  <2>1. p \in Pids /\ prstate[p] = PR_FREE
    <3>1. nextpid.rcreate \in Int /\ FreePids # {}
      BY <1>2 DEF IInv, TableInv, rcreate
    <3> QED BY <3>1, NewpidFree DEF FreePids
  <2>2. prprio' = [prprio EXCEPT ![p] = prio] /\ ready(prstate, p, prio)
    BY <1>2 DEF rcreate, NewProc
  <2> HIDE DEF p
  <2>3. prio \in Int /\ prprio' \in [Pids -> Int] /\ prprio'[p] = prio
    BY <2>1, <2>2, Constants DEF IInv, TableInv
  <2>4. \A q \in Pids \ {p} : prprio'[q] = prprio[q]
    BY <2>2 DEF IInv, TableInv
  <2>5. prstate[p] \notin Running
    BY <2>1, StateNames
  <2> QED BY <2>1, <2>2, <2>3, <2>4, <2>5, ReadyRanks
<1>3. ASSUME NEW which \in {"create", "rcreate"}, createfail(which) PROVE PrioInv'
  BY <1>3, QuietRanks DEF createfail, schedVars
<1>4. ASSUME NEW p \in Pids, kill(p) PROVE PrioInv'
  BY <1>4, RemoveRanks, QuietRanks DEF kill, xdone, schedVars
<1>5. ASSUME NEW p \in Pids, suspend(p) PROVE PrioInv'
  <2>1. CASE prstate[p] = PR_READY /\ readylist' = getitem(readylist, p) /\ UNCHANGED <<currpid, Defer>>
    <3>1. prprio[currpid] \in Int /\ UNCHANGED prprio
      BY <1>5 DEF IInv, SchedInv, TableInv, suspend, procVars
    <3> QED BY <2>1, <3>1, RankedGetitem DEF IInv, PrioInv, Attempted
  <2>2. CASE block(PR_SUSP)
    BY <1>5, <2>2, BlockRanks DEF suspend, procVars
  <2> QED BY <1>5, <2>1, <2>2 DEF suspend
<1>6. ASSUME NEW p \in Pids, resume(p) PROVE PrioInv'
  <2>1. prstate[p] \notin Running /\ UNCHANGED prprio
    BY <1>6, StateNames DEF resume, procVars
  <2> QED BY <1>6, <2>1, WakeRanks DEF resume
<1>7. CASE yield
  BY <1>7, CallRanks DEF yield, procVars, IInv, LoopInv
<1>8. ~\E p \in Pids, prio \in NewPrios : chprio(p, prio)
  OBVIOUS
<1> QED BY <1>1, <1>2, <1>3, <1>4, <1>5, <1>6, <1>7, <1>8
       DEF ProcessCalls, nulluser, usercreate

LEMMA BlockingCallsRanks ==
  ASSUME IInv, PrioInv, BlockingCalls
  PROVE  PrioInv'
<1>1. ASSUME NEW delay \in Delays, sleepms(delay) PROVE PrioInv'
  <2>1. CASE yield
    BY <2>1, CallRanks DEF yield, procVars, IInv, LoopInv
  <2>2. CASE block(PR_SLEEP) /\ UNCHANGED procVars
    BY <2>2, BlockRanks DEF procVars
  <2> QED BY <1>1, <2>1, <2>2 DEF sleepms
<1>2. ASSUME NEW maxwait \in Waits, recvtime(maxwait) PROVE PrioInv'
  BY <1>2, BlockRanks DEF recvtime, procVars
<1>3. CASE receive
  BY <1>3, BlockRanks DEF receive, procVars
<1> QED BY <1>1, <1>2, <1>3 DEF BlockingCalls

LEMMA SemaphoreCallsRanks ==
  ASSUME IInv, PrioInv, SemaphoreCalls
  PROVE  PrioInv'
<1>1. ASSUME NEW count \in Counts, semcreate(count) PROVE PrioInv'
  BY <1>1, QuietRanks DEF semcreate, procVars, schedVars
<1>2. ASSUME NEW s \in Sems, wait(s) PROVE PrioInv'
  BY <1>2, BlockRanks, QuietRanks DEF wait, schedVars
<1>3. ASSUME NEW s \in Sems, signal(s) PROVE PrioInv'
  BY <1>3, CountupRanks DEF signal, procVars
<1>4. ASSUME NEW op, NEW s, NEW n, startloop(op, s, n) PROVE PrioInv'
  BY <1>4, DeferStartRanks DEF startloop, Calling, InUser, procVars
<1> QED BY <1>1, <1>2, <1>3, <1>4 DEF SemaphoreCalls, signaln, semdelete, semreset

LEMMA KernelLoopsRanks ==
  ASSUME IInv, PrioInv, KernelLoops
  PROVE  PrioInv'
<1>1. UNCHANGED prprio
  BY DEF KernelLoops, wakeup, signalnloop, semdeleteloop, semresetloop, procVars
<1>2. loop # NoLoop /\ loop.sem \in Sems
  BY DEF KernelLoops, wakeup, signalnloop, semdeleteloop, semresetloop, NoLoop, IInv, LoopInv
<1>3. CASE wakeup
  <2>1. ASSUME sleepq # <<>>, ready(prstate, first(sleepq), prprio[first(sleepq)])
        PROVE  PrioInv'
    <3> DEFINE f == first(sleepq)
               M == {p \in Pids : prstate[p] \in Asleep}
    <3>1. f \in Pids /\ f \in M
      <4>1. Holds(sleepq, Pids, M)
        BY DEF IInv, SleepInv
      <4> HIDE DEF M
      <4> QED BY <2>1, <4>1, DequeueHolds
    <3>2. prstate[f] \notin Running
      BY <3>1, StateNames
    <3> HIDE DEF f
    <3>3. ready(prstate, f, prprio[f])
      BY <2>1 DEF f
    <3> QED BY <1>1, <3>1, <3>2, <3>3, WakeRanks
  <2> QED BY <1>1, <1>2, <1>3, <2>1, DeferStopRanks DEF wakeup
<1>4. CASE signalnloop
  BY <1>1, <1>2, <1>4, CountupRanks, DeferStopRanks DEF signalnloop, endloop
<1>5. CASE semdeleteloop
  BY <1>1, <1>2, <1>5, ReleaseRanks, DeferStopRanks DEF semdeleteloop, endloop
<1>6. CASE semresetloop
  BY <1>1, <1>2, <1>6, ReleaseRanks, DeferStopRanks DEF semresetloop, endloop
<1> QED BY <1>3, <1>4, <1>5, <1>6 DEF KernelLoops

LEMMA ClockRanks ==
  ASSUME IInv, PrioInv, Clock \/ clkreturn
  PROVE  PrioInv'
<1>1. CASE clkhandler
  BY <1>1, TimeSliceRanks DEF clkhandler, procVars
<1>2. CASE clkwakeup
  BY <1>2, DeferStartRanks DEF clkwakeup, InUser, procVars
<1>3. CASE clkreturn
  BY <1>3, TimeSliceRanks DEF clkreturn, procVars
<1> QED BY <1>1, <1>2, <1>3 DEF Clock

\* PrioInv is inductive together with IInv when no priority is changed.
LEMMA NextPrioInv ==
  ASSUME NewPrios = {}, IInv, PrioInv, [Next]_vars
  PROVE  PrioInv'
<1>1. CASE UNCHANGED vars \/ halt
  BY <1>1, QuietRanks DEF halt, vars, procVars, schedVars
<1> QED BY <1>1, ProcessCallsRanks, BlockingCallsRanks, SemaphoreCallsRanks,
           KernelLoopsRanks, ClockRanks DEF Next

LEMMA InitPrioInv == Init => PrioInv
BY DEF Init, PrioInv, Ranked, Below

\* Without chprio(), which neither moves a process on the ready list nor calls
\* resched() (chprio.c:25), no ready process outranks the current one outside of
\* the kernel's loops (resched.c:38).
THEOREM HighestRunsCorrect ==
  ASSUME NewPrios = {}
  PROVE  Spec => []HighestRuns
<1>1. Spec => []PrioInv
  <2>1. IInv /\ PrioInv /\ [Next]_vars => PrioInv'
    BY NextPrioInv
  <2> QED BY <2>1, InitPrioInv, IInvCorrect, PTL DEF Spec
<1>2. IInv /\ PrioInv => HighestRuns
  <2> SUFFICES ASSUME IInv, PrioInv, loop = NoLoop, NEW p \in Pids, prstate[p] = PR_READY
               PROVE  prprio[p] <= prprio[currpid]
    BY DEF HighestRuns
  <2>1. Below(readylist, prprio[currpid])
    BY DEF PrioInv, Attempted, IInv, LoopInv
  <2>2. PICK i \in 1..Len(readylist) : readylist[i].pid = p
    BY DEF IInv, SchedInv, Holds, Members
  <2> QED BY <2>1, <2>2 DEF Below, PrioInv, Ranked
<1> QED BY <1>1, <1>2, IInvCorrect, PTL
-----------------------------------------------------------------------------
(* Counters                                                                 *)

-----------------------------------------------------------------------------
(* The number of processes                                                 *)

Alive == {p \in Pids : prstate[p] # PR_FREE}

\* The scheduler creates and frees no process.
LEMMA SchedulerAlive ==
  ASSUME NEW st, SameBlocked(st)
  PROVE  Alive' = {p \in Pids : st[p] # PR_FREE}
<1>1. PR_FREE \in States \ Running
  BY StateNames
<1>2. \A p \in Pids : prstate'[p] = PR_FREE <=> st[p] = PR_FREE
  BY <1>1 DEF SameBlocked
<1> QED BY <1>2 DEF Alive

\* ready() makes a process of a free entry (rcreate) and otherwise changes
\* nothing in the number of processes.
LEMMA ReadyAlive ==
  ASSUME IInv, NEW p \in Pids, prstate[p] \notin Running, NEW prio \in Int,
         ready(prstate, p, prio)
  PROVE  Alive' = Alive \cup {p}
<1> DEFINE st == [prstate EXCEPT ![p] = PR_READY]
<1>1. SameBlocked(st)
  BY ReadyStep DEF IInv, TableInv, LoopInv, SchedStep
<1>2. {q \in Pids : st[q] # PR_FREE} = Alive \cup {p}
  BY StateNames DEF Alive, IInv, SchedInv, Running
<1> HIDE DEF st
<1> QED BY <1>1, <1>2, SchedulerAlive

\* A process that leaves the CPU exists afterwards, unless it killed itself.
LEMMA BlockAlive ==
  ASSUME IInv, Calling, NEW s \in States \ Running, block(s)
  PROVE  Alive' = IF s = PR_FREE THEN Alive \ {currpid} ELSE Alive
<1> DEFINE st == [prstate EXCEPT ![currpid] = s]
<1>0. /\ Defer.ndefers = 0 /\ currpid \in Pids /\ currpid # NULLPROC
      /\ prstate[currpid] = PR_CURR
  BY InUserFacts DEF Calling
<1>1. SameBlocked(st)
  BY <1>0, BlockStep DEF IInv, TableInv, LoopInv, SchedStep
<1>2. {q \in Pids : st[q] # PR_FREE} = IF s = PR_FREE THEN Alive \ {currpid} ELSE Alive
  BY <1>0, StateNames DEF Alive, IInv, SchedInv, Running
<1> HIDE DEF st
<1> QED BY <1>1, <1>2, SchedulerAlive

\* Steps of the scheduler on behalf of no particular process.
LEMMA RescheduleAlive ==
  ASSUME IInv,
         \/ resched(Defer, prstate, readylist, preempt)
         \/ TimeSlice
         \/ loop # NoLoop /\ DeferStop
         \/ UNCHANGED prstate
  PROVE  Alive' = Alive
<1>1. CASE resched(Defer, prstate, readylist, preempt)
  BY <1>1, YieldStep, SchedulerAlive DEF IInv, TableInv, LoopInv, Alive
<1>2. CASE TimeSlice
  BY <1>2, TimeSliceStep, SchedulerAlive DEF IInv, TableInv, LoopInv, Alive
<1>3. CASE loop # NoLoop /\ DeferStop
  BY <1>3, DeferStopStep, SchedulerAlive DEF Alive
<1>4. CASE UNCHANGED prstate
  BY <1>4 DEF Alive
<1> QED BY <1>1, <1>2, <1>3, <1>4

\* A process that is released by a semaphore existed before.
LEMMA ReleaseAlive ==
  ASSUME IInv, NEW s \in Sems, release(s)
  PROVE  Alive' = Alive
<1> DEFINE M == {p \in Pids : prstate[p] = PR_WAIT /\ prsem[p] = s}
           f == first(squeue[s])
<1>1. CASE UNCHANGED <<squeue, schedVars>>
  BY <1>1 DEF Alive, schedVars
<1>2. CASE squeue[s] # <<>> /\ ready(prstate, f, prprio[f])
  <2>1. f \in M /\ f \in Pids
    <3>1. Holds(squeue[s], Pids, M)
      BY DEF IInv, SemInv
    <3> HIDE DEF M
    <3> QED BY <1>2, <3>1, DequeueHolds
  <2> HIDE DEF f
  <2>2. prstate[f] \notin Running /\ prstate[f] # PR_FREE /\ prprio[f] \in Int
    BY <2>1, StateNames DEF IInv, TableInv
  <2> QED BY <1>2, <2>1, <2>2, ReadyAlive DEF Alive
<1> QED BY <1>1, <1>2 DEF release

\* The loop of wakeup() readies processes that sleep, hence exist.
LEMMA WakeupAlive ==
  ASSUME IInv, wakeup
  PROVE  Alive' = Alive
<1> DEFINE M == {p \in Pids : prstate[p] \in Asleep}
           f == first(sleepq)
<1>1. CASE sleepq # <<>> /\ ready(prstate, f, prprio[f])
  <2>1. f \in M /\ f \in Pids
    <3>1. Holds(sleepq, Pids, M)
      BY DEF IInv, SleepInv
    <3> HIDE DEF M
    <3> QED BY <1>1, <3>1, DequeueHolds
  <2> HIDE DEF f
  <2>2. prstate[f] \notin Running /\ prstate[f] # PR_FREE /\ prprio[f] \in Int
    BY <2>1, StateNames DEF IInv, TableInv
  <2> QED BY <1>1, <2>1, <2>2, ReadyAlive DEF Alive
<1>2. CASE DeferStop
  <2>1. loop # NoLoop
    BY DEF wakeup, NoLoop
  <2> QED BY <1>2, <2>1, RescheduleAlive
<1> QED BY <1>1, <1>2 DEF wakeup

\* What a call does to the number of processes: nothing, unless it creates a
\* process in a free entry, kills one that exists, or halts the machine.
CountStep ==
  \/ halted'
  \/ UNCHANGED <<prcount, halted>> /\ Alive' = Alive
  \/ \E p \in Pids \ Alive :
       prcount' = prcount + 1 /\ UNCHANGED halted /\ Alive' = Alive \cup {p}
  \/ \E p \in Alive :
       prcount' = prcount - 1 /\ UNCHANGED halted /\ Alive' = Alive \ {p}

\* create() and rcreate() count the process whose entry they fill.
LEMMA CreateCounts ==
  ASSUME IInv, NEW prio \in Prios, create(prio) \/ rcreate(prio)
  PROVE  CountStep
<1>0. prio \in Int /\ PR_FREE \notin Running /\ PR_SUSP # PR_FREE
  BY Constants, StateNames DEF PR_FREE, PR_SUSP
<1>1. CASE create(prio)
  <2> DEFINE p == newpid(nextpid.create)
  <2>1. p \in FreePids
    <3>1. nextpid.create \in Int /\ FreePids # {}
      BY <1>1 DEF IInv, TableInv, create
    <3> QED BY <3>1, NewpidFree
  <2>2. /\ prstate' = [prstate EXCEPT ![p] = PR_SUSP]
        /\ prcount' = prcount + 1 /\ UNCHANGED halted
    BY <1>1 DEF create, NewProc
  <2> HIDE DEF p
  <2>3. p \in Pids \ Alive /\ Alive' = Alive \cup {p}
    BY <1>0, <2>1, <2>2 DEF Alive, FreePids, IInv, SchedInv
  <2> QED BY <2>2, <2>3 DEF CountStep
<1>2. CASE rcreate(prio)
  <2> DEFINE p == newpid(nextpid.rcreate)
  <2>1. p \in FreePids
    <3>1. nextpid.rcreate \in Int /\ FreePids # {}
      BY <1>2 DEF IInv, TableInv, rcreate
    <3> QED BY <3>1, NewpidFree
  <2>2. ready(prstate, p, prio) /\ prcount' = prcount + 1 /\ UNCHANGED halted
    BY <1>2 DEF rcreate, NewProc
  <2> HIDE DEF p
  <2>3. p \in Pids /\ prstate[p] = PR_FREE
    BY <2>1 DEF FreePids
  <2>4. Alive' = Alive \cup {p}
    BY <1>0, <2>2, <2>3, ReadyAlive
  <2> QED BY <2>2, <2>3, <2>4 DEF CountStep, Alive
<1> QED BY <1>1, <1>2

\* kill() counts the process out that it frees.
LEMMA KillCounts ==
  ASSUME IInv, NEW p \in Pids, kill(p)
  PROVE  CountStep
<1>1. Calling /\ p \in Alive /\ prcount' = prcount - 1
  BY DEF kill, isbadpid, Alive
<1>2. CASE xdone(p)
  BY <1>2 DEF xdone, CountStep
<1>3. CASE remove(p)
  <2>1. UNCHANGED halted
    BY <1>3 DEF remove, ctlVars
  <2>2. CASE prstate[p] = PR_CURR /\ block(PR_FREE)
    <3>1. p = currpid /\ PR_FREE \in States \ Running
      BY <2>2, StateNames DEF IInv, SchedInv
    <3>2. Alive' = Alive \ {p}
      BY <1>1, <2>2, <3>1, BlockAlive
    <3> QED BY <1>1, <2>1, <3>2 DEF CountStep
  <2>3. CASE prstate' = [prstate EXCEPT ![p] = PR_FREE]
    <3>1. Alive' = Alive \ {p}
      BY <2>3 DEF Alive, IInv, SchedInv
    <3> QED BY <1>1, <2>1, <3>1 DEF CountStep
  <2> QED BY <1>3, <2>2, <2>3 DEF remove
<1> QED BY <1>2, <1>3 DEF kill

\* Every other call on processes leaves their number alone.
LEMMA ProcessCallsCount ==
  ASSUME IInv, ProcessCalls
  PROVE  CountStep
<1>1. ASSUME NEW prio \in Prios, create(prio) \/ nulluser(prio) \/ usercreate(prio)
      PROVE  CountStep
  BY <1>1, CreateCounts DEF nulluser, usercreate
<1>2. ASSUME NEW p \in Pids, kill(p) PROVE CountStep
  BY <1>2, KillCounts
<1>3. ASSUME NEW p \in Pids, suspend(p) PROVE CountStep
  <2>1. UNCHANGED <<prcount, halted>> /\ Calling
    BY <1>3 DEF suspend, procVars, ctlVars
  <2>2. CASE prstate[p] = PR_READY /\ prstate' = [prstate EXCEPT ![p] = PR_SUSP]
    <3>1. PR_READY # PR_FREE /\ PR_SUSP # PR_FREE
      BY DEF PR_READY, PR_FREE, PR_SUSP
    <3>2. Alive' = Alive
      BY <2>2, <3>1 DEF Alive, IInv, SchedInv
    <3> QED BY <2>1, <3>2 DEF CountStep
  <2>3. CASE block(PR_SUSP)
    <3>1. PR_SUSP \in States \ Running /\ PR_SUSP # PR_FREE
      BY StateNames DEF PR_SUSP, PR_FREE
    <3> QED BY <2>1, <2>3, <3>1, BlockAlive DEF CountStep
  <2> QED BY <1>3, <2>2, <2>3 DEF suspend
<1>4. ASSUME NEW p \in Pids, resume(p) PROVE CountStep
  <2>1. /\ UNCHANGED <<prcount, halted>> /\ prstate[p] = PR_SUSP
        /\ ready(prstate, p, prprio[p])
    BY <1>4 DEF resume, procVars, ctlVars
  <2>2. p \in Alive /\ PR_SUSP \notin Running
    BY <2>1, StateNames DEF Alive, PR_SUSP, PR_FREE
  <2>3. Alive' = Alive \cup {p}
    BY <2>1, <2>2, ReadyAlive DEF IInv, TableInv
  <2> QED BY <2>1, <2>2, <2>3 DEF CountStep
<1>5. ASSUME NEW which, createfail(which) PROVE CountStep
  BY <1>5 DEF createfail, schedVars, ctlVars, CountStep, Alive
<1>6. ASSUME NEW p, NEW prio, chprio(p, prio) PROVE CountStep
  BY <1>6 DEF chprio, schedVars, ctlVars, CountStep, Alive
<1>7. CASE yield
  BY <1>7, RescheduleAlive DEF yield, procVars, ctlVars, CountStep
<1> QED BY <1>1, <1>2, <1>3, <1>4, <1>5, <1>6, <1>7 DEF ProcessCalls

\* The calls that block, the semaphores, the loops and the clock.
LEMMA OthersCount ==
  ASSUME IInv, BlockingCalls \/ SemaphoreCalls \/ KernelLoops \/ Clock \/ clkreturn
  PROVE  UNCHANGED <<prcount, halted>> /\ Alive' = Alive
<1>0. {PR_SLEEP, PR_RECTIM, PR_RECV, PR_WAIT} \subseteq (States \ Running) \ {PR_FREE}
  BY StateNames DEF PR_SLEEP, PR_RECTIM, PR_RECV, PR_WAIT, PR_FREE
<1>1. CASE BlockingCalls
  <2>1. Calling /\ UNCHANGED <<prcount, halted>>
    BY <1>1 DEF BlockingCalls, sleepms, yield, recvtime, receive, procVars, ctlVars
  <2>2. \/ resched(Defer, prstate, readylist, preempt)
        \/ block(PR_SLEEP) \/ block(PR_RECTIM) \/ block(PR_RECV)
    BY <1>1 DEF BlockingCalls, sleepms, yield, recvtime, receive
  <2> QED BY <1>0, <2>1, <2>2, BlockAlive, RescheduleAlive
<1>2. CASE SemaphoreCalls
  <2>1. UNCHANGED <<prcount, halted>>
    BY <1>2 DEF SemaphoreCalls, semcreate, wait, signal, signaln, semdelete, semreset,
                startloop, procVars, ctlVars
  <2>2. ASSUME NEW s \in Sems, wait(s) PROVE Alive' = Alive
    <3>1. Calling /\ (block(PR_WAIT) \/ UNCHANGED schedVars)
      BY <2>2 DEF wait
    <3> QED BY <1>0, <3>1, BlockAlive DEF schedVars, Alive
  <2>3. ASSUME NEW s \in Sems, signal(s) PROVE Alive' = Alive
    BY <2>3, ReleaseAlive DEF signal, countup, schedVars, Alive
  <2> QED BY <1>2, <2>1, <2>2, <2>3
       DEF SemaphoreCalls, semcreate, signaln, semdelete, semreset, startloop,
           DeferStart, schedVars, Alive
<1>3. CASE KernelLoops
  <2>1. UNCHANGED <<prcount, halted>>
    BY <1>3 DEF KernelLoops, wakeup, signalnloop, semdeleteloop, semresetloop, procVars
  <2>2. loop.sem \in Sems /\ NoLoop.op = "none"
    BY DEF IInv, LoopInv, NoLoop
  <2>3. CASE signalnloop
    <3>1. release(loop.sem) \/ UNCHANGED schedVars \/ (loop # NoLoop /\ DeferStop)
      BY <2>2, <2>3 DEF signalnloop, countup, endloop
    <3> QED BY <2>1, <2>2, <3>1, ReleaseAlive, RescheduleAlive DEF schedVars
  <2>4. CASE semdeleteloop \/ semresetloop
    <3>1. release(loop.sem) \/ (loop # NoLoop /\ DeferStop)
      BY <2>2, <2>4 DEF semdeleteloop, semresetloop, endloop
    <3> QED BY <2>1, <2>2, <3>1, ReleaseAlive, RescheduleAlive
  <2> QED BY <1>3, <2>1, <2>3, <2>4, WakeupAlive DEF KernelLoops
<1>4. CASE Clock \/ clkreturn
  <2>1. UNCHANGED <<prcount, halted>>
    BY <1>4 DEF Clock, clkhandler, clkwakeup, clkreturn, procVars, ctlVars
  <2>2. TimeSlice \/ UNCHANGED prstate
    BY <1>4 DEF Clock, clkhandler, clkwakeup, clkreturn, DeferStart
  <2> QED BY <2>1, <2>2, RescheduleAlive
<1> QED BY <1>1, <1>2, <1>3, <1>4

\* Every step of the kernel is one of these.
LEMMA NextCounts == IInv /\ [Next]_vars => CountStep
<1> SUFFICES ASSUME IInv, [Next]_vars PROVE CountStep
  OBVIOUS
<1>1. CASE ProcessCalls
  BY <1>1, ProcessCallsCount
<1>2. CASE BlockingCalls \/ SemaphoreCalls \/ KernelLoops \/ Clock \/ clkreturn
  BY <1>2, OthersCount DEF CountStep
<1>3. CASE halt \/ UNCHANGED vars
  BY <1>3 DEF halt, vars, procVars, schedVars, ctlVars, CountStep, Alive
<1> QED BY <1>1, <1>2, <1>3 DEF Next

\* A machine that has halted stays halted.
LEMMA HaltedForEver == halted /\ [Next]_vars => halted'
<1> SUFFICES ASSUME halted, [Next]_vars PROVE halted'
  OBVIOUS
<1>1. ~InUser /\ ~Calling
  BY DEF InUser, Calling
<1>2. ~ProcessCalls
  BY <1>1 DEF ProcessCalls, create, nulluser, usercreate, createfail, kill,
              suspend, resume, chprio, yield
<1>3. ~BlockingCalls
  BY <1>1 DEF BlockingCalls, sleepms, yield, recvtime, receive
<1>4. ~SemaphoreCalls
  BY <1>1 DEF SemaphoreCalls, semcreate, wait, signal, signaln, semdelete,
              semreset, startloop
<1>5. ~Clock /\ ~clkreturn
  BY <1>1 DEF Clock, clkhandler, clkwakeup, clkreturn
<1>6. CASE KernelLoops
  BY <1>6 DEF KernelLoops, wakeup, signalnloop, semdeleteloop, semresetloop
<1>7. CASE halt \/ UNCHANGED vars
  BY <1>7 DEF halt, vars, ctlVars
<1> QED BY <1>2, <1>3, <1>4, <1>5, <1>6, <1>7 DEF Next

\* One step keeps prcount and the number of processes equal.
LEMMA NextCountConsistent ==
  IInv /\ CountConsistent /\ [Next]_vars => CountConsistent'
<1> SUFFICES ASSUME IInv, CountConsistent, [Next]_vars, ~halted' PROVE
      prcount' = Cardinality(Alive')
  BY DEF CountConsistent, Alive
<1>1. IsFiniteSet(Alive)
  <2>1. IsFiniteSet(Pids)
    BY SizeAssumption, FS_Interval DEF Pids
  <2> QED BY <2>1, FS_Subset DEF Alive
<1>2. CountStep
  BY NextCounts
<1>3. prcount = Cardinality(Alive)
  BY <1>2, HaltedForEver DEF CountConsistent, Alive
<1>4. CASE UNCHANGED <<prcount, halted>> /\ Alive' = Alive
  BY <1>3, <1>4
<1>5. ASSUME NEW p \in Pids \ Alive, prcount' = prcount + 1, Alive' = Alive \cup {p}
      PROVE  prcount' = Cardinality(Alive')
  BY <1>1, <1>3, <1>5, FS_AddElement
<1>6. ASSUME NEW p \in Alive, prcount' = prcount - 1, Alive' = Alive \ {p}
      PROVE  prcount' = Cardinality(Alive')
  BY <1>1, <1>3, <1>6, FS_RemoveElement
<1> QED BY <1>2, <1>4, <1>5, <1>6 DEF CountStep

\* prcount is the number of processes that exist as long as the machine runs, so
\* that kill() halts it exactly when the last user process goes (kill.c:24).
THEOREM CountCorrect == Spec => []CountConsistent
<1>1. Init => CountConsistent
  <2> SUFFICES ASSUME Init PROVE CountConsistent
    OBVIOUS
  <2>1. {p \in Pids : prstate[p] # PR_FREE} = {NULLPROC}
    BY Constants DEF Init, PR_CURR, PR_FREE
  <2> QED BY <2>1, FS_Singleton DEF Init, CountConsistent
<1> QED BY <1>1, IInvCorrect, NextCountConsistent, PTL DEF Spec

-----------------------------------------------------------------------------
(* Counts and queues of semaphores                                         *)

Counted(s) == Len(squeue[s]) = IF scount[s] < 0 THEN -scount[s] ELSE 0
Deleting(s) == loop = [op |-> "semdelete", sem |-> s, n |-> 0]

\* What holds of one semaphore in every state.
Agrees(s) ==
  /\ Resetting(s) \/ Counted(s)
  /\ squeue[s] = <<>> \/ sstate[s] \/ Deleting(s)

\* SemConsistent is inductive together with IInv once the count that
\* semreset() will set is known not to be negative.
CountInv ==
  /\ \A s \in Sems : Agrees(s)
  /\ loop.op = "semreset" => loop.n \in Nat

\* CountInv gives the agreement of counts and queues.
LEMMA CountInvSemConsistent == CountInv => SemConsistent
<1> SUFFICES ASSUME CountInv, NEW s \in Sems
             PROVE  /\ loop.op # "semreset" \/ loop.sem # s => Counted(s)
                    /\ squeue[s] # <<>>
                       => sstate[s] \/ loop = [NoLoop EXCEPT !.op = "semdelete", !.sem = s]
  BY DEF SemConsistent, Counted
<1>1. [NoLoop EXCEPT !.op = "semdelete", !.sem = s] =
        [op |-> "semdelete", sem |-> s, n |-> 0]
  <2> DEFINE r == [NoLoop EXCEPT !.op = "semdelete"]
  <2>1. r = [op |-> "semdelete", sem |-> 0, n |-> 0]
    BY DEF NoLoop
  <2>2. [NoLoop EXCEPT !.op = "semdelete", !.sem = s] = [r EXCEPT !.sem = s]
    OBVIOUS
  <2> HIDE DEF r
  <2>3. [r EXCEPT !.sem = s] = [op |-> "semdelete", sem |-> s, n |-> 0]
    BY <2>1
  <2> QED BY <2>2, <2>3
<1>2. loop.op # "semreset" \/ loop.sem # s => Counted(s)
  BY DEF CountInv, Agrees, Resetting
<1>3. squeue[s] # <<>> => sstate[s] \/ Deleting(s)
  BY DEF CountInv, Agrees
<1> QED BY <1>1, <1>2, <1>3 DEF Deleting

\* The queue operations add or take off one entry.
LEMMA QueueLengths ==
  ASSUME NEW q \in Seq(Queued)
  PROVE  /\ Len(q) \in Nat /\ (Len(q) = 0 <=> q = <<>>)
         /\ \A p \in Pids : Len(enqueue(q, p)) = Len(q) + 1
         /\ q # <<>> => Len(rest(q)) = Len(q) - 1
         /\ \A p \in Members(q) : Len(getitem(q, p)) = Len(q) - 1
<1>1. Len(q) \in Nat /\ (Len(q) = 0 <=> q = <<>>)
  BY EmptySeq, LenProperties
<1>2. ASSUME NEW p \in Pids PROVE Len(enqueue(q, p)) = Len(q) + 1
  <2>1. Entry(p, 0) \in Queued
    BY DEF Entry, Queued
  <2> QED BY <2>1, AppendProperties DEF enqueue
<1>3. ASSUME q # <<>> PROVE Len(rest(q)) = Len(q) - 1
  BY <1>3, HeadTailProperties DEF rest
<1>4. ASSUME NEW p \in Members(q) PROVE Len(getitem(q, p)) = Len(q) - 1
  <2>1. Position(q, p) \in 1..Len(q)
    <3>1. \E i \in 1..Len(q) : q[i].pid = p
      BY DEF Members
    <3> QED BY <3>1 DEF Position
  <2> QED BY <2>1, RemoveAtProperties DEF getitem
<1> QED BY <1>1, <1>2, <1>3, <1>4

\* The loops that leave no count behind its queue.
NotCounting == {"none", "wakeup", "signaln"}

\* A step that leaves the semaphores and the loops over them alone.
LEMMA CountsKept ==
  ASSUME CountInv, UNCHANGED <<scount, squeue, sstate>>,
         \/ loop' = loop
         \/ loop.op \in NotCounting /\ loop'.op \in NotCounting
  PROVE  CountInv'
<1> SUFFICES ASSUME NEW s \in Sems PROVE Agrees(s)'
  BY DEF CountInv, NotCounting
<1>1. Agrees(s) /\ (Counted(s)' <=> Counted(s))
  BY DEF CountInv, Counted
<1>2. CASE loop' = loop
  BY <1>1, <1>2 DEF Agrees, Resetting, Deleting
<1>3. CASE loop.op \in NotCounting /\ loop'.op \in NotCounting
  <2>1. ~Resetting(s) /\ ~Deleting(s)
    BY <1>3 DEF Resetting, Deleting, NotCounting
  <2> QED BY <1>1, <2>1 DEF Agrees
<1> QED BY <1>2, <1>3

\* A step that changes the count and the queue of one semaphore, s.
LEMMA OneCount ==
  ASSUME CountInv, NEW s \in Sems, Agrees(s)',
         NEW c, NEW q,
         squeue \in [Sems -> Seq(Queued)], scount \in [Sems -> Int],
         squeue' = [squeue EXCEPT ![s] = q], scount' = [scount EXCEPT ![s] = c],
         \A t \in Sems \ {s} : sstate'[t] = sstate[t],
         \A t \in Sems \ {s} : /\ Resetting(t) => Resetting(t)'
                               /\ Deleting(t) => Deleting(t)',
         loop'.op = "semreset" => loop'.n \in Nat
  PROVE  CountInv'
<1> SUFFICES ASSUME NEW t \in Sems \ {s} PROVE Agrees(t)'
  BY DEF CountInv
<1>1. squeue'[t] = squeue[t] /\ scount'[t] = scount[t]
  OBVIOUS
<1> QED BY <1>1 DEF CountInv, Agrees, Counted

\* What OneCount needs of the types.
LEMMA SemTypes ==
  ASSUME IInv
  PROVE  /\ squeue \in [Sems -> Seq(Queued)] /\ scount \in [Sems -> Int]
         /\ sstate \in [Sems -> BOOLEAN] /\ loop.sem \in Sems
BY DEF IInv, SemInv, TableInv, LoopInv

\* Outside the loops counts and queues agree, and only semaphores in use have
\* processes that wait.
LEMMA QuietCounts ==
  ASSUME CountInv, loop = NoLoop, NEW s \in Sems
  PROVE  /\ Counted(s) /\ (squeue[s] = <<>> \/ sstate[s])
         /\ ~Resetting(s) /\ ~Deleting(s)
<1>1. ~Resetting(s) /\ ~Deleting(s)
  BY DEF NoLoop, Resetting, Deleting
<1> QED BY <1>1 DEF CountInv, Agrees

\* signal(), and the loops that do the same, release a process exactly if one
\* waits.
LEMMA CountupCounts ==
  ASSUME IInv, NEW s \in Sems, Counted(s), countup(s)
  PROVE  /\ \E q : squeue' = [squeue EXCEPT ![s] = q]
         /\ scount' = [scount EXCEPT ![s] = scount[s] + 1]
         /\ Counted(s)' /\ (squeue[s] = <<>> => squeue'[s] = <<>>)
<1>0. /\ squeue \in [Sems -> Seq(Queued)] /\ scount \in [Sems -> Int]
      /\ squeue[s] \in Seq(Queued) /\ scount[s] \in Int
  BY SemTypes
<1>1. scount' = [scount EXCEPT ![s] = scount[s] + 1] /\ scount'[s] = scount[s] + 1
  BY <1>0 DEF countup
<1>2. Len(squeue[s]) \in Nat /\ (Len(squeue[s]) = 0 <=> squeue[s] = <<>>)
  BY <1>0, QueueLengths
<1>3. CASE scount[s] < 0
  <2>1. squeue[s] # <<>>
    BY <1>0, <1>2, <1>3 DEF Counted
  <2>2. squeue' = [squeue EXCEPT ![s] = rest(squeue[s])]
    BY <1>0, <1>3, <2>1 DEF countup, release
  <2>3. Len(squeue'[s]) = Len(squeue[s]) - 1
    BY <1>0, <2>1, <2>2, QueueLengths
  <2>4. Counted(s)'
    BY <1>0, <1>1, <1>3, <2>3 DEF Counted
  <2> QED BY <1>1, <2>1, <2>2, <2>4
<1>4. CASE scount[s] >= 0
  <2>1. squeue' = squeue
    BY <1>0, <1>4 DEF countup
  <2>2. squeue' = [squeue EXCEPT ![s] = squeue[s]]
    BY <1>0, <2>1
  <2>3. Counted(s)'
    BY <1>0, <1>1, <1>4, <2>1 DEF Counted
  <2> QED BY <1>1, <2>1, <2>2, <2>3
<1> QED BY <1>0, <1>3, <1>4

\* kill() of a waiting process gives back what wait() took from the count.
LEMMA KillWaits ==
  ASSUME IInv, CountInv, NEW p \in Pids, kill(p)
  PROVE  CountInv'
<1>0. loop = NoLoop /\ loop' = loop /\ sstate' = sstate
  BY DEF kill, xdone, remove, semVars, ctlVars, Calling, InUser
<1>1. CASE UNCHANGED <<scount, squeue>>
  BY <1>0, <1>1, CountsKept
<1>2. CASE /\ prstate[p] = PR_WAIT
           /\ scount' = [scount EXCEPT ![prsem[p]] = @ + 1]
           /\ squeue' = [squeue EXCEPT ![prsem[p]] = getitem(@, p)]
  <2>0. PICK s \in Sems : s = prsem[p]
    BY <1>2 DEF IInv, SemInv
  <2> DEFINE q == squeue[s]
  <2>1. s \in Sems /\ p \in Members(q)
    BY <1>2, <2>0 DEF IInv, SemInv, Holds
  <2>2. /\ scount' = [scount EXCEPT ![s] = scount[s] + 1]
        /\ squeue' = [squeue EXCEPT ![s] = getitem(q, p)]
        /\ scount'[s] = scount[s] + 1 /\ squeue'[s] = getitem(q, p)
        /\ q \in Seq(Queued) /\ scount[s] \in Int
    BY <1>2, <2>0, <2>1, SemTypes
  <2>3. Counted(s) /\ (q = <<>> \/ sstate[s])
    BY <1>0, <2>1, QuietCounts
  <2>4. Len(q) \in Nat /\ Len(q) # 0 /\ Len(squeue'[s]) = Len(q) - 1
    <3>1. q # <<>>
      BY <2>1 DEF Members
    <3> QED BY <2>1, <2>2, <3>1, QueueLengths
  <2>5. Counted(s)'
    BY <2>2, <2>3, <2>4 DEF Counted
  <2>6. sstate[s] /\ sstate'[s]
    BY <1>0, <2>2, <2>3, <2>4, QueueLengths
  <2>7. Agrees(s)'
    BY <2>5, <2>6 DEF Agrees
  <2>8. loop'.op # "semreset"
    BY <1>0 DEF NoLoop
  <2>9. \A t \in Sems : (Resetting(t)' <=> Resetting(t)) /\ (Deleting(t)' <=> Deleting(t))
    BY <1>0 DEF Resetting, Deleting
  <2> HIDE DEF q
  <2> QED BY <1>0, <2>1, <2>2, <2>7, <2>8, <2>9, OneCount, SemTypes
<1> QED BY <1>1, <1>2 DEF kill, xdone, remove, semVars

\* wait() takes one from the count and, if it is negative then, queues the
\* caller.
LEMMA WaitCounts ==
  ASSUME IInv, CountInv, NEW s \in Sems, wait(s)
  PROVE  CountInv'
<1> DEFINE q == IF scount[s] - 1 < 0 THEN enqueue(squeue[s], currpid) ELSE squeue[s]
<1>0. /\ loop = NoLoop /\ loop' = loop /\ sstate' = sstate /\ sstate[s]
      /\ currpid \in Pids
  BY DEF wait, ctlVars, Calling, InUser
<1>1. squeue[s] \in Seq(Queued) /\ scount[s] \in Int
  BY SemTypes
<1>2. squeue' = [squeue EXCEPT ![s] = q] /\ scount' = [scount EXCEPT ![s] = scount[s] - 1]
  BY <1>1, SemTypes DEF wait
<1>3. squeue'[s] = q /\ scount'[s] = scount[s] - 1
  BY <1>2, SemTypes
<1>4. Counted(s)
  BY <1>0, QuietCounts
<1>5. Len(squeue[s]) \in Nat /\ Len(enqueue(squeue[s], currpid)) = Len(squeue[s]) + 1
  BY <1>0, <1>1, QueueLengths
<1>6. Counted(s)'
  BY <1>1, <1>3, <1>4, <1>5 DEF Counted
<1>7. Agrees(s)'
  BY <1>0, <1>6 DEF Agrees
<1>8. loop'.op # "semreset"
  BY <1>0 DEF NoLoop
<1>9. \A t \in Sems : (Resetting(t)' <=> Resetting(t)) /\ (Deleting(t)' <=> Deleting(t))
  BY <1>0 DEF Resetting, Deleting
<1> HIDE DEF q
<1> QED BY <1>0, <1>2, <1>7, <1>8, <1>9, OneCount, SemTypes

\* semcreate() and semreset() refuse a negative count.
LEMMA CountsNatural == Counts \subseteq Nat
BY InputAssumption

\* A new semaphore takes over an empty queue, because semdelete() has emptied
\* the one of the semaphore before.
LEMMA SemcreateCounts ==
  ASSUME IInv, CountInv, NEW count \in Counts, semcreate(count)
  PROVE  CountInv'
<1>0. loop = NoLoop /\ loop' = loop /\ squeue' = squeue
  BY DEF semcreate, ctlVars, Calling, InUser
<1>1. PICK s \in Sems : s = newsem /\ ~sstate[s]
  <2>1. newsem \in FreeSems
    BY NewsemFree DEF semcreate, IInv, TableInv, Sems
  <2> QED BY <2>1 DEF FreeSems
<1>2. /\ sstate' = [sstate EXCEPT ![s] = TRUE]
      /\ scount' = [scount EXCEPT ![s] = count]
      /\ squeue' = [squeue EXCEPT ![s] = squeue[s]]
      /\ scount'[s] = count /\ sstate'[s]
  BY <1>0, <1>1, SemTypes DEF semcreate
<1>3. squeue[s] = <<>> /\ Len(squeue[s]) = 0
  <2>1. squeue[s] = <<>>
    BY <1>0, <1>1, QuietCounts
  <2> QED BY <2>1
<1>4. count \in Nat
  BY CountsNatural
<1>5. Agrees(s)'
  BY <1>0, <1>2, <1>3, <1>4 DEF Agrees, Counted
<1>6. loop'.op # "semreset"
  BY <1>0 DEF NoLoop
<1>7. \A t \in Sems : (Resetting(t)' <=> Resetting(t)) /\ (Deleting(t)' <=> Deleting(t))
  BY <1>0 DEF Resetting, Deleting
<1>8. \A t \in Sems \ {s} : sstate'[t] = sstate[t]
  BY <1>2, SemTypes
<1> QED BY <1>2, <1>5, <1>6, <1>7, <1>8, OneCount, SemTypes

\* A semaphore that is counted up while its count and queue agree, and the loop
\* does not become one that sets a count.
LEMMA CountupKeeps ==
  ASSUME IInv, CountInv, NEW s \in Sems, Counted(s), countup(s), sstate' = sstate,
         \/ loop' = loop
         \/ loop.op \in NotCounting /\ loop'.op \in NotCounting
  PROVE  CountInv'
<1>1. PICK q : squeue' = [squeue EXCEPT ![s] = q]
  BY CountupCounts
<1>2. /\ scount' = [scount EXCEPT ![s] = scount[s] + 1]
      /\ Counted(s)' /\ (squeue[s] = <<>> => squeue'[s] = <<>>)
  BY CountupCounts
<1>3. \A t \in Sems : (Resetting(t) => Resetting(t)') /\ (Deleting(t) => Deleting(t)')
  BY DEF Resetting, Deleting, NotCounting
<1>4. loop'.op = "semreset" => loop'.n \in Nat
  BY DEF CountInv, NotCounting
<1>5. squeue[s] = <<>> \/ sstate[s] \/ Deleting(s)
  BY DEF CountInv, Agrees
<1>6. Agrees(s)'
  BY <1>2, <1>3, <1>5 DEF Agrees
<1> QED BY <1>1, <1>2, <1>3, <1>4, <1>6, OneCount, SemTypes

\* The calls on semaphores.
LEMMA SemaphoreCallsCounts ==
  ASSUME IInv, CountInv, SemaphoreCalls
  PROVE  CountInv'
<1>1. ASSUME NEW count \in Counts, semcreate(count) PROVE CountInv'
  BY <1>1, SemcreateCounts
<1>2. ASSUME NEW s \in Sems, wait(s) PROVE CountInv'
  BY <1>2, WaitCounts
<1>3. ASSUME NEW s \in Sems, signal(s) PROVE CountInv'
  <2>1. loop = NoLoop /\ loop' = loop /\ sstate' = sstate /\ countup(s)
    BY <1>3 DEF signal, ctlVars, Calling, InUser
  <2> QED BY <2>1, QuietCounts, CountupKeeps
<1>4. ASSUME NEW s \in Sems, NEW count, signaln(s, count) PROVE CountInv'
  <2>1. /\ UNCHANGED <<scount, squeue, sstate>>
        /\ loop.op \in NotCounting /\ loop'.op \in NotCounting
    BY <1>4 DEF signaln, startloop, Calling, InUser, NoLoop, NotCounting
  <2> QED BY <2>1, CountsKept
<1>5. ASSUME NEW s \in Sems, NEW count \in Counts, semreset(s, count) PROVE CountInv'
  <2>1. loop = NoLoop /\ sstate[s] /\ UNCHANGED <<scount, squeue, sstate>>
    BY <1>5 DEF semreset, startloop, Calling, InUser
  <2>2. /\ squeue' = [squeue EXCEPT ![s] = squeue[s]]
        /\ scount' = [scount EXCEPT ![s] = scount[s]]
    BY <2>1, SemTypes
  <2>3. \A t \in Sems : Counted(t) /\ ~Resetting(t) /\ ~Deleting(t)
    BY <2>1, QuietCounts
  <2>4. loop'.op = "semreset" => loop'.n \in Nat
    BY <1>5, CountsNatural DEF semreset, startloop
  <2>5. Agrees(s)'
    <3>1. Resetting(s)' /\ sstate'[s]
      BY <1>5, <2>1 DEF semreset, startloop, Resetting
    <3> QED BY <3>1 DEF Agrees
  <2> QED BY <2>1, <2>2, <2>3, <2>4, <2>5, OneCount, SemTypes
<1>6. ASSUME NEW s \in Sems, semdelete(s) PROVE CountInv'
  <2>1. /\ loop = NoLoop /\ UNCHANGED <<scount, squeue>>
        /\ \A t \in Sems \ {s} : sstate'[t] = sstate[t]
        /\ loop'.op # "semreset"
    BY <1>6, SemTypes DEF semdelete, startloop, Calling, InUser
  <2>2. /\ squeue' = [squeue EXCEPT ![s] = squeue[s]]
        /\ scount' = [scount EXCEPT ![s] = scount[s]]
    BY <2>1, SemTypes
  <2>3. \A t \in Sems : Counted(t) /\ ~Resetting(t) /\ ~Deleting(t)
    BY <2>1, QuietCounts
  <2>4. Agrees(s)'
    <3>1. Deleting(s)' /\ Counted(s)'
      BY <1>6, <2>1, <2>3 DEF semdelete, startloop, Deleting, Counted
    <3> QED BY <3>1 DEF Agrees
  <2> QED BY <2>1, <2>2, <2>3, <2>4, OneCount, SemTypes
<1> QED BY <1>1, <1>2, <1>3, <1>4, <1>5, <1>6 DEF SemaphoreCalls

\* signaln() counts up as often as it is told, like so many calls of signal().
LEMMA SignalnloopCounts ==
  ASSUME IInv, CountInv, signalnloop
  PROVE  CountInv'
<1>0. loop.op = "signaln" /\ sstate' = sstate
  BY DEF signalnloop
<1>1. CASE countup(loop.sem) /\ loop' = [loop EXCEPT !.n = @ - 1]
  <2>1. PICK s \in Sems : s = loop.sem
    BY SemTypes
  <2>2. Counted(s)
    BY <1>0 DEF CountInv, Agrees, Resetting
  <2>3. loop.op \in NotCounting /\ loop'.op \in NotCounting
    BY <1>0, <1>1 DEF NotCounting, IInv, LoopInv
  <2> QED BY <1>0, <1>1, <2>1, <2>2, <2>3, CountupKeeps
<1>2. CASE endloop /\ UNCHANGED <<scount, squeue>>
  <2>1. loop.op \in NotCounting /\ loop'.op \in NotCounting
    BY <1>0, <1>2 DEF endloop, NoLoop, NotCounting
  <2> QED BY <1>0, <1>2, <2>1, CountsKept
<1> QED BY <1>1, <1>2 DEF signalnloop

\* The loop of semdelete() ends when the count has reached 0, with nobody left
\* on the queue, and leaves the count at 1 or more.
LEMMA SemdeleteloopCounts ==
  ASSUME IInv, CountInv, semdeleteloop
  PROVE  CountInv'
<1>0. loop.op = "semdelete" /\ sstate' = sstate
  BY DEF semdeleteloop
<1>1. PICK s \in Sems : s = loop.sem
  BY SemTypes
<1>2. \A t \in Sems : Counted(t) /\ ~Resetting(t)
  BY <1>0 DEF CountInv, Agrees, Resetting
<1>3. CASE scount[s] < 0 /\ release(s) /\ UNCHANGED loop
  <2>1. countup(s)
    BY <1>1, <1>3 DEF semdeleteloop, countup
  <2> QED BY <1>0, <1>2, <1>3, <2>1, CountupKeeps
<1>4. CASE scount[s] >= 0 /\ endloop /\ UNCHANGED squeue
  <2>1. scount' = [scount EXCEPT ![s] = scount[s] + 1] /\ scount'[s] = scount[s] + 1
    BY <1>1, SemTypes DEF semdeleteloop
  <2>2. squeue' = [squeue EXCEPT ![s] = squeue[s]]
    BY <1>4, SemTypes
  <2>3. squeue[s] \in Seq(Queued) /\ scount[s] \in Int
    BY SemTypes
  <2>4. Len(squeue[s]) = 0 /\ squeue[s] = <<>>
    BY <1>2, <1>4, <2>3, QueueLengths DEF Counted
  <2>5. Agrees(s)'
    BY <1>4, <2>1, <2>3, <2>4 DEF Agrees, Counted
  <2>6. loop' = NoLoop /\ loop'.op # "semreset"
    BY <1>4 DEF endloop, NoLoop
  <2>7. \A t \in Sems \ {s} : ~Deleting(t)
    BY <1>1 DEF Deleting
  <2> QED BY <1>0, <1>2, <2>1, <2>2, <2>5, <2>6, <2>7, OneCount, SemTypes
<1> QED BY <1>1, <1>3, <1>4 DEF semdeleteloop

\* semreset() empties the queue before it sets the count.
LEMMA SemresetloopCounts ==
  ASSUME IInv, CountInv, semresetloop
  PROVE  CountInv'
<1>0. loop.op = "semreset" /\ loop.n \in Nat /\ sstate' = sstate
  BY DEF semresetloop, CountInv
<1>1. PICK s \in Sems : s = loop.sem
  BY SemTypes
<1>2. \A t \in Sems : ~Deleting(t)
  BY <1>0 DEF Deleting
<1>3. \A t \in Sems \ {s} : ~Resetting(t)
  BY <1>1 DEF Resetting
<1>4. squeue[s] = <<>> \/ sstate[s]
  BY <1>2 DEF CountInv, Agrees
<1>5. CASE squeue[s] # <<>> /\ release(s) /\ UNCHANGED <<scount, loop>>
  <2>1. /\ squeue' = [squeue EXCEPT ![s] = rest(squeue[s])]
        /\ scount' = [scount EXCEPT ![s] = scount[s]]
    BY <1>5, SemTypes DEF release
  <2>2. Resetting(s)'
    BY <1>0, <1>1, <1>5 DEF Resetting
  <2>3. sstate'[s]
    BY <1>0, <1>4, <1>5
  <2>4. Agrees(s)'
    BY <2>2, <2>3 DEF Agrees
  <2>5. loop'.op = "semreset" => loop'.n \in Nat
    BY <1>0, <1>5
  <2> QED BY <1>0, <1>2, <1>3, <2>1, <2>4, <2>5, OneCount, SemTypes
<1>6. CASE squeue[s] = <<>> /\ scount' = [scount EXCEPT ![s] = loop.n] /\ endloop /\ UNCHANGED squeue
  <2>1. squeue' = [squeue EXCEPT ![s] = squeue[s]] /\ scount'[s] = loop.n
    BY <1>6, SemTypes
  <2>2. Len(squeue[s]) = 0
    BY <1>6
  <2>3. Agrees(s)'
    BY <1>0, <1>6, <2>1, <2>2 DEF Agrees, Counted
  <2>4. loop'.op # "semreset"
    BY <1>6 DEF endloop, NoLoop
  <2> QED BY <1>0, <1>2, <1>3, <1>6, <2>1, <2>3, <2>4, OneCount, SemTypes
<1> QED BY <1>1, <1>5, <1>6 DEF semresetloop

\* Every step keeps counts and queues of the semaphores in agreement.
LEMMA NextCountInv == IInv /\ CountInv /\ [Next]_vars => CountInv'
<1> SUFFICES ASSUME IInv, CountInv, [Next]_vars PROVE CountInv'
  OBVIOUS
<1>1. CASE ProcessCalls
  <2>1. ASSUME NEW p \in Pids, kill(p) PROVE CountInv'
    BY <2>1, KillWaits
  <2>2. CASE UNCHANGED <<scount, squeue, sstate, loop>>
    BY <2>2, CountsKept
  <2> QED BY <1>1, <2>1, <2>2
       DEF ProcessCalls, create, nulluser, usercreate, rcreate, NewProc, createfail,
           suspend, resume, chprio, yield, semVars, ctlVars
<1>2. CASE BlockingCalls
  <2>1. UNCHANGED <<scount, squeue, sstate, loop>>
    BY <1>2 DEF BlockingCalls, sleepms, yield, recvtime, receive, semVars, ctlVars
  <2> QED BY <2>1, CountsKept
<1>3. CASE SemaphoreCalls
  BY <1>3, SemaphoreCallsCounts
<1>4. CASE wakeup \/ Clock \/ clkreturn
  <2>1. UNCHANGED <<scount, squeue, sstate>>
    BY <1>4 DEF wakeup, Clock, clkhandler, clkwakeup, clkreturn, semVars
  <2>2. loop' = loop \/ (loop.op \in NotCounting /\ loop'.op \in NotCounting)
    BY <1>4 DEF wakeup, Clock, clkhandler, clkwakeup, clkreturn, InUser, NoLoop,
                NotCounting, ctlVars
  <2> QED BY <2>1, <2>2, CountsKept
<1>5. CASE signalnloop \/ semdeleteloop \/ semresetloop
  BY <1>5, SignalnloopCounts, SemdeleteloopCounts, SemresetloopCounts
<1>6. CASE halt \/ UNCHANGED vars
  <2>1. UNCHANGED <<scount, squeue, sstate, loop>>
    BY <1>6 DEF halt, vars, semVars, ctlVars
  <2> QED BY <2>1, CountsKept
<1> QED BY <1>1, <1>2, <1>3, <1>4, <1>5, <1>6 DEF Next, KernelLoops

\* A negative count is the number of waiting processes, and only semaphores in
\* use have any, for any number of semaphores and processes and any counts
\* (signal.c:26, kill.c:74, semdelete.c:30, semreset.c:31).
THEOREM SemCorrect == Spec => []SemConsistent
<1>1. Init => CountInv
  BY DEF Init, CountInv, Agrees, Counted, NoLoop
<1> QED BY <1>1, IInvCorrect, NextCountInv, CountInvSemConsistent, PTL DEF Spec

-----------------------------------------------------------------------------
(***************************************************************************)
(* Kernel implements Semaphores: every step of Kernel is a call of         *)
(* Semaphores on the table that KernelSemaphores maps the kernel's state to, *)
(* or leaves that table alone.                                             *)
(*                                                                         *)
(* The mapping hides the loops: a semaphore that is being reset has its    *)
(* new count and no queue already.  For it to hide the loop of semdelete() *)
(* the entry must stay unused while its processes are released, which is   *)
(* what DeletedUnused says; that a signal releases somebody exactly if     *)
(* somebody waits is CountInv.                                             *)
(***************************************************************************)

\* An entry that semdelete() is emptying is not in use.
DeletedUnused == loop.op = "semdelete" => ~sstate[loop.sem]

\* An entry in use.
Used(c, q) == [used |-> TRUE, count |-> c, queue |-> q]

RefInv == IInv /\ CountInv /\ DeletedUnused

-----------------------------------------------------------------------------
(* The processes on a queue                                                *)

LEMMA PidsEmpty == pidsof(<<>>) = <<>>
BY DEF pidsof

LEMMA PidsSeq ==
  ASSUME NEW q \in Seq(Queued)
  PROVE  /\ pidsof(q) \in Seq(Pids) /\ Len(pidsof(q)) = Len(q) /\ Len(q) \in Nat
         /\ \A i \in 1..Len(q) : pidsof(q)[i] = q[i].pid /\ q[i].pid \in Pids
         /\ Range(pidsof(q)) = Members(q)
<1>1. Len(q) \in Nat /\ DOMAIN q = 1..Len(q) /\ \A i \in 1..Len(q) : q[i] \in Queued
  BY LenProperties, ElementOfSeq
<1>2. \A i \in 1..Len(q) : q[i].pid \in Pids
  BY <1>1 DEF Queued
<1>3. pidsof(q) = [i \in 1..Len(q) |-> q[i].pid]
  BY <1>1 DEF pidsof
<1>4. pidsof(q) \in [1..Len(q) -> Pids]
  BY <1>2, <1>3
<1>5. pidsof(q) \in Seq(Pids) /\ Len(pidsof(q)) = Len(q)
  BY <1>1, <1>4, SeqDef, LenProperties
<1>6. Range(pidsof(q)) = Members(q)
  BY <1>3 DEF Range, Members
<1> QED BY <1>1, <1>2, <1>3, <1>5, <1>6

\* enqueue() is Append on the processes.
LEMMA PidsEnqueue ==
  ASSUME NEW q \in Seq(Queued), NEW p \in Pids
  PROVE  pidsof(enqueue(q, p)) = Append(pidsof(q), p)
<1> DEFINE e == Entry(p, 0)
           r == Append(q, e)
           t == Append(pidsof(q), p)
<1>1. e \in Queued /\ e.pid = p
  BY DEF Entry, Queued
<1> HIDE DEF e
<1>2. /\ r \in Seq(Queued) /\ Len(r) = Len(q) + 1
      /\ \A i \in 1..Len(q) : r[i] = q[i]
      /\ r[Len(q) + 1] = e
  BY <1>1, AppendProperties
<1>3. /\ t \in Seq(Pids) /\ Len(t) = Len(q) + 1
      /\ \A i \in 1..Len(q) : t[i] = pidsof(q)[i]
      /\ t[Len(q) + 1] = p
  BY PidsSeq, AppendProperties
<1> HIDE DEF r, t
<1>4. pidsof(r) \in Seq(Pids) /\ Len(pidsof(r)) = Len(r) /\ \A i \in 1..Len(r) : pidsof(r)[i] = r[i].pid
  BY <1>2, PidsSeq
<1>5. \A i \in 1..Len(t) : pidsof(r)[i] = t[i]
  <2> SUFFICES ASSUME NEW i \in 1..Len(t) PROVE pidsof(r)[i] = t[i]
    OBVIOUS
  <2>1. Len(q) \in Nat
    BY PidsSeq
  <2>2. CASE i \in 1..Len(q)
    BY <1>2, <1>3, <1>4, <2>1, <2>2, PidsSeq
  <2>3. CASE i = Len(q) + 1
    BY <1>1, <1>2, <1>3, <1>4, <2>1, <2>3
  <2> QED BY <1>3, <2>1, <2>2, <2>3
<1>6. pidsof(r) = t
  BY <1>2, <1>3, <1>4, <1>5, SeqEqual
<1> QED BY <1>6 DEF enqueue, r, t, e

\* dequeue() is Tail on the processes.
LEMMA PidsRest ==
  ASSUME NEW q \in Seq(Queued), q # <<>>
  PROVE  pidsof(rest(q)) = Tail(pidsof(q))
<1> DEFINE r == Tail(q)
           t == Tail(pidsof(q))
<1>0. Len(q) \in Nat /\ Len(q) # 0 /\ pidsof(q) # <<>>
  BY PidsSeq, EmptySeq, LenProperties
<1>1. r \in Seq(Queued) /\ Len(r) = Len(q) - 1 /\ \A i \in 1..Len(r) : r[i] = q[i + 1]
  BY HeadTailProperties
<1>2. t \in Seq(Pids) /\ Len(t) = Len(q) - 1 /\ \A i \in 1..Len(t) : t[i] = pidsof(q)[i + 1]
  BY <1>0, PidsSeq, HeadTailProperties
<1> HIDE DEF r, t
<1>3. pidsof(r) \in Seq(Pids) /\ Len(pidsof(r)) = Len(r) /\ \A i \in 1..Len(r) : pidsof(r)[i] = r[i].pid
  BY <1>1, PidsSeq
<1>4. \A i \in 1..Len(t) : pidsof(r)[i] = t[i]
  <2> SUFFICES ASSUME NEW i \in 1..Len(t) PROVE pidsof(r)[i] = t[i]
    OBVIOUS
  <2>1. i \in 1..Len(r) /\ i + 1 \in 1..Len(q)
    BY <1>0, <1>1, <1>2
  <2> QED BY <1>1, <1>2, <1>3, <2>1, PidsSeq
<1>5. pidsof(r) = t
  BY <1>1, <1>2, <1>3, <1>4, SeqEqual
<1> QED BY <1>5 DEF rest, r, t

\* getitem() takes the process out of the sequence.
LEMMA PidsGetitem ==
  ASSUME NEW q \in Seq(Queued), NoDuplicates(q), NEW p \in Members(q)
  PROVE  pidsof(getitem(q, p)) = Abstract!without(pidsof(q), p)
<1> DEFINE k == Position(q, p)
           m == CHOOSE i \in 1..Len(pidsof(q)) : pidsof(q)[i] = p
           r == RemoveAt(q, k)
           t == RemoveAt(pidsof(q), m)
<1>0. Len(q) \in Nat /\ Len(pidsof(q)) = Len(q) /\ \A i \in 1..Len(q) : pidsof(q)[i] = q[i].pid
  BY PidsSeq
<1>1. PICK n \in 1..Len(q) : q[n].pid = p
  BY DEF Members
<1>2. k \in 1..Len(q) /\ q[k].pid = p
  BY <1>1 DEF Position
<1>3. m \in 1..Len(q) /\ q[m].pid = p
  <2>1. \E i \in 1..Len(pidsof(q)) : pidsof(q)[i] = p
    BY <1>0, <1>1
  <2>2. m \in 1..Len(pidsof(q)) /\ pidsof(q)[m] = p
    BY <2>1
  <2> QED BY <1>0, <2>2
<1> HIDE DEF k, m
<1>4. k = m
  BY <1>2, <1>3 DEF NoDuplicates
<1>5. /\ r \in Seq(Queued) /\ Len(r) = Len(q) - 1
      /\ \A i \in 1..(Len(q) - 1) : r[i] = IF i < k THEN q[i] ELSE q[i + 1]
  BY <1>2, RemoveAtProperties
<1>6. /\ t \in Seq(Pids) /\ Len(t) = Len(q) - 1
      /\ \A i \in 1..(Len(q) - 1) : t[i] = IF i < k THEN pidsof(q)[i] ELSE pidsof(q)[i + 1]
  <2>1. pidsof(q) \in Seq(Pids) /\ k \in 1..Len(pidsof(q))
    BY <1>0, <1>2, PidsSeq
  <2> QED BY <1>0, <1>4, <2>1, RemoveAtProperties
<1> HIDE DEF r, t
<1>7. pidsof(r) \in Seq(Pids) /\ Len(pidsof(r)) = Len(r) /\ \A i \in 1..Len(r) : pidsof(r)[i] = r[i].pid
  BY <1>5, PidsSeq
<1>8. \A i \in 1..Len(t) : pidsof(r)[i] = t[i]
  <2> SUFFICES ASSUME NEW i \in 1..Len(t) PROVE pidsof(r)[i] = t[i]
    OBVIOUS
  <2>1. i \in 1..(Len(q) - 1) /\ i \in 1..Len(q) /\ i + 1 \in 1..Len(q)
    BY <1>0, <1>6
  <2> QED BY <1>0, <1>5, <1>6, <1>7, <2>1
<1>9. pidsof(r) = t
  BY <1>5, <1>6, <1>7, <1>8, SeqEqual
<1>10. t = Abstract!without(pidsof(q), p)
  BY DEF Abstract!without, Abstract!RemoveAt, RemoveAt, t, m
<1> QED BY <1>9, <1>10 DEF getitem, r, k

-----------------------------------------------------------------------------
(* The abstract table                                                      *)

\* One entry of the table changes.
LEMMA OneEntry ==
  ASSUME NEW s \in Sems, NEW r, AbstractSem(s)' = r,
         \A t \in Sems \ {s} : AbstractSem(t)' = AbstractSem(t)
  PROVE  table' = [table EXCEPT ![s] = r]
BY DEF table

\* No entry changes.
LEMMA SameTable ==
  ASSUME \A t \in Sems : AbstractSem(t)' = AbstractSem(t)
  PROVE  table' = table
BY DEF table

\* An entry that the step leaves as it is, together with the loop over it.
LEMMA SameEntry ==
  ASSUME NEW t \in Sems, sstate'[t] = sstate[t],
         sstate[t] => scount'[t] = scount[t] /\ squeue'[t] = squeue[t],
         Resetting(t)' <=> Resetting(t), Resetting(t) => loop'.n = loop.n
  PROVE  AbstractSem(t)' = AbstractSem(t)
BY DEF AbstractSem

\* A step that changes the entry of semaphore s only.
LEMMA OtherEntries ==
  ASSUME IInv, NEW s \in Sems,
         \A t \in Sems \ {s} : ~Resetting(t) /\ ~Resetting(t)',
         \/ UNCHANGED sstate
         \/ \E b : sstate' = [sstate EXCEPT ![s] = b],
         \/ UNCHANGED scount
         \/ \E n : scount' = [scount EXCEPT ![s] = n],
         \/ UNCHANGED squeue
         \/ \E q : squeue' = [squeue EXCEPT ![s] = q]
  PROVE  \A t \in Sems \ {s} : AbstractSem(t)' = AbstractSem(t)
<1> SUFFICES ASSUME NEW t \in Sems \ {s} PROVE AbstractSem(t)' = AbstractSem(t)
  OBVIOUS
<1>1. sstate'[t] = sstate[t]
  BY SemTypes
<1>2. scount'[t] = scount[t]
  BY SemTypes
<1>3. squeue'[t] = squeue[t]
  BY SemTypes
<1>4. ~Resetting(t) /\ ~Resetting(t)'
  OBVIOUS
<1> QED BY <1>1, <1>2, <1>3, <1>4, SameEntry

\* A step that leaves the semaphores and the loops over them alone.
LEMMA QuietTable ==
  ASSUME UNCHANGED <<sstate, scount, squeue>>,
         loop' = loop \/ (loop.op # "semreset" /\ loop'.op # "semreset")
  PROVE  table' = table
BY SameEntry, SameTable DEF Resetting

\* The fields of an entry in use.
LEMMA UsedFields ==
  ASSUME NEW e, NEW c, NEW w, e = Used(c, w)
  PROVE  /\ e.used /\ e.count = c /\ e.queue = w
         /\ \A n, v : Abstract!changed(e, n, v) = Used(n, v)
<1>1. e.used /\ e.count = c /\ e.queue = w
  BY DEF Used
<1>2. e.used = TRUE
  BY DEF Used
<1>3. \A n, v : Abstract!changed(e, n, v) = Used(n, v)
  BY <1>2 DEF Abstract!changed, Used
<1> QED BY <1>1, <1>3

\* The kernel's calls and those of Semaphores speak of the same entries.
LEMMA SameSems == Abstract!SemIds = Sems
BY DEF Abstract!SemIds, Sems

\* What a semaphore in use looks like outside of the loops.
LEMMA UsedEntry ==
  ASSUME IInv, NEW s \in Sems, sstate[s], ~Resetting(s)
  PROVE  /\ table[s] = Used(scount[s], pidsof(squeue[s]))
         /\ Abstract!isused(table, s)
         /\ squeue[s] \in Seq(Queued) /\ scount[s] \in Int
         /\ squeue[s] = <<>> <=> Len(squeue[s]) = 0
<1>1. AbstractSem(s) = [used |-> TRUE, count |-> scount[s], queue |-> pidsof(squeue[s])]
  BY DEF AbstractSem
<1>2. table[s] = Used(scount[s], pidsof(squeue[s]))
  BY <1>1 DEF table, Used
<1>3. Abstract!isused(table, s)
  BY <1>2, UsedFields, SameSems DEF Abstract!isused
<1>4. squeue[s] \in Seq(Queued) /\ scount[s] \in Int
  BY SemTypes
<1>5. squeue[s] = <<>> <=> Len(squeue[s]) = 0
  BY <1>4, QueueLengths
<1> QED BY <1>2, <1>3, <1>4, <1>5

\* One that the step leaves in use.
LEMMA UsedEntryAfter ==
  ASSUME NEW s \in Sems, sstate'[s], ~Resetting(s)'
  PROVE  AbstractSem(s)' = Used(scount'[s], pidsof(squeue'[s]))
<1>1. AbstractSem(s)' = [used |-> TRUE, count |-> scount'[s], queue |-> pidsof(squeue'[s])]
  BY DEF AbstractSem
<1>2. [used |-> TRUE, count |-> scount'[s], queue |-> pidsof(squeue'[s])] =
        Used(scount'[s], pidsof(squeue'[s]))
  BY DEF Used
<1> QED BY <1>1, <1>2

\* The table is a function on the semaphores.
LEMMA TableFunction == table = [t \in Sems |-> table[t]]
BY DEF table

\* What the calls of Semaphores make of an entry in use.
LEMMA SignalUsed ==
  ASSUME NEW s \in Sems, NEW c, NEW w, table[s] = Used(c, w)
  PROVE  Abstract!signal(table, s) =
           [table EXCEPT ![s] = Used(c + 1, IF c < 0 THEN Tail(w) ELSE w)]
<1> DEFINE e == table[s]
           v == IF e.count < 0 THEN Tail(e.queue) ELSE e.queue
<1>1. e.used /\ e.count = c /\ e.queue = w
  BY UsedFields
<1>2. Abstract!signal(table, s) = [table EXCEPT ![s] = Abstract!changed(e, e.count + 1, v)]
  BY <1>1, SameSems DEF Abstract!signal, Abstract!isused
<1>3. Abstract!changed(e, e.count + 1, v) = Used(c + 1, v)
  BY <1>1, UsedFields
<1> HIDE DEF e
<1>4. v = IF c < 0 THEN Tail(w) ELSE w
  BY <1>1
<1> QED BY <1>2, <1>3, <1>4

LEMMA ResetUsed ==
  ASSUME NEW s \in Sems, NEW c, NEW w, NEW n, table[s] = Used(c, w)
  PROVE  Abstract!semreset(table, s, n) = [table EXCEPT ![s] = Used(n, <<>>)]
<1>1. Abstract!isused(table, s)
  BY SameSems, UsedFields DEF Abstract!isused
<1>2. Abstract!changed(table[s], n, <<>>) = Used(n, <<>>)
  BY UsedFields
<1> QED BY <1>1, <1>2 DEF Abstract!semreset

\* Outside of the loops the queues of the table hold the processes that wait.
LEMMA TableQueues ==
  ASSUME RefInv, loop = NoLoop, NEW t \in Sems, NEW p \in Pids
  PROVE  p \in Abstract!Range(table[t].queue) <=> prstate[p] = PR_WAIT /\ prsem[p] = t
<1>0. IInv /\ ~Resetting(t)
  BY DEF RefInv, Resetting, NoLoop
<1>1. p \in Members(squeue[t]) <=> prstate[p] = PR_WAIT /\ prsem[p] = t
  BY <1>0 DEF IInv, SemInv, Holds
<1>2. CASE ~sstate[t]
  <2>1. squeue[t] = <<>>
    BY <1>2, QuietCounts DEF RefInv
  <2>2. table[t].queue = <<>>
    BY <1>2 DEF table, AbstractSem
  <2>3. Members(squeue[t]) = {} /\ Abstract!Range(table[t].queue) = {}
    BY <2>1, <2>2 DEF Members, Abstract!Range
  <2> QED BY <1>1, <2>3
<1>3. CASE sstate[t]
  <2>0. /\ table[t] = Used(scount[t], pidsof(squeue[t]))
        /\ squeue[t] \in Seq(Queued)
    BY <1>0, <1>3, UsedEntry
  <2>1. table[t].queue = pidsof(squeue[t]) /\ squeue[t] \in Seq(Queued)
    BY <2>0, UsedFields
  <2>2. Abstract!Range(table[t].queue) = Members(squeue[t])
    BY <2>1, PidsSeq DEF Abstract!Range, Range
  <2> QED BY <1>1, <2>2
<1> QED BY <1>2, <1>3

-----------------------------------------------------------------------------
(* The calls                                                               *)

\* signal() and each iteration of the loops that do the same.
LEMMA CountupTable ==
  ASSUME RefInv, NEW s \in Sems, UNCHANGED sstate, countup(s),
         loop.op # "semreset", loop'.op # "semreset"
  PROVE  [Abstract!SemNext]_table
<1>0. /\ ~Resetting(s) /\ ~Resetting(s)' /\ IInv
      /\ \A t \in Sems : ~Resetting(t) /\ ~Resetting(t)'
  BY DEF Resetting, RefInv
<1>1. /\ scount' = [scount EXCEPT ![s] = @ + 1]
      /\ squeue' = squeue \/ squeue' = [squeue EXCEPT ![s] = rest(@)]
  BY DEF countup, release
<1>2. \A t \in Sems \ {s} : AbstractSem(t)' = AbstractSem(t)
  BY <1>0, <1>1, OtherEntries
<1>3. CASE ~sstate[s]
  <2>1. AbstractSem(s)' = AbstractSem(s)
    BY <1>3 DEF AbstractSem
  <2> QED BY <1>2, <2>1, SameTable
<1>4. CASE sstate[s]
  <2> DEFINE q == squeue[s]
             c == scount[s]
             r == IF c < 0 THEN Tail(pidsof(q)) ELSE pidsof(q)
  <2>1. /\ table[s] = Used(c, pidsof(q))
        /\ Abstract!isused(table, s) /\ q \in Seq(Queued) /\ c \in Int
        /\ q = <<>> <=> Len(q) = 0
    BY <1>0, <1>4, UsedEntry
  <2>2. Counted(s)
    BY <1>0 DEF RefInv, CountInv, Agrees
  <2>3. scount'[s] = c + 1
    BY <1>0, <1>1, SemTypes
  <2>4. pidsof(squeue'[s]) = r
    <3>1. CASE c < 0
      <4>1. q # <<>>
        BY <2>1, <2>2, <3>1 DEF Counted
      <4>2. squeue' = [squeue EXCEPT ![s] = rest(q)]
        BY <2>1, <3>1, <4>1 DEF countup, release
      <4>3. squeue'[s] = rest(q)
        BY <1>0, <4>2, SemTypes
      <4> QED BY <2>1, <3>1, <4>1, <4>3, PidsRest
    <3>2. CASE c >= 0
      BY <2>1, <3>2 DEF countup, schedVars
    <3> QED BY <2>1, <3>1, <3>2
  <2> HIDE DEF q, c, r
  <2>5. AbstractSem(s)' = Used(c + 1, r)
    BY <1>0, <1>4, <2>3, <2>4, UsedEntryAfter
  <2>6. table' = [table EXCEPT ![s] = Used(c + 1, r)]
    BY <1>2, <2>5, OneEntry
  <2>7. table' = Abstract!signal(table, s)
    BY <2>1, <2>6, SignalUsed DEF r
  <2> QED BY <2>1, <2>7, SameSems DEF Abstract!SemNext
<1> QED BY <1>3, <1>4

LEMMA WaitTable ==
  ASSUME RefInv, NEW s \in Sems, wait(s)
  PROVE  Abstract!SemNext
<1> DEFINE q == squeue[s]
           c == scount[s]
           r == IF c <= 0 THEN Append(pidsof(q), currpid) ELSE pidsof(q)
<1>0. IInv /\ loop = NoLoop /\ loop' = loop /\ sstate' = sstate /\ sstate[s] /\ currpid \in Pids
  BY DEF RefInv, wait, Calling, InUser, ctlVars
<1>1. \A t \in Sems : ~Resetting(t) /\ ~Resetting(t)'
  BY <1>0 DEF Resetting, NoLoop
<1>2. /\ table[s] = Used(c, pidsof(q))
      /\ Abstract!isused(table, s) /\ q \in Seq(Queued) /\ c \in Int
  BY <1>0, <1>1, UsedEntry
<1>3. /\ scount' = [scount EXCEPT ![s] = c - 1]
      /\ c <= 0 => squeue' = [squeue EXCEPT ![s] = enqueue(q, currpid)]
      /\ c > 0 => squeue' = squeue
  BY <1>2 DEF wait
<1>4. \A t \in Sems \ {s} : AbstractSem(t)' = AbstractSem(t)
  <2>1. squeue' = squeue \/ squeue' = [squeue EXCEPT ![s] = enqueue(q, currpid)]
    BY <1>2, <1>3
  <2> QED BY <1>0, <1>1, <1>3, <2>1, OtherEntries
<1>5. scount'[s] = c - 1 /\ pidsof(squeue'[s]) = r
  <2>1. c <= 0 => squeue'[s] = enqueue(q, currpid)
    BY <1>0, <1>3, SemTypes
  <2>2. c > 0 => squeue'[s] = q
    BY <1>3
  <2>3. pidsof(enqueue(q, currpid)) = Append(pidsof(q), currpid)
    BY <1>0, <1>2, PidsEnqueue
  <2>4. scount'[s] = c - 1
    BY <1>0, <1>3, SemTypes
  <2>5. c <= 0 \/ c > 0
    BY <1>2
  <2> HIDE DEF q, c
  <2> QED BY <2>1, <2>2, <2>3, <2>4, <2>5
<1>6. ~Abstract!Waiting(currpid)
  <2>1. prstate[currpid] # PR_WAIT
    BY <1>0, StateNames DEF IInv, SchedInv, Running
  <2> QED BY <1>0, <2>1, TableQueues, SameSems DEF Abstract!Waiting, Abstract!WaitsIn
<1> HIDE DEF q, c, r
<1>7. AbstractSem(s)' = Used(c - 1, r)
  BY <1>0, <1>1, <1>5, UsedEntryAfter
<1>8. table' = [table EXCEPT ![s] = Used(c - 1, r)]
  BY <1>4, <1>7, OneEntry
<1>9. table' = Abstract!wait(table, s, currpid)
  <2> DEFINE e == table[s]
             v == IF e.count <= 0 THEN Append(e.queue, currpid) ELSE e.queue
  <2>1. Abstract!wait(table, s, currpid) = [table EXCEPT ![s] = Abstract!changed(e, e.count - 1, v)]
    BY DEF Abstract!wait
  <2>2. e.count = c /\ e.queue = pidsof(q) /\ Abstract!changed(e, e.count - 1, v) = Used(c - 1, v)
    BY <1>2, UsedFields
  <2> HIDE DEF e
  <2>3. v = r
    BY <2>2 DEF r
  <2> HIDE DEF v
  <2> QED BY <1>8, <2>1, <2>2, <2>3
<1> QED BY <1>0, <1>2, <1>6, <1>9, SameSems DEF Abstract!SemNext

LEMMA SemcreateTable ==
  ASSUME RefInv, NEW count \in Counts, semcreate(count)
  PROVE  Abstract!SemNext
<1> DEFINE r == Used(count, <<>>)
<1>0. IInv /\ loop = NoLoop /\ loop' = loop /\ squeue' = squeue /\ count \in Nat
  BY CountsNatural DEF RefInv, semcreate, Calling, InUser, ctlVars
<1>1. \A t \in Sems : ~Resetting(t) /\ ~Resetting(t)'
  BY <1>0 DEF Resetting, NoLoop
<1>2. PICK s \in Sems : s = newsem /\ ~sstate[s]
  <2>1. nextsem \in Int /\ FreeSems # {}
    BY DEF RefInv, IInv, TableInv, Sems, semcreate
  <2> QED BY <2>1, NewsemFree DEF FreeSems
<1>3. sstate' = [sstate EXCEPT ![s] = TRUE] /\ scount' = [scount EXCEPT ![s] = count]
  BY <1>2 DEF semcreate
<1>4. squeue[s] = <<>>
  BY <1>0, <1>2, QuietCounts DEF RefInv
<1>5. \A t \in Sems \ {s} : AbstractSem(t)' = AbstractSem(t)
  BY <1>0, <1>1, <1>3, OtherEntries
<1>6. AbstractSem(s)' = r
  <2>1. sstate'[s] /\ scount'[s] = count /\ squeue'[s] = <<>>
    BY <1>0, <1>2, <1>3, <1>4, SemTypes
  <2> QED BY <1>1, <1>2, <2>1, UsedEntryAfter, PidsEmpty
<1> HIDE DEF r
<1>7. table' = [table EXCEPT ![s] = r]
  BY <1>2, <1>5, <1>6, OneEntry
<1>8. table'[s] = r
  BY <1>2, <1>6 DEF table
<1>9. table'[s].count = count /\ s # Abstract!SYSERR
  BY <1>2, <1>8, UsedFields DEF r, Abstract!SYSERR, Sems
<1>10. table' = Abstract!semcreate(table, s, table'[s].count)
  BY <1>7, <1>9 DEF Abstract!semcreate, r, Used
<1>11. ~Abstract!isused(table, s)
  BY <1>2 DEF Abstract!isused, table, AbstractSem
<1> QED BY <1>0, <1>2, <1>9, <1>10, <1>11, SameSems DEF Abstract!SemNext

LEMMA SemdeleteTable ==
  ASSUME RefInv, NEW s \in Sems, semdelete(s)
  PROVE  Abstract!SemNext
<1> DEFINE r == [used |-> FALSE, count |-> 0, queue |-> <<>>]
<1>0. /\ IInv /\ loop = NoLoop /\ sstate[s] /\ loop'.op = "semdelete"
      /\ UNCHANGED <<squeue, scount>> /\ sstate' = [sstate EXCEPT ![s] = FALSE]
  BY DEF RefInv, semdelete, startloop, Calling, InUser
<1>1. \A t \in Sems : ~Resetting(t) /\ ~Resetting(t)'
  BY <1>0 DEF Resetting, NoLoop
<1>2. \A t \in Sems \ {s} : AbstractSem(t)' = AbstractSem(t)
  BY <1>0, <1>1, OtherEntries
<1>3. AbstractSem(s)' = r
  BY <1>0, SemTypes DEF AbstractSem
<1> HIDE DEF r
<1>4. table' = [table EXCEPT ![s] = r]
  BY <1>2, <1>3, OneEntry
<1>5. table' = Abstract!semdelete(table, s)
  BY <1>0, <1>1, <1>4, UsedEntry DEF Abstract!semdelete, Abstract!Unused, r
<1> QED BY <1>5, SameSems DEF Abstract!SemNext

LEMMA SemresetTable ==
  ASSUME RefInv, NEW s \in Sems, NEW count \in Counts, semreset(s, count)
  PROVE  Abstract!SemNext
<1> DEFINE r == Used(count, <<>>)
<1>0. /\ IInv /\ loop = NoLoop /\ sstate[s] /\ count \in Nat
      /\ loop' = [op |-> "semreset", sem |-> s, n |-> count]
      /\ UNCHANGED <<squeue, scount, sstate>>
  BY CountsNatural DEF RefInv, semreset, startloop, Calling, InUser
<1>1. /\ \A t \in Sems : ~Resetting(t)
      /\ Resetting(s)' /\ \A t \in Sems \ {s} : ~Resetting(t)'
  BY <1>0 DEF Resetting, NoLoop
<1>2. \A t \in Sems \ {s} : AbstractSem(t)' = AbstractSem(t)
  BY <1>0, <1>1, OtherEntries
<1>3. AbstractSem(s)' = r
  BY <1>0, <1>1 DEF AbstractSem, Used
<1> HIDE DEF r
<1>4. table' = [table EXCEPT ![s] = r] /\ table'[s] = r
  BY <1>2, <1>3, OneEntry DEF table
<1>5. table'[s].count = count
  BY <1>4, UsedFields DEF r
<1>6. table' = Abstract!semreset(table, s, count)
  <2>1. table[s] = Used(scount[s], pidsof(squeue[s])) /\ scount[s] \in Int
    BY <1>0, <1>1, UsedEntry
  <2> QED BY <1>4, <2>1, ResetUsed DEF r
<1> QED BY <1>0, <1>5, <1>6, SameSems DEF Abstract!SemNext

\* kill() of a process that waits.
LEMMA KillTable ==
  ASSUME RefInv, NEW p \in Pids, kill(p)
  PROVE  [Abstract!SemNext]_table
<1>0. IInv /\ loop = NoLoop /\ loop' = loop /\ sstate' = sstate
  BY DEF RefInv, kill, xdone, remove, semVars, ctlVars, Calling, InUser
<1>1. CASE UNCHANGED <<scount, squeue>>
  BY <1>0, <1>1, QuietTable
<1>2. CASE /\ prstate[p] = PR_WAIT
           /\ scount' = [scount EXCEPT ![prsem[p]] = @ + 1]
           /\ squeue' = [squeue EXCEPT ![prsem[p]] = getitem(@, p)]
  <2>0. PICK s \in Sems : s = prsem[p]
    BY <1>0, <1>2 DEF IInv, SemInv
  <2> DEFINE q == squeue[s]
             c == scount[s]
             w == pidsof(q)
             u == Abstract!without(w, p)
  <2>1. p \in Members(q) /\ NoDuplicates(q) /\ q # <<>>
    <3>1. p \in Members(q) /\ NoDuplicates(q)
      BY <1>0, <1>2, <2>0 DEF IInv, SemInv, Holds
    <3> QED BY <3>1 DEF Members
  <2>2. \A t \in Sems : ~Resetting(t) /\ ~Resetting(t)'
    BY <1>0 DEF Resetting, NoLoop
  <2>3. sstate[s]
    BY <1>0, <2>1, QuietCounts DEF RefInv
  <2>4. /\ table[s] = Used(c, w)
        /\ q \in Seq(Queued) /\ c \in Int
    BY <1>0, <2>2, <2>3, UsedEntry
  <2>5. scount'[s] = c + 1 /\ pidsof(squeue'[s]) = u
    <3>1. scount'[s] = c + 1 /\ squeue'[s] = getitem(q, p)
      BY <1>0, <1>2, <2>0, SemTypes
    <3> QED BY <2>1, <2>4, <3>1, PidsGetitem
  <2>6. \A t \in Sems \ {s} : AbstractSem(t)' = AbstractSem(t)
    BY <1>0, <1>2, <2>0, <2>2, OtherEntries
  <2>7. \A t \in Sems : p \in Abstract!Range(table[t].queue) <=> t = s
    BY <1>0, <1>2, <2>0, TableQueues
  <2>8. AbstractSem(s)' = Used(c + 1, u)
    BY <1>0, <2>2, <2>3, <2>5, UsedEntryAfter
  <2>9. table' = [table EXCEPT ![s] = Used(c + 1, u)]
    BY <2>6, <2>8, OneEntry
  <2>10. table' = Abstract!withdraw(table, p)
    <3> HIDE DEF q, c, w, u
    <3>0. table[s].count = c /\ table[s].queue = w /\ u = Abstract!without(w, p)
      BY <2>4, UsedFields DEF u
    <3>1. Abstract!changed(table[s], table[s].count + 1, Abstract!without(table[s].queue, p)) =
            Used(c + 1, u)
      BY <2>4, <3>0, UsedFields
    <3>2. table = [t \in Sems |-> table[t]]
      BY DEF table
    <3> QED BY <2>7, <2>9, <3>1, <3>2, SameSems DEF Abstract!withdraw
  <2> QED BY <2>10 DEF Abstract!SemNext
<1> QED BY <1>1, <1>2 DEF kill, xdone, remove, semVars

LEMMA SemaphoreCallsTable ==
  ASSUME RefInv, SemaphoreCalls
  PROVE  [Abstract!SemNext]_table
<1>1. ASSUME NEW s \in Sems, signal(s) PROVE [Abstract!SemNext]_table
  BY <1>1, CountupTable DEF signal, Calling, InUser, ctlVars, NoLoop
<1>2. ASSUME NEW s \in Sems, NEW count \in Counts, signaln(s, count) PROVE table' = table
  <2>1. loop = NoLoop /\ loop'.op = "signaln" /\ UNCHANGED <<sstate, scount, squeue>>
    BY <1>2 DEF signaln, startloop, Calling, InUser
  <2> QED BY <2>1, QuietTable DEF NoLoop
<1> QED BY <1>1, <1>2, SemcreateTable, WaitTable, SemdeleteTable, SemresetTable
       DEF SemaphoreCalls

\* The loops over the waiting processes are hidden.
LEMMA KernelLoopsTable ==
  ASSUME RefInv, KernelLoops
  PROVE  [Abstract!SemNext]_table
<1>0. IInv /\ loop.sem \in Sems
  BY SemTypes DEF RefInv
<1>1. CASE wakeup
  <2>1. UNCHANGED <<sstate, scount, squeue>> /\ loop.op # "semreset" /\ loop'.op # "semreset"
    BY <1>1 DEF wakeup, semVars, NoLoop
  <2> QED BY <2>1, QuietTable
<1>2. CASE signalnloop
  <2>0. UNCHANGED sstate /\ loop.op = "signaln" /\ loop'.op # "semreset"
    BY <1>0, <1>2 DEF signalnloop, endloop, NoLoop, IInv, LoopInv
  <2>1. CASE countup(loop.sem)
    BY <1>0, <2>0, <2>1, CountupTable
  <2>2. CASE UNCHANGED <<scount, squeue>>
    BY <2>0, <2>2, QuietTable
  <2> QED BY <1>2, <2>1, <2>2 DEF signalnloop
<1>3. CASE semdeleteloop
  <2>0. PICK s \in Sems : s = loop.sem
    BY <1>0
  <2>1. /\ loop.op = "semdelete" /\ loop'.op # "semreset" /\ UNCHANGED sstate
        /\ scount' = [scount EXCEPT ![s] = @ + 1]
        /\ squeue' = squeue \/ squeue' = [squeue EXCEPT ![s] = rest(@)]
    BY <1>3, <2>0 DEF semdeleteloop, endloop, release, NoLoop
  <2>2. ~sstate[s]
    BY <2>0, <2>1 DEF RefInv, DeletedUnused
  <2>3. \A t \in Sems : ~Resetting(t) /\ ~Resetting(t)'
    BY <2>1 DEF Resetting
  <2>4. \A t \in Sems \ {s} : AbstractSem(t)' = AbstractSem(t)
    BY <1>0, <2>1, <2>3, OtherEntries
  <2>5. AbstractSem(s)' = AbstractSem(s)
    BY <2>1, <2>2 DEF AbstractSem
  <2> QED BY <2>4, <2>5, SameTable
<1>4. CASE semresetloop
  <2>0. PICK s \in Sems : s = loop.sem
    BY <1>0
  <2>1. loop.op = "semreset" /\ UNCHANGED sstate
    BY <1>4 DEF semresetloop
  <2>2. Resetting(s) /\ \A t \in Sems \ {s} : ~Resetting(t)
    BY <2>0, <2>1 DEF Resetting
  <2>3. CASE loop' = loop /\ scount' = scount /\ release(s)
    <3>1. squeue' = squeue \/ squeue' = [squeue EXCEPT ![s] = rest(@)]
      BY <2>3 DEF release
    <3>2. \A t \in Sems : Resetting(t)' <=> Resetting(t)
      BY <2>3 DEF Resetting
    <3>3. \A t \in Sems \ {s} : AbstractSem(t)' = AbstractSem(t)
      BY <1>0, <2>1, <2>2, <2>3, <3>1, <3>2, OtherEntries
    <3>4. AbstractSem(s)' = AbstractSem(s)
      BY <2>1, <2>2, <2>3, <3>2 DEF AbstractSem
    <3> QED BY <3>3, <3>4, SameTable
  <2>4. CASE /\ squeue[s] = <<>> /\ squeue' = squeue /\ loop' = NoLoop
             /\ scount' = [scount EXCEPT ![s] = loop.n]
    <3>1. \A t \in Sems : ~Resetting(t)'
      BY <2>4 DEF Resetting, NoLoop
    <3>2. \A t \in Sems \ {s} : AbstractSem(t)' = AbstractSem(t)
      BY <1>0, <2>1, <2>2, <2>4, <3>1, OtherEntries
    <3>3. AbstractSem(s)' = AbstractSem(s)
      <4>1. scount'[s] = loop.n /\ pidsof(squeue'[s]) = <<>>
        BY <1>0, <2>4, SemTypes, PidsEmpty
      <4> QED BY <2>1, <2>2, <3>1, <4>1 DEF AbstractSem
    <3> QED BY <3>2, <3>3, SameTable
  <2> QED BY <1>4, <2>0, <2>3, <2>4 DEF semresetloop, endloop
<1> QED BY <1>1, <1>2, <1>3, <1>4 DEF KernelLoops

\* All other steps.
LEMMA OthersTable ==
  ASSUME RefInv, UNCHANGED semVars,
         loop' = loop \/ (loop = NoLoop /\ loop'.op = "wakeup")
  PROVE  table' = table
BY QuietTable DEF semVars, NoLoop

-----------------------------------------------------------------------------
(* The refinement                                                          *)

\* Every step of Kernel is one of Semaphores or leaves the table alone.
LEMMA NextTable == RefInv /\ [Next]_vars => [Abstract!SemNext]_table
<1> SUFFICES ASSUME RefInv, [Next]_vars PROVE [Abstract!SemNext]_table
  OBVIOUS
<1>1. CASE ProcessCalls
  <2>1. ASSUME NEW p \in Pids, kill(p) PROVE [Abstract!SemNext]_table
    BY <2>1, KillTable
  <2>2. ASSUME UNCHANGED <<semVars, loop>> PROVE [Abstract!SemNext]_table
    BY <2>2, OthersTable
  <2> QED BY <1>1, <2>1, <2>2 DEF ProcessCalls, create, rcreate, NewProc, nulluser, usercreate,
        createfail, suspend, resume, chprio, yield, ctlVars
<1>2. CASE BlockingCalls
  BY <1>2, OthersTable DEF BlockingCalls, sleepms, yield, recvtime, receive, ctlVars
<1>3. CASE Clock \/ clkreturn \/ halt
  BY <1>3, OthersTable DEF Clock, clkhandler, clkwakeup, clkreturn, halt, InUser, NoLoop, vars, ctlVars
<1>4. CASE UNCHANGED vars
  BY <1>4, OthersTable DEF vars, ctlVars
<1> QED BY <1>1, <1>2, <1>3, <1>4, SemaphoreCallsTable, KernelLoopsTable DEF Next

\* Only semdelete() begins a deletion, and no entry is taken while it runs.
LEMMA NextDeletedUnused == RefInv /\ [Next]_vars => DeletedUnused'
<1> SUFFICES ASSUME RefInv, [Next]_vars, loop'.op = "semdelete" PROVE ~sstate'[loop'.sem]
  BY DEF DeletedUnused
<1>1. CASE UNCHANGED <<loop, sstate>>
  BY <1>1 DEF RefInv, DeletedUnused
<1>2. ASSUME NEW s \in Sems, semdelete(s) PROVE ~sstate'[loop'.sem]
  <2>1. sstate' = [sstate EXCEPT ![s] = FALSE] /\ loop'.sem = s
    BY <1>2 DEF semdelete, startloop
  <2> QED BY <2>1, SemTypes DEF RefInv
<1>3. CASE ProcessCalls
  BY <1>1, <1>3 DEF ProcessCalls, create, rcreate, NewProc, nulluser, usercreate, kill, xdone,
       remove, createfail, suspend, resume, chprio, yield, ctlVars, semVars
<1>4. CASE BlockingCalls
  BY <1>1, <1>4 DEF BlockingCalls, sleepms, yield, recvtime, receive, ctlVars, semVars
<1>5. CASE SemaphoreCalls
  BY <1>1, <1>2, <1>5 DEF SemaphoreCalls, semcreate, wait, signal, signaln, semreset, startloop,
       ctlVars, Calling, InUser, NoLoop
<1>6. CASE KernelLoops
  <2>1. CASE loop' = NoLoop
    BY <2>1 DEF NoLoop
  <2>2. CASE loop'.op = loop.op /\ loop'.sem = loop.sem /\ sstate' = sstate
    BY <2>2 DEF RefInv, DeletedUnused
  <2>3. CASE wakeup
    BY <2>1, <2>2, <2>3 DEF wakeup, semVars
  <2>4. CASE signalnloop
    <3>1. loop'.op # "semdelete"
      BY <2>4, SemTypes DEF signalnloop, endloop, NoLoop, RefInv, IInv, LoopInv
    <3> QED BY <3>1
  <2>5. CASE semdeleteloop
    BY <2>1, <2>2, <2>5 DEF semdeleteloop, endloop
  <2>6. CASE semresetloop
    BY <2>1, <2>2, <2>6 DEF semresetloop, endloop
  <2> QED BY <1>6, <2>3, <2>4, <2>5, <2>6 DEF KernelLoops
<1>7. CASE Clock \/ clkreturn \/ halt \/ UNCHANGED vars
  BY <1>1, <1>7 DEF Clock, clkhandler, clkwakeup, clkreturn, halt, vars, ctlVars, semVars, NoLoop
<1> QED BY <1>3, <1>4, <1>5, <1>6, <1>7 DEF Next

LEMMA NextRefInv == RefInv /\ [Next]_vars => RefInv'
BY NextIInv, NextCountInv, NextDeletedUnused DEF RefInv

\* Nothing is in use when the system starts.
LEMMA InitTable == Init => RefInv /\ Abstract!SemInit
<1> SUFFICES ASSUME Init PROVE RefInv /\ Abstract!SemInit
  OBVIOUS
<1>1. IInv
  BY InitIInv
<1>2. CountInv
  BY DEF Init, CountInv, Agrees, Counted, NoLoop
<1>3. DeletedUnused
  BY DEF Init, DeletedUnused, NoLoop
<1>4. table = [s \in Sems |-> Abstract!Unused]
  BY DEF Init, table, AbstractSem, Abstract!Unused
<1> QED BY <1>1, <1>2, <1>3, <1>4, SameSems DEF RefInv, Abstract!SemInit

\* The semaphores of the kernel do what Semaphores promises to ports, pools,
\* marks and devices, for any number of processes, with loops that release the
\* waiting processes one at a time, kills of waiting processes and deletions in
\* any order (signal.c:26, semdelete.c:30, semreset.c:28, kill.c:74).
THEOREM SemaphoresImplemented == Spec => SemaphoresRefined
BY InitTable, NextRefInv, NextTable, PTL DEF Spec, SemaphoresRefined, Abstract!SemSpec
=============================================================================
