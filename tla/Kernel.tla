------------------------------- MODULE Kernel -------------------------------
(***************************************************************************)
(* The process manager of Xinu: process table, scheduler, sleep queue and  *)
(* clock, counting semaphores, and the blocking side of message passing.   *)
(*                                                                         *)
(* There is one CPU and every system call runs with interrupts disabled,   *)
(* so a call is one action of the current process, up to the point where   *)
(* ctxsw() hands the CPU to another process.  Four calls ready several     *)
(* processes in a loop while rescheduling is deferred (wakeup, signaln,    *)
(* semdelete, semreset): each iteration is a step, `loop' says which loop  *)
(* is running, and nothing else can happen until it ends.  `kont' is where *)
(* a process continues when it gets the CPU back.                          *)
(*                                                                         *)
(* Calls that return SYSERR change nothing and are not actions.            *)
(***************************************************************************)
EXTENDS Integers, FiniteSets, Queues

CONSTANTS
  NPROC,      \* entries of the process table
  NSEM,       \* entries of the semaphore table
  QUANTUM,    \* time slice, in clock ticks
  U32MAX,     \* largest uint32 (scaled down)
  Prios,      \* priorities passed to create() and rcreate()
  NewPrios,   \* priorities passed to chprio()
  Delays,     \* delays passed to sleepms()
  Waits,      \* time limits passed to recvtime()
  Counts,     \* counts passed to semcreate(), semreset() and signaln()
  MaxCount    \* bound of the model: no semaphore count grows above it

ASSUME SizeAssumption ==
  /\ NPROC \in Nat /\ NPROC > 1
  /\ NSEM \in Nat /\ NSEM > 0
  /\ QUANTUM \in Nat /\ QUANTUM > 0
  /\ U32MAX \in Nat /\ U32MAX >= QUANTUM

\* The values of a pri16, a signed integer of 16 bits.
MINPRI16 == -32768
MAXPRI16 == 32767

ASSUME InputAssumption ==
  /\ Prios \subseteq 1..MAXPRI16            \* create() refuses a priority < 1
  /\ NewPrios \subseteq MINPRI16..MAXPRI16  \* chprio() takes any pri16
  /\ Delays \subseteq Nat
  /\ Waits \subseteq Nat
  /\ Counts \subseteq Nat
  /\ MaxCount \in Nat

NULLPROC == 0
EMPTY    == -1
Pids == 0..(NPROC - 1)
Sems == 0..(NSEM - 1)

PR_FREE   == "free"
PR_CURR   == "curr"
PR_READY  == "ready"
PR_RECV   == "recv"
PR_SLEEP  == "sleep"
PR_SUSP   == "susp"
PR_WAIT   == "wait"
PR_RECTIM == "rectim"

States == {PR_FREE, PR_CURR, PR_READY, PR_RECV,
           PR_SLEEP, PR_SUSP, PR_WAIT, PR_RECTIM}

VARIABLES
  prstate,    \* proctab[].prstate
  prprio,     \* proctab[].prprio
  prsem,      \* proctab[].prsem, the semaphore a process waits on
  prhasmsg,   \* proctab[].prhasmsg
  prcount,    \* number of live processes
  nextpid,    \* the static nextpid of create.c and the one of rcreate.c
  currpid,    \* the current process
  readylist,  \* the ready list
  sleepq,     \* the delta list of sleeping processes
  preempt,    \* ticks left of the time slice
  Defer,      \* deferred rescheduling
  sstate,     \* semtab[].sstate: is the entry in use?
  scount,     \* semtab[].scount
  squeue,     \* semtab[].squeue
  nextsem,    \* the static nextsem of semcreate.c
  kont,       \* where each process continues: in user code or in clkhandler()
  loop,       \* the loop that runs while rescheduling is deferred
  halted      \* the last user process is gone and the CPU is halted

procVars  == <<prprio, prsem, prhasmsg, prcount, nextpid>>
schedVars == <<prstate, readylist, currpid, preempt, Defer>>
semVars   == <<sstate, scount, squeue, nextsem>>
ctlVars   == <<kont, loop, halted>>

vars == <<procVars, schedVars, sleepq, semVars, ctlVars>>

NoLoop == [op |-> "none", sem |-> 0, n |-> 0]

-----------------------------------------------------------------------------
(* Scheduling: ctxsw, resched, ready, resched_cntl                         *)

\* dequeue(readylist) and hand the CPU to the process it returns.
SwitchTo(st, rl) ==
  IF rl = <<>>
  THEN /\ currpid' = EMPTY
       /\ prstate' = st
       /\ readylist' = rl
       /\ preempt' = QUANTUM
  ELSE /\ currpid' = first(rl)
       /\ prstate' = [st EXCEPT ![first(rl)] = PR_CURR]
       /\ readylist' = rest(rl)
       /\ preempt' = QUANTUM

\* (Variant: does not look at Defer.)
resched_now(d, st, rl, pre) ==
  /\ Defer' = d
  /\ IF st[currpid] = PR_CURR
     THEN SwitchTo([st EXCEPT ![currpid] = PR_READY],
                   insert(rl, currpid, prprio[currpid]))
     ELSE SwitchTo(st, rl)

\* resched(), given the values that Defer, the process states, the ready list
\* and the preemption counter have when it is called.
resched(d, st, rl, pre) ==
  \/ /\ d.ndefers > 0
     /\ Defer' = [d EXCEPT !.attempt = TRUE]
     /\ prstate' = st
     /\ readylist' = rl
     /\ preempt' = pre
     /\ UNCHANGED currpid
  \/ /\ d.ndefers = 0
     /\ st[currpid] = PR_CURR
     /\ prprio[currpid] > firstkey(rl)
     /\ Defer' = d
     /\ prstate' = st
     /\ readylist' = rl
     /\ preempt' = pre
     /\ UNCHANGED currpid
  \/ /\ d.ndefers = 0
     /\ st[currpid] = PR_CURR
     /\ prprio[currpid] <= firstkey(rl)
     /\ Defer' = d
     /\ SwitchTo([st EXCEPT ![currpid] = PR_READY],
                 insert(rl, currpid, prprio[currpid]))
  \/ /\ d.ndefers = 0
     /\ st[currpid] # PR_CURR
     /\ Defer' = d
     /\ SwitchTo(st, rl)

\* (Variant: does not call resched().)
ready_only(st, p, prio) ==
  /\ prstate' = [st EXCEPT ![p] = PR_READY]
  /\ readylist' = insert(readylist, p, prio)
  /\ UNCHANGED <<currpid, preempt, Defer>>

\* ready(): p becomes ready with priority prio, then resched().
ready(st, p, prio) ==
  resched(Defer, [st EXCEPT ![p] = PR_READY],
          insert(readylist, p, prio), preempt)

\* The current process leaves the CPU in state s.
block(s) ==
  resched(Defer, [prstate EXCEPT ![currpid] = s], readylist, preempt)

DeferStart ==
  /\ Defer' = [ndefers |-> Defer.ndefers + 1,
               attempt |-> IF Defer.ndefers = 0 THEN FALSE ELSE Defer.attempt]
  /\ UNCHANGED <<prstate, readylist, currpid>>

DeferStop ==
  LET d == [Defer EXCEPT !.ndefers = @ - 1]
  IN  IF d.ndefers = 0 /\ d.attempt
      THEN resched(d, prstate, readylist, preempt)
      ELSE Defer' = d /\ UNCHANGED <<prstate, readylist, currpid, preempt>>

\* A process executes user code, with interrupts enabled.
InUser == ~halted /\ loop = NoLoop /\ currpid \in Pids /\ kont[currpid] = "user"

\* The null process only idles; system calls come from the others.
Calling == InUser /\ currpid # NULLPROC

isbadpid(p) == p \notin Pids \/ prstate[p] = PR_FREE

-----------------------------------------------------------------------------
(* Process creation, termination and priorities                            *)

\* newpid(): the free entry found first when the table is searched
\* cyclically from position `from'.
FreePids == {p \in Pids : prstate[p] = PR_FREE}
newpid(from) ==
  CHOOSE p \in FreePids :
    \A q \in FreePids : (p - from) % NPROC <= (q - from) % NPROC

\* The process table entry that create() and rcreate() fill in.
NewProc(p, prio) ==
  /\ prcount' = prcount + 1
  /\ prprio' = [prprio EXCEPT ![p] = prio]
  /\ prsem' = [prsem EXCEPT ![p] = -1]
  /\ prhasmsg' = [prhasmsg EXCEPT ![p] = FALSE]
  /\ kont' = [kont EXCEPT ![p] = "user"]
  /\ UNCHANGED <<sleepq, semVars, loop, halted>>

create(prio) ==
  /\ Calling
  /\ FreePids # {}
  /\ LET p == newpid(nextpid.create)
     IN  /\ nextpid' = [nextpid EXCEPT !.create = p + 1]
         /\ prstate' = [prstate EXCEPT ![p] = PR_SUSP]
         /\ NewProc(p, prio)
  /\ UNCHANGED <<readylist, currpid, preempt, Defer>>

\* rcreate() also readies the process.  nulluser() calls it once, to start
\* main(), before it becomes the idle loop.
rcreate(prio) ==
  /\ FreePids # {}
  /\ LET p == newpid(nextpid.rcreate)
     IN  /\ nextpid' = [nextpid EXCEPT !.rcreate = p + 1]
         /\ NewProc(p, prio)
         /\ ready(prstate, p, prio)

nulluser(prio) ==
  /\ InUser /\ currpid = NULLPROC
  /\ prcount = 1
  /\ rcreate(prio)

usercreate(prio) == Calling /\ rcreate(prio)

\* (Variant: counts the process before it has a stack.)
createfail_counted(which) ==
  /\ Calling
  /\ FreePids # {}
  /\ nextpid' = [nextpid EXCEPT ![which] = newpid(nextpid[which]) + 1]
  /\ prcount' = prcount + 1
  /\ UNCHANGED <<prprio, prsem, prhasmsg, schedVars, sleepq, semVars, ctlVars>>

\* getstk() fails after newpid() has moved on.
createfail(which) ==
  /\ Calling
  /\ FreePids # {}
  /\ nextpid' = [nextpid EXCEPT ![which] = newpid(nextpid[which]) + 1]
  /\ UNCHANGED <<prprio, prsem, prhasmsg, prcount,
                 schedVars, sleepq, semVars, ctlVars>>

\* kill() of the last user process stops in xdone(), before anything else.
xdone(p) ==
  /\ prcount - 1 <= 1
  /\ halted' = TRUE
  /\ UNCHANGED <<schedVars, sleepq, semVars, kont, loop>>

\* kill() otherwise takes p off the queue its state says it is on.
remove(p) ==
  LET freed == [prstate EXCEPT ![p] = PR_FREE]
      s == prsem[p]
      leaves == prstate' = freed /\ UNCHANGED <<currpid, preempt, Defer>>
  IN
  /\ prcount - 1 > 1
  /\ UNCHANGED <<sstate, nextsem, ctlVars>>
  /\ \/ /\ prstate[p] = PR_CURR
        /\ block(PR_FREE)
        /\ UNCHANGED <<sleepq, scount, squeue>>
     \/ /\ prstate[p] \in {PR_SLEEP, PR_RECTIM}
        /\ sleepq' = unsleep(sleepq, p)
        /\ leaves
        /\ UNCHANGED <<readylist, scount, squeue>>
     \/ /\ prstate[p] = PR_WAIT
        /\ scount' = [scount EXCEPT ![s] = @ + 1]
        /\ squeue' = [squeue EXCEPT ![s] = getitem(@, p)]
        /\ leaves
        /\ UNCHANGED <<readylist, sleepq>>
     \/ /\ prstate[p] = PR_READY
        /\ readylist' = getitem(readylist, p)
        /\ leaves
        /\ UNCHANGED <<sleepq, scount, squeue>>
     \/ /\ prstate[p] \in {PR_RECV, PR_SUSP}
        /\ leaves
        /\ UNCHANGED <<readylist, sleepq, scount, squeue>>

kill(p) ==
  /\ Calling
  /\ ~isbadpid(p) /\ p # NULLPROC
  /\ prcount' = prcount - 1
  /\ xdone(p) \/ remove(p)
  /\ UNCHANGED <<prprio, prsem, prhasmsg, nextpid>>

\* halt(): the CPU spins for ever with interrupts disabled.
halt == halted /\ UNCHANGED vars

\* (Variant: leaves p on the ready list.)
suspend_listed(p) ==
  /\ Calling
  /\ ~isbadpid(p) /\ p # NULLPROC /\ prstate[p] = PR_READY
  /\ prstate' = [prstate EXCEPT ![p] = PR_SUSP]
  /\ UNCHANGED <<readylist, currpid, preempt, Defer,
                 procVars, sleepq, semVars, ctlVars>>

suspend(p) ==
  /\ Calling
  /\ ~isbadpid(p) /\ p # NULLPROC
  /\ \/ /\ prstate[p] = PR_READY
        /\ readylist' = getitem(readylist, p)
        /\ prstate' = [prstate EXCEPT ![p] = PR_SUSP]
        /\ UNCHANGED <<currpid, preempt, Defer>>
     \/ /\ prstate[p] = PR_CURR
        /\ block(PR_SUSP)
  /\ UNCHANGED <<procVars, sleepq, semVars, ctlVars>>

resume(p) ==
  /\ Calling
  /\ ~isbadpid(p) /\ prstate[p] = PR_SUSP
  /\ ready(prstate, p, prprio[p])
  /\ UNCHANGED <<procVars, sleepq, semVars, ctlVars>>

\* chprio() neither moves the process on the ready list nor reschedules.
chprio(p, prio) ==
  /\ Calling
  /\ ~isbadpid(p)
  /\ prprio' = [prprio EXCEPT ![p] = prio]
  /\ UNCHANGED <<prsem, prhasmsg, prcount, nextpid,
                 schedVars, sleepq, semVars, ctlVars>>

yield ==
  /\ Calling
  /\ resched(Defer, prstate, readylist, preempt)
  /\ UNCHANGED <<procVars, sleepq, semVars, ctlVars>>

-----------------------------------------------------------------------------
(* Sleeping, receiving and the clock                                       *)

sleepms(delay) ==
  \/ delay = 0 /\ yield
  \/ /\ Calling
     /\ delay > 0
     /\ sleepq' = insertd(sleepq, currpid, delay)
     /\ block(PR_SLEEP)
     /\ UNCHANGED <<procVars, semVars, ctlVars>>

\* No code sets prhasmsg: send() leaves the flag of the receiver alone.  The
\* paths of receive(), recvtime() and recvclr() that take a message are dead, so
\* these calls block, or return at once, and have nothing to do afterwards.
receive ==
  /\ Calling
  /\ ~prhasmsg[currpid]
  /\ block(PR_RECV)
  /\ UNCHANGED <<procVars, sleepq, semVars, ctlVars>>

recvtime(maxwait) ==
  /\ Calling
  /\ ~prhasmsg[currpid]
  /\ sleepq' = insertd(sleepq, currpid, maxwait)
  /\ block(PR_RECTIM)
  /\ UNCHANGED <<procVars, semVars, ctlVars>>

\* --x on a uint32.
Decrement(x) == IF x = 0 THEN U32MAX ELSE x - 1

\* (Variant: the counter is not set again.)
TimeSlice_noreset ==
  LET left == Decrement(preempt)
  IN  IF left = 0
      THEN resched(Defer, prstate, readylist, left)
      ELSE preempt' = left /\ UNCHANGED <<prstate, readylist, currpid, Defer>>

\* The end of clkhandler(): count down the time slice.
TimeSlice ==
  LET left == Decrement(preempt)
  IN  IF left = 0
      THEN resched(Defer, prstate, readylist, QUANTUM)
      ELSE preempt' = left /\ UNCHANGED <<prstate, readylist, currpid, Defer>>

\* A clock interrupt that wakes nobody.
clkhandler ==
  /\ InUser
  /\ \/ sleepq = <<>> /\ UNCHANGED sleepq
     \/ /\ sleepq # <<>>
        /\ firstkey(sleepq) - 1 > 0
        /\ sleepq' = [sleepq EXCEPT ![1].key = @ - 1]
  /\ TimeSlice
  /\ UNCHANGED <<procVars, semVars, ctlVars>>

\* A clock interrupt that ends a delay: clkhandler() calls wakeup().
clkwakeup ==
  /\ InUser
  /\ sleepq # <<>>
  /\ firstkey(sleepq) - 1 <= 0
  /\ sleepq' = [sleepq EXCEPT ![1].key = @ - 1]
  /\ loop' = [NoLoop EXCEPT !.op = "wakeup"]
  /\ DeferStart
  /\ UNCHANGED <<procVars, semVars, preempt, kont, halted>>

wakeup ==
  /\ loop.op = "wakeup"
  /\ \/ /\ sleepq # <<>> /\ firstkey(sleepq) <= 0
        /\ sleepq' = rest(sleepq)
        /\ ready(prstate, first(sleepq), prprio[first(sleepq)])
        /\ UNCHANGED <<loop, kont>>
     \/ /\ sleepq = <<>> \/ firstkey(sleepq) > 0
        /\ DeferStop
        /\ loop' = NoLoop
        /\ kont' = [kont EXCEPT ![currpid] = "clkhandler"]
        /\ UNCHANGED sleepq
  /\ UNCHANGED <<procVars, semVars, halted>>

\* The process that was interrupted has the CPU (again) and finishes
\* clkhandler() before it returns to user code.
clkreturn ==
  /\ ~halted /\ loop = NoLoop
  /\ currpid \in Pids /\ kont[currpid] = "clkhandler"
  /\ kont' = [kont EXCEPT ![currpid] = "user"]
  /\ TimeSlice
  /\ UNCHANGED <<procVars, sleepq, semVars, loop, halted>>

-----------------------------------------------------------------------------
(* Semaphores                                                              *)

\* newsem(): like newpid(), on the semaphore table.
FreeSems == {s \in Sems : ~sstate[s]}
newsem ==
  CHOOSE s \in FreeSems :
    \A t \in FreeSems : (s - nextsem) % NSEM <= (t - nextsem) % NSEM

\* (Variant: nextsem does not wrap around.)
semcreate_nowrap(count) ==
  /\ Calling
  /\ FreeSems # {}
  /\ sstate' = [sstate EXCEPT ![newsem] = TRUE]
  /\ scount' = [scount EXCEPT ![newsem] = count]
  /\ nextsem' = newsem + 1
  /\ UNCHANGED <<procVars, schedVars, sleepq, squeue, ctlVars>>

semcreate(count) ==
  /\ Calling
  /\ FreeSems # {}
  /\ sstate' = [sstate EXCEPT ![newsem] = TRUE]
  /\ scount' = [scount EXCEPT ![newsem] = count]
  /\ nextsem' = (newsem + 1) % NSEM
  /\ UNCHANGED <<procVars, schedVars, sleepq, squeue, ctlVars>>

wait(s) ==
  /\ Calling
  /\ sstate[s]
  /\ scount' = [scount EXCEPT ![s] = @ - 1]
  /\ \/ /\ scount[s] - 1 < 0
        /\ prsem' = [prsem EXCEPT ![currpid] = s]
        /\ squeue' = [squeue EXCEPT ![s] = enqueue(@, currpid)]
        /\ block(PR_WAIT)
     \/ /\ scount[s] - 1 >= 0
        /\ UNCHANGED <<prsem, squeue, schedVars>>
  /\ UNCHANGED <<prprio, prhasmsg, prcount, nextpid,
                 sleepq, sstate, nextsem, ctlVars>>

\* ready(dequeue(squeue)); ready() ignores the EMPTY of an empty queue.
release(s) ==
  IF squeue[s] = <<>>
  THEN UNCHANGED <<squeue, schedVars>>
  ELSE /\ squeue' = [squeue EXCEPT ![s] = rest(@)]
       /\ ready(prstate, first(squeue[s]), prprio[first(squeue[s])])

\* (Variant: if (++scount < 0).)
countup_first(s) ==
  /\ scount' = [scount EXCEPT ![s] = @ + 1]
  /\ \/ scount[s] + 1 < 0 /\ release(s)
     \/ scount[s] + 1 >= 0 /\ UNCHANGED <<squeue, schedVars>>

\* if (scount++ < 0) ready(dequeue(squeue))
countup(s) ==
  /\ scount' = [scount EXCEPT ![s] = @ + 1]
  /\ \/ scount[s] < 0 /\ release(s)
     \/ scount[s] >= 0 /\ UNCHANGED <<squeue, schedVars>>

signal(s) ==
  /\ Calling
  /\ sstate[s]
  /\ scount[s] < MaxCount
  /\ countup(s)
  /\ UNCHANGED <<procVars, sleepq, sstate, nextsem, ctlVars>>

\* The three calls that start a loop over the waiting processes.
startloop(op, s, n) ==
  /\ Calling
  /\ sstate[s]
  /\ loop' = [op |-> op, sem |-> s, n |-> n]
  /\ DeferStart
  /\ UNCHANGED <<procVars, preempt, sleepq, scount, squeue, nextsem, kont, halted>>

signaln(s, count) ==
  /\ scount[s] + count <= MaxCount
  /\ startloop("signaln", s, count)
  /\ UNCHANGED sstate

semdelete(s) ==
  /\ startloop("semdelete", s, 0)
  /\ sstate' = [sstate EXCEPT ![s] = FALSE]

semreset(s, count) ==
  /\ startloop("semreset", s, count)
  /\ UNCHANGED sstate

\* resched_cntl(DEFER_STOP) at the end of a loop.
endloop == DeferStop /\ loop' = NoLoop

signalnloop ==
  /\ loop.op = "signaln"
  /\ \/ /\ loop.n > 0
        /\ countup(loop.sem)
        /\ loop' = [loop EXCEPT !.n = @ - 1]
     \/ /\ loop.n = 0
        /\ endloop
        /\ UNCHANGED <<scount, squeue>>
  /\ UNCHANGED <<procVars, sleepq, sstate, nextsem, kont, halted>>

\* The test that ends the loop of semdelete() increments the count as well.
semdeleteloop ==
  /\ loop.op = "semdelete"
  /\ scount' = [scount EXCEPT ![loop.sem] = @ + 1]
  /\ \/ scount[loop.sem] < 0 /\ release(loop.sem) /\ UNCHANGED loop
     \/ scount[loop.sem] >= 0 /\ endloop /\ UNCHANGED squeue
  /\ UNCHANGED <<procVars, sleepq, sstate, nextsem, kont, halted>>

semresetloop ==
  /\ loop.op = "semreset"
  /\ \/ /\ squeue[loop.sem] # <<>>
        /\ release(loop.sem)
        /\ UNCHANGED <<scount, loop>>
     \/ /\ squeue[loop.sem] = <<>>
        /\ scount' = [scount EXCEPT ![loop.sem] = loop.n]
        /\ endloop
        /\ UNCHANGED squeue
  /\ UNCHANGED <<procVars, sleepq, sstate, nextsem, kont, halted>>

-----------------------------------------------------------------------------
(* The system                                                              *)

\* The state sysinit() leaves: the null process runs, everything is free.
Init ==
  /\ prstate = [p \in Pids |-> IF p = NULLPROC THEN PR_CURR ELSE PR_FREE]
  /\ prprio = [p \in Pids |-> 0]
  /\ prsem = [p \in Pids |-> 0]
  /\ prhasmsg = [p \in Pids |-> FALSE]
  /\ prcount = 1
  /\ nextpid = [create |-> 1, rcreate |-> 1]
  /\ currpid = NULLPROC
  /\ readylist = <<>>
  /\ sleepq = <<>>
  /\ preempt = QUANTUM
  /\ Defer = [ndefers |-> 0, attempt |-> FALSE]
  /\ sstate = [s \in Sems |-> FALSE]
  /\ scount = [s \in Sems |-> 0]
  /\ squeue = [s \in Sems |-> <<>>]
  /\ nextsem = 0
  /\ kont = [p \in Pids |-> "user"]
  /\ loop = NoLoop
  /\ halted = FALSE

ProcessCalls ==
  \/ \E prio \in Prios : create(prio) \/ nulluser(prio) \/ usercreate(prio)
  \/ \E which \in {"create", "rcreate"} : createfail(which)
  \/ \E p \in Pids : kill(p) \/ suspend(p) \/ resume(p)
  \/ \E p \in Pids, prio \in NewPrios : chprio(p, prio)
  \/ yield

BlockingCalls ==
  \/ \E delay \in Delays : sleepms(delay)
  \/ \E maxwait \in Waits : recvtime(maxwait)
  \/ receive

SemaphoreCalls ==
  \/ \E count \in Counts : semcreate(count)
  \/ \E s \in Sems : wait(s) \/ signal(s) \/ semdelete(s)
  \/ \E s \in Sems, count \in Counts : signaln(s, count) \/ semreset(s, count)

\* The loops that run with interrupts disabled.
KernelLoops == wakeup \/ signalnloop \/ semdeleteloop \/ semresetloop

Clock == clkhandler \/ clkwakeup

Next ==
  \/ ProcessCalls
  \/ BlockingCalls
  \/ SemaphoreCalls
  \/ KernelLoops
  \/ Clock
  \/ clkreturn
  \/ halt

Spec == Init /\ [][Next]_vars

\* A kernel loop and the end of an interrupt are the only thing the CPU can do
\* next.  A clock interrupt that arrives while interrupts are disabled stays
\* pending in the interrupt controller, so it is served although system calls
\* keep disabling and enabling interrupts.
Fairness ==
  /\ WF_vars(KernelLoops)
  /\ WF_vars(clkreturn)
  /\ SF_vars(Clock)

FairSpec == Spec /\ Fairness

-----------------------------------------------------------------------------
(* Properties                                                              *)

Queued == [pid : Pids, key : Int]

\* Types.  A current process always exists: resched() never dequeues from an
\* empty ready list, because the null process never leaves the CPU but for it
\* (resched.c:40).
TypeOK ==
  /\ prstate \in [Pids -> States]
  /\ prprio \in [Pids -> Int]
  /\ prsem \in [Pids -> Sems \cup {-1}]
  /\ prhasmsg \in [Pids -> BOOLEAN]
  /\ prcount \in Nat
  /\ nextpid \in [create : 1..NPROC, rcreate : 1..NPROC]
  /\ currpid \in Pids
  /\ readylist \in Seq(Queued)
  /\ sleepq \in Seq(Queued)
  /\ preempt \in 0..U32MAX
  /\ Defer \in [ndefers : Nat, attempt : BOOLEAN]
  /\ sstate \in [Sems -> BOOLEAN]
  /\ scount \in [Sems -> Int]
  /\ squeue \in [Sems -> Seq(Queued)]
  /\ nextsem \in Sems
  /\ kont \in [Pids -> {"user", "clkhandler"}]
  /\ loop \in [op : {"none", "wakeup", "signaln", "semdelete", "semreset"},
               sem : Sems, n : Int]
  /\ halted \in BOOLEAN

\* Every process is on the queue its state says, and on it once: queuetab[] has
\* one node per process, so a process linked into a second queue, or unlinked
\* by getitem() while it is on none, corrupts both (getitem.c:47, kill.c:62).
QueueConsistent ==
  /\ \A p \in Pids : prstate[p] = PR_CURR <=> p = currpid
  /\ \A p \in Pids : prstate[p] = PR_READY <=> p \in Members(readylist)
  /\ \A p \in Pids :
       prstate[p] \in {PR_SLEEP, PR_RECTIM} <=> p \in Members(sleepq)
  /\ \A p \in Pids, s \in Sems :
       (prstate[p] = PR_WAIT /\ prsem[p] = s) <=> p \in Members(squeue[s])
  /\ \A p \in Pids : prstate[p] = PR_WAIT => prsem[p] \in Sems
  /\ NoDuplicates(readylist)
  /\ NoDuplicates(sleepq)
  /\ \A s \in Sems : NoDuplicates(squeue[s])

\* A negative count is the number of waiting processes, through signals, kills
\* and resets in any order, and nobody waits for a semaphore that is deleted
\* (signal.c:26, kill.c:74, semdelete.c:30).  semreset() empties the queue
\* before it sets the count, with no other process running in between.
SemConsistent ==
  \A s \in Sems :
    /\ loop.op # "semreset" \/ loop.sem # s
       => Len(squeue[s]) = IF scount[s] < 0 THEN -scount[s] ELSE 0
    /\ squeue[s] # <<>> => sstate[s] \/ loop = [NoLoop EXCEPT !.op = "semdelete", !.sem = s]

\* prcount, whose reaching 1 halts the machine (kill.c:24), is the number of
\* processes that exist.
CountConsistent ==
  ~halted => prcount = Cardinality({p \in Pids : prstate[p] # PR_FREE})

\* The unsigned counter of clkhandler.c:41 is never 0 when it is decremented,
\* although it is reset by every context switch and also counted down by a
\* process that finishes an old clock interrupt.
NoWrap == preempt \in 1..QUANTUM

\* "Force context switch to highest priority ready process" (resched.c:38):
\* outside the kernel's loops no ready process outranks the current one.
HighestRuns ==
  loop = NoLoop /\ ~halted =>
    \A p \in Pids : prstate[p] = PR_READY => prprio[p] <= prprio[currpid]

\* The CPU is never given away while rescheduling is deferred (resched.c:18),
\* however the loops and the interrupts nest.
DeferHolds ==
  [][Defer.ndefers > 0 /\ Defer'.ndefers > 0 => currpid' = currpid]_vars

\* Round robin: a process that is ready and that no other ready or running
\* process outranks gets the CPU, is suspended or is killed (insert.c:23 puts
\* it behind its equals, clkhandler.c:41 ends every time slice).
Outranked(p) ==
  \E q \in Pids : prstate[q] \in {PR_CURR, PR_READY} /\ prprio[q] > prprio[p]

NoStarvation ==
  \A p \in Pids :
    []<>(halted \/ prstate[p] # PR_READY \/ Outranked(p))

\* "Delay the calling process n milliseconds" (sleep.c:23), and recvtime() a limited
\* time: every delay ends, whatever the calls and the other sleepers do, unless
\* processes call recvtime(0) again and again.  Each of these calls puts an entry
\* with a delay of 0 first on the list (insertd.c:22) and the next tick is spent on
\* it alone (clkhandler.c:33), so they can keep all others asleep for ever.
SleepersWake ==
  \A p \in Pids :
    \/ []<>(halted \/ prstate[p] \notin {PR_SLEEP, PR_RECTIM})
    \/ []<><<recvtime(0)>>_vars

\* A semaphore that is signalled again and again serves every process that
\* waits for it, in the presence of kills, resets and other waiters (signal.c:26
\* readies the process that has waited longest).
WaitersServed ==
  \A p \in Pids, s \in Sems :
    []<><<signal(s)>>_vars => []<>~(prstate[p] = PR_WAIT /\ prsem[p] = s)
=============================================================================
