------------------------------ MODULE AsyncIPC ------------------------------
(***************************************************************************)
(* Asynchronous message passing with callback functions, on top of Kernel: *)
(* cbregister(), cbunregister(), send() and the callback usercb().  Each   *)
(* action is an action of Kernel together with what it does to the fields  *)
(* of this module, or a call that leaves the kernel's state alone.         *)
(*                                                                         *)
(* send() to a sleeping process overwrites a return address on its stack:  *)
(* the one in the third frame, counted from the bottom.  What that frame   *)
(* is depends on how deep in user functions the process was when it called *)
(* sleepms():  f, sleepms, resched  /  f, g, sleepms  /  f, g, h.  When the*)
(* third frame returns, the callback runs in the second frame and then     *)
(* returns to the first: what was left of the second function is lost.     *)
(***************************************************************************)
EXTENDS Kernel

CONSTANTS Msgs,       \* messages passed to send()
          Depths      \* how many user functions call each other

ASSUME DepthAssumption == Depths \subseteq 1..3

NoMsg == "none"
ExitMsg == "exit"     \* what kill() sends, the ID of the process

VARIABLES
  prcbvalid,    \* proctab[].prcbvalid
  prcbptr,      \* proctab[].prcbptr: NULL or the callback
  prmbufptr,    \* proctab[].prmbufptr: NULL, the user's buffer or (cast) a message
  prtmpbuf,     \* proctab[].prtmpbuf
  prtmpvalid,   \* proctab[].prtmpvalid
  prparent,     \* proctab[].prparent
  depth,        \* user functions on the stack of a process, from its call of
                \* sleepms() to the return of a changed third frame; else 1
  frame3,       \* where the third frame returns to: its caller, the callback
                \* or address 3
  intr,         \* does the process run user code with interrupts enabled?
  wild          \* a process has jumped to address 3

ipcVars == <<prcbvalid, prcbptr, prmbufptr, prtmpbuf, prtmpvalid, prparent,
             depth, frame3, intr, wild>>

ipcall == <<vars, ipcVars>>

-----------------------------------------------------------------------------

\* The callback's turn has come: the third frame is sleepms() or resched(),
\* which return as soon as the process has the CPU.
Pending == frame3[currpid] # "caller" /\ depth[currpid] < 3

\* The current process executes its own code.
User == Calling /\ ~wild /\ ~Pending

NewStack(p) ==
  /\ depth' = [depth EXCEPT ![p] = 1]
  /\ frame3' = [frame3 EXCEPT ![p] = "caller"]
  /\ intr' = [intr EXCEPT ![p] = TRUE]
  /\ prparent' = [prparent EXCEPT ![p] = currpid]
  /\ UNCHANGED wild

acreate(prio) ==
  /\ User
  /\ create(prio)
  /\ LET p == newpid(nextpid.create)
     IN  /\ NewStack(p)
         /\ prcbvalid' = [prcbvalid EXCEPT ![p] = FALSE]
         /\ prcbptr' = [prcbptr EXCEPT ![p] = "NULL"]
         /\ prmbufptr' = [prmbufptr EXCEPT ![p] = "NULL"]
         /\ prtmpbuf' = [prtmpbuf EXCEPT ![p] = NoMsg]
         /\ prtmpvalid' = [prtmpvalid EXCEPT ![p] = FALSE]

\* rcreate() does not reset the fields of asynchronous message passing.  Its one
\* caller is nulluser(), for which they are as they are when the system starts.
anulluser(prio) ==
  /\ ~wild
  /\ nulluser(prio)
  /\ NewStack(newpid(nextpid.rcreate))
  /\ UNCHANGED <<prcbvalid, prcbptr, prmbufptr, prtmpbuf, prtmpvalid>>

\* A process registers usercb() with a buffer outside of the text segment.
cbregister ==
  /\ User
  /\ ~prcbvalid[currpid]
  /\ prcbptr' = [prcbptr EXCEPT ![currpid] = "usercb"]
  /\ prmbufptr' = [prmbufptr EXCEPT ![currpid] = "buffer"]
  /\ prcbvalid' = [prcbvalid EXCEPT ![currpid] = TRUE]
  /\ UNCHANGED <<vars, prtmpbuf, prtmpvalid, prparent, depth, frame3,
                 intr, wild>>

cbunregister ==
  /\ User
  /\ prcbvalid[currpid]
  /\ prcbvalid' = [prcbvalid EXCEPT ![currpid] = FALSE]
  /\ UNCHANGED <<vars, prcbptr, prmbufptr, prtmpbuf, prtmpvalid, prparent,
                 depth, frame3, intr, wild>>

\* (Variant: prtmpvalid is not set.)
post_invalid(p, msg) ==
  /\ prtmpbuf' = [prtmpbuf EXCEPT ![p] = msg]
  /\ frame3' = IF prstate[p] = PR_SLEEP
               THEN [frame3 EXCEPT ![p] = "callback"] ELSE frame3
  /\ UNCHANGED prtmpvalid

\* What send() stores when it does not refuse the message.  The return address
\* is overwritten whether or not the receiver has registered a callback.
post(p, msg) ==
  /\ prtmpvalid' = [prtmpvalid EXCEPT ![p] = TRUE]
  /\ prtmpbuf' = [prtmpbuf EXCEPT ![p] = msg]
  /\ frame3' =
       IF prstate[p] = PR_SLEEP
       THEN [frame3 EXCEPT ![p] =
               IF prcbptr[p] = "NULL" THEN "address 3" ELSE "callback"]
       ELSE frame3

\* (Variant: every message is accepted.)
refused_never(p) == FALSE

refused(p) == prcbvalid[p] /\ prtmpvalid[p]

ssend(p, msg) ==
  IF isbadpid(p) \/ refused(p)
  THEN UNCHANGED <<prtmpvalid, prtmpbuf, frame3>>
  ELSE post(p, msg)

\* send() readies nobody: the code that did is commented out.
send(p, msg) ==
  /\ User
  /\ ~isbadpid(p) /\ ~refused(p)
  /\ post(p, msg)
  /\ UNCHANGED <<vars, prcbvalid, prcbptr, prmbufptr, prparent,
                 depth, intr, wild>>

\* kill() tells the parent before it frees the process, unless it halts.
akill(p) ==
  /\ User
  /\ kill(p)
  /\ IF halted'
     THEN UNCHANGED <<prtmpvalid, prtmpbuf, frame3>>
     ELSE ssend(prparent[p], ExitMsg)
  /\ UNCHANGED <<prcbvalid, prcbptr, prmbufptr, prparent,
                 depth, intr, wild>>

\* A process calls sleepms() from its first, second or third function.  When a
\* changed return address is already in its third frame, it is in that frame.
asleep(delay, d) ==
  /\ User
  /\ sleepms(delay)
  /\ depth' = [depth EXCEPT ![currpid] = IF frame3[currpid] = "caller" THEN d ELSE @]
  /\ UNCHANGED <<prcbvalid, prcbptr, prmbufptr, prtmpbuf, prtmpvalid, prparent,
                 frame3, intr, wild>>

\* usercb() runs in the second frame and returns to the first.  It changes the
\* pointer prmbufptr, not the buffer, and leaves prtmpvalid set.  In the frame
\* of sleepms() it returns in place of its restore(mask).
usercb ==
  /\ prmbufptr' = [prmbufptr EXCEPT ![currpid] = "message"]
  /\ frame3' = [frame3 EXCEPT ![currpid] = "caller"]
  /\ depth' = [depth EXCEPT ![currpid] = 1]
  /\ intr' = [intr EXCEPT ![currpid] = @ /\ depth[currpid] > 1]
  /\ UNCHANGED <<prcbvalid, prcbptr, prtmpbuf, prtmpvalid, prparent,
                 wild>>

\* A process jumps to address 3: nothing is known of what follows.
jump ==
  /\ wild' = TRUE
  /\ UNCHANGED <<prcbvalid, prcbptr, prmbufptr, prtmpbuf, prtmpvalid, prparent,
                 depth, frame3, intr>>

detour ==
  /\ \/ frame3[currpid] = "callback" /\ usercb
     \/ frame3[currpid] = "address 3" /\ jump
  /\ UNCHANGED vars

\* sleepms() or resched() returns through a changed return address.
sleepreturn == Calling /\ ~wild /\ Pending /\ detour

\* The third user function returns through a changed return address.
return3 == User /\ frame3[currpid] # "caller" /\ detour

-----------------------------------------------------------------------------
(* Steps of the kernel that leave the fields of this module alone          *)

userstep ==
  /\ User
  /\ \/ \E p \in Pids : suspend(p) \/ resume(p)
     \/ \E p \in Pids, prio \in NewPrios : chprio(p, prio)
     \/ \E maxwait \in Waits : recvtime(maxwait)
     \/ receive
     \/ SemaphoreCalls
     \/ yield
  /\ UNCHANGED ipcVars

\* A clock interrupt comes only while the CPU has interrupts enabled; on the
\* way out of sleepms() it has not yet when the third frame is resched().
clockstep ==
  /\ ~wild
  /\ intr[currpid] /\ ~(Pending /\ depth[currpid] = 1)
  /\ Clock
  /\ UNCHANGED ipcVars

\* wakeup() ends sleepms() for a process whose stack has not been changed.
kernelstep ==
  /\ ~wild
  /\ KernelLoops \/ clkreturn \/ halt
  /\ depth' = [p \in Pids |->
                IF prstate[p] = PR_SLEEP /\ prstate'[p] # PR_SLEEP /\ frame3[p] = "caller"
                THEN 1 ELSE depth[p]]
  /\ UNCHANGED <<prcbvalid, prcbptr, prmbufptr, prtmpbuf, prtmpvalid, prparent,
                 frame3, intr, wild>>

lost == wild /\ UNCHANGED ipcall

AInit ==
  /\ Init
  /\ prcbvalid = [p \in Pids |-> FALSE]
  /\ prcbptr = [p \in Pids |-> "NULL"]
  /\ prmbufptr = [p \in Pids |-> "NULL"]
  /\ prtmpbuf = [p \in Pids |-> NoMsg]
  /\ prtmpvalid = [p \in Pids |-> FALSE]
  /\ prparent = [p \in Pids |-> NULLPROC]
  /\ depth = [p \in Pids |-> 1]
  /\ frame3 = [p \in Pids |-> "caller"]
  /\ intr = [p \in Pids |-> TRUE]
  /\ wild = FALSE

ANext ==
  \/ \E prio \in Prios : acreate(prio) \/ anulluser(prio)
  \/ cbregister \/ cbunregister
  \/ \E p \in Pids, msg \in Msgs : send(p, msg)
  \/ \E p \in Pids : akill(p)
  \/ \E delay \in Delays, d \in Depths : asleep(delay, d)
  \/ sleepreturn \/ return3
  \/ userstep \/ clockstep \/ kernelstep \/ lost

ASpec == AInit /\ [][ANext]_ipcall

\* A process on its way out of a system call executes a few instructions, for
\* which there is time between clock interrupts however often they come.
AFairness ==
  /\ WF_ipcall(kernelstep)
  /\ SF_ipcall(sleepreturn)
  /\ SF_ipcall(clockstep)

AFairSpec == ASpec /\ AFairness

-----------------------------------------------------------------------------
(* Properties of the code                                                  *)

ATypeOK ==
  /\ TypeOK
  /\ prcbvalid \in [Pids -> BOOLEAN]
  /\ prcbptr \in [Pids -> {"NULL", "usercb"}]
  /\ prmbufptr \in [Pids -> {"NULL", "buffer", "message"}]
  /\ prtmpbuf \in [Pids -> {NoMsg, ExitMsg} \cup Msgs]
  /\ prtmpvalid \in [Pids -> BOOLEAN]
  /\ prparent \in [Pids -> Pids]
  /\ depth \in [Pids -> 1..3]
  /\ frame3 \in [Pids -> {"caller", "callback", "address 3"}]
  /\ intr \in [Pids -> BOOLEAN]
  /\ wild \in BOOLEAN

\* usercb() enables interrupts again only if it finds prtmpvalid set
\* (usercb.c:22-27): whenever a stack holds a changed return address there is
\* a message for the callback, through registrations, refused messages, exit
\* messages and the reuse of process table entries.
CallbackFindsMessage ==
  \A p \in Pids : frame3[p] # "caller" => prtmpvalid[p]

\* Until its callback has run, a registered process keeps the message it has: no
\* later one, from a sender or from kill(), replaces it (send.c:36).
FirstMessageWins ==
  [][\A p \in Pids :
       prcbvalid[p] /\ prtmpvalid[p] /\ prcbvalid'[p]
       => \/ prtmpvalid'[p] /\ prtmpbuf'[p] = prtmpbuf[p]
          \/ p = currpid /\ frame3[p] = "callback" /\ frame3'[p] = "caller"]_ipcall

\* A callback that send() has put on the stack of a process in sleepms() runs,
\* unless the process is killed or suspended, finds more urgent ones in its way
\* again and again, or the CPU stays with processes that have no interrupts.
CallbackRuns ==
  \A p \in Pids :
    \/ <>[]~intr[currpid]
    \/ []<>(prstate[p] = PR_READY /\ Outranked(p))
    \/ (frame3[p] = "callback" /\ depth[p] < 3)
       ~> (\/ frame3[p] = "caller" \/ halted \/ wild
           \/ prstate[p] \in {PR_FREE, PR_SUSP})

-----------------------------------------------------------------------------
(* What the documents say of the code                                      *)

\* "When the receiver process becomes current, the kernel copies the content of
\* prtmpbuf to the receiver's 1-word user space message buffer and resets
\* prtmpvalid to 0" (README.md:78), so that the next message is not discarded.
ResetByCallback ==
  [][\A p \in Pids :
       frame3[p] = "callback" /\ frame3'[p] = "caller" /\ prstate'[p] = PR_CURR
       => ~prtmpvalid'[p]]_ipcall

\* Return addresses are changed "when a message send event to a receiver that
\* registered a callback function occurs" (README.md:78).
ChangedOnlyIfRegistered ==
  [][\A p \in Pids :
       frame3[p] = "caller" /\ frame3'[p] # "caller" => prcbvalid[p]]_ipcall

\* "Decrement the preemption counter, and reschedule when the remaining time
\* reaches zero" (clkhandler.c:38): a process that computes shares the CPU with
\* ready processes of its priority, whatever messages it has received.
TimeSliced ==
  \A p \in Pids :
    []<>(wild \/ halted \/ prstate[p] # PR_READY \/ Outranked(p))

=============================================================================
