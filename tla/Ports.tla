------------------------------- MODULE Ports -------------------------------
(***************************************************************************)
(* Ports: bounded queues of messages, guarded by two semaphores.           *)
(*                                                                         *)
(* Interrupts are disabled during each call, so a call is one action up to *)
(* the point where wait() blocks, and another when the process resumes,    *)
(* possibly long after the port was reset, deleted or created again.       *)
(* _ptclear() may lose the CPU whenever it readies a process.              *)
(***************************************************************************)
EXTENDS Calls

CONSTANTS
  NPORTS,     \* entries of the port table
  PT_MSGS,    \* message nodes, the argument of ptinit()
  U16MAX,     \* largest uint16, the type of ptmaxcnt (scaled down)
  PortCounts, \* arguments of ptcreate()
  MaxSeq      \* bound of the model: ptseq does not grow above it

\* ptcreate() refuses a negative count.
ASSUME PortAssumption ==
  /\ NPORTS \in Nat \ {0} /\ PT_MSGS \in Nat /\ U16MAX \in Nat
  /\ PortCounts \subseteq Nat

PT_FREE  == "free"
PT_LIMBO == "limbo"
PT_ALLOC == "alloc"

PortIds == 0..(NPORTS - 1)

VARIABLES
  porttab,    \* porttab[]; ptmsgs is the list from pthead to pttail
  ptfree,     \* number of nodes on the free list
  ptnextid    \* next table entry to try

portVars == <<porttab, ptfree, ptnextid>>

\* (Variant: the sequence number is not compared.)
Fresh_state(c) == porttab[c.port].ptstate = PT_ALLOC

\* The port has neither been cleared nor created again since the call began.
Fresh(c) == porttab[c.port].ptstate = PT_ALLOC /\ porttab[c.port].ptseq = c.seq

PortInit ==
  /\ porttab = [i \in PortIds |->
       [ptstate |-> PT_FREE, ptssem |-> SYSERR, ptrsem |-> SYSERR,
        ptmaxcnt |-> 0, ptseq |-> 0, ptmsgs |-> <<>>]]
  /\ ptfree = PT_MSGS
  /\ ptnextid = 0

-----------------------------------------------------------------------------
(* Creation                                                                *)

FreePorts == {i \in PortIds : porttab[i].ptstate = PT_FREE}

\* The loop over the table finds the first free entry from ptnextid on.
nextport ==
  CHOOSE i \in FreePorts :
    \A j \in FreePorts : (i - ptnextid) % NPORTS <= (j - ptnextid) % NPORTS

\* ptcreate() does not look at what semcreate() returns.
ptcreate(p, count) ==
  /\ InUser(p) /\ FreePorts # {}
  /\ porttab[nextport].ptseq < MaxSeq
  /\ \E s \in NewSem(semtab) :
       LET t == semcreate(semtab, s, count)
       IN  \E r \in NewSem(t) :
             /\ semtab' = semcreate(t, r, 0)
             /\ porttab' = [porttab EXCEPT ![nextport] =
                  [ptstate |-> PT_ALLOC, ptssem |-> s, ptrsem |-> r,
                   ptmaxcnt |-> count % (U16MAX + 1),
                   ptseq |-> @.ptseq + 1, ptmsgs |-> <<>>]]
  /\ ptnextid' = (nextport + 1) % NPORTS
  /\ UNCHANGED <<ptfree, call, masked, panicked, kills>>

-----------------------------------------------------------------------------
(* Sending and receiving                                                   *)

\* The rest of ptsend() after its wait(), with semaphore table t.
deposit(t, i, m) ==
  \/ /\ ptfree = 0
     /\ panicked' = TRUE
     /\ semtab' = t
     /\ UNCHANGED <<porttab, ptfree>>
  \/ /\ ptfree > 0
     /\ ptfree' = ptfree - 1
     /\ porttab' = [porttab EXCEPT ![i].ptmsgs = Append(@, m)]
     /\ semtab' = signal(t, porttab[i].ptrsem)
     /\ UNCHANGED panicked

\* The rest of ptrecv() after its wait(): a port without messages is a NULL
\* pointer that the code follows.
withdrawal(t, i) ==
  /\ porttab[i].ptmsgs # <<>>
  /\ ptfree' = ptfree + 1
  /\ porttab' = [porttab EXCEPT ![i].ptmsgs = Tail(@)]
  /\ semtab' = signal(t, porttab[i].ptssem)
  /\ UNCHANGED panicked

ptsend_now(p, i, m) ==
  LET s == porttab[i].ptssem
  IN  /\ InUser(p) /\ porttab[i].ptstate = PT_ALLOC
      /\ isused(semtab, s) /\ semtab[s].count > 0
      /\ deposit(wait(semtab, s, p), i, m)
      /\ UNCHANGED <<ptnextid, call, masked, kills>>

ptrecv_now(p, i) ==
  LET r == porttab[i].ptrsem
  IN  /\ InUser(p) /\ porttab[i].ptstate = PT_ALLOC
      /\ isused(semtab, r) /\ semtab[r].count > 0
      /\ withdrawal(wait(semtab, r, p), i)
      /\ UNCHANGED <<ptnextid, call, masked, kills>>

\* wait() blocks.
blocked(p, op, i, m, s) ==
  /\ InUser(p) /\ porttab[i].ptstate = PT_ALLOC
  /\ isused(semtab, s) /\ semtab[s].count <= 0
  /\ semtab' = wait(semtab, s, p)
  /\ call' = [call EXCEPT ![p] =
                [op |-> op, port |-> i, seq |-> porttab[i].ptseq, msg |-> m]]
  /\ UNCHANGED <<portVars, masked, panicked, kills>>

ptsend_block(p, i, m) == blocked(p, "ptsend", i, m, porttab[i].ptssem)
ptrecv_block(p, i) == blocked(p, "ptrecv", i, 0, porttab[i].ptrsem)

ptsend_resume(p) ==
  /\ Resumes(p, "ptsend") /\ Fresh(call[p])
  /\ deposit(semtab, call[p].port, call[p].msg)
  /\ Return(p)
  /\ UNCHANGED <<ptnextid, masked, kills>>

ptrecv_resume(p) ==
  /\ Resumes(p, "ptrecv") /\ Fresh(call[p])
  /\ withdrawal(semtab, call[p].port)
  /\ Return(p)
  /\ UNCHANGED <<ptnextid, masked, kills>>

\* wait() has returned because the port was cleared: SYSERR.
pt_stale(p) ==
  /\ Runs(p) /\ call[p].op \in {"ptsend", "ptrecv"} /\ ~Fresh(call[p])
  /\ Return(p)
  /\ UNCHANGED <<portVars, semtab, masked, panicked, kills>>

-----------------------------------------------------------------------------
(* Clearing: ptdelete() and ptreset() call _ptclear()                      *)

ptclear(p, i, newstate) ==
  /\ InUser(p) /\ porttab[i].ptstate = PT_ALLOC
  /\ porttab[i].ptseq < MaxSeq
  /\ porttab' = [porttab EXCEPT ![i].ptstate = PT_LIMBO, ![i].ptseq = @ + 1]
  /\ call' = [call EXCEPT ![p] =
       [op |-> "dispose", port |-> i, newstate |-> newstate,
        walk |-> porttab[i].ptmsgs]]
  /\ masked' = p
  /\ UNCHANGED <<ptfree, ptnextid, semtab, panicked, kills>>

ptdelete(p, i) == ptclear(p, i, PT_FREE)
ptreset(p, i) == ptclear(p, i, PT_ALLOC)

\* (*dispose)(walk->ptmsg), whose effects are the caller's: it may ready a
\* process and lose the CPU, so masked is left to the caller too.
dispose(p) ==
  /\ Resumes(p, "dispose") /\ call[p].walk # <<>>
  /\ call' = [call EXCEPT ![p].walk = Tail(@)]
  /\ UNCHANGED <<portVars, panicked, kills>>

\* (Variant: ptreset() leaves the counts.)
clearsem_noreset(c, s, count) ==
  IF c.newstate = PT_ALLOC THEN semtab ELSE semdelete(semtab, s)

clearsem(c, s, count) ==
  IF c.newstate = PT_ALLOC THEN semreset(semtab, s, count) ELSE semdelete(semtab, s)

\* (Variant: the nodes are lost.)
ptclear_senders_leak(p) ==
  LET c == call[p]
      t == clearsem(c, porttab[c.port].ptssem, porttab[c.port].ptmaxcnt)
  IN  /\ Resumes(p, "dispose") /\ c.walk = <<>>
      /\ porttab' = [porttab EXCEPT ![c.port].ptmsgs = <<>>]
      /\ semtab' = t
      /\ call' = [call EXCEPT ![p].op = "receivers"]
      /\ masked' = Preempts(t, p)
      /\ UNCHANGED <<ptfree, ptnextid, panicked, kills>>

\* The nodes go back to the free list, and the processes that wait for room go.
ptclear_senders(p) ==
  LET c == call[p]
      t == clearsem(c, porttab[c.port].ptssem, porttab[c.port].ptmaxcnt)
  IN  /\ Resumes(p, "dispose") /\ c.walk = <<>>
      /\ ptfree' = ptfree + Len(porttab[c.port].ptmsgs)
      /\ porttab' = [porttab EXCEPT ![c.port].ptmsgs = <<>>]
      /\ semtab' = t
      /\ call' = [call EXCEPT ![p].op = "receivers"]
      /\ masked' = Preempts(t, p)
      /\ UNCHANGED <<ptnextid, panicked, kills>>

ptclear_receivers(p) ==
  LET c == call[p]
      t == clearsem(c, porttab[c.port].ptrsem, 0)
  IN  /\ Resumes(p, "receivers")
      /\ semtab' = t
      /\ call' = [call EXCEPT ![p].op = "newstate"]
      /\ masked' = Preempts(t, p)
      /\ UNCHANGED <<portVars, panicked, kills>>

\* ptdelete() makes the entry the next one to be tried.
ptclear_end(p) ==
  LET c == call[p]
  IN  /\ Resumes(p, "newstate")
      /\ porttab' = [porttab EXCEPT ![c.port].ptstate = c.newstate]
      /\ ptnextid' = IF c.newstate = PT_FREE THEN c.port ELSE ptnextid
      /\ Return(p)
      /\ masked' = None
      /\ UNCHANGED <<ptfree, semtab, panicked, kills>>

\* What ptcount() returns.
ptcount(i) ==
  LET received == semtab[porttab[i].ptrsem].count
      sent == semtab[porttab[i].ptssem].count
  IN  IF received >= 0 /\ sent < 0 THEN received - sent ELSE received
=============================================================================
