------------------------------ MODULE Messages ------------------------------
(***************************************************************************)
(* Processes that pass buffers through ports: the message is the address   *)
(* of a buffer, and freebuf() is the function that ptdelete() and          *)
(* ptreset() dispose of waiting messages with.                             *)
(***************************************************************************)
EXTENDS Ports, BufPool

msgVars == <<portVars, poolVars, callVars>>

otherPool == UNCHANGED <<nbpools, buftab, bpid, allocated>>

gives(p, b) == held' = IF panicked' THEN held ELSE [held EXCEPT ![p] = @ \ {b}]
takes(p, i) == held' = [held EXCEPT ![p] = @ \cup {Head(porttab[i].ptmsgs)}]

send(p, i, b) ==
  /\ b \in held[p]
  /\ \/ ptsend_now(p, i, b) /\ gives(p, b)
     \/ ptsend_block(p, i, b) /\ UNCHANGED held
  /\ otherPool

recv(p, i) ==
  /\ \/ ptrecv_now(p, i) /\ takes(p, i)
     \/ ptrecv_block(p, i) /\ UNCHANGED held
  /\ otherPool

resume(p) ==
  /\ \/ ptsend_resume(p) /\ gives(p, call[p].msg)
     \/ ptrecv_resume(p) /\ takes(p, call[p].port)
     \/ pt_stale(p) /\ UNCHANGED held
  /\ otherPool

\* freebuf() may ready a process that waits for a buffer.
discard(p) ==
  /\ dispose(p)
  /\ release(Head(call[p].walk))
  /\ masked' = Preempts(semtab', p)
  /\ UNCHANGED held

clear(p) ==
  /\ \/ \E i \in PortIds : ptdelete(p, i) \/ ptreset(p, i)
     \/ ptclear_senders(p) \/ ptclear_receivers(p) \/ ptclear_end(p)
  /\ UNCHANGED poolVars

create(p) ==
  /\ \E count \in PortCounts : ptcreate(p, count)
  /\ UNCHANGED poolVars

pool(p) ==
  /\ \/ \E n \in PoolSizes : mkbufpool(p, n)
     \/ \E k \in PoolIds : getbuf_now(p, k) \/ getbuf_block(p, k)
     \/ getbuf_resume(p)
     \/ \E b \in Bufs : freebuf(p, b)
  /\ UNCHANGED portVars

\* The buffers of a killed process are lost, those of its messages are not.
kill(p) ==
  /\ killcaller(p)
  /\ held' = [held EXCEPT ![p] = {}]
  /\ otherPool
  /\ UNCHANGED portVars

MsgInit == SemInit /\ CallInit /\ PortInit /\ PoolInit

MsgStep(p) ==
  \/ create(p) \/ clear(p) \/ discard(p)
  \/ \E i \in PortIds : recv(p, i) \/ \E b \in Bufs : send(p, i, b)
  \/ resume(p)
  \/ pool(p)
  \/ kill(p)

MsgNext ==
  \/ \E p \in Procs : MsgStep(p)
  \/ panic /\ UNCHANGED <<portVars, poolVars>>

MsgSpec == MsgInit /\ [][MsgNext]_msgVars

-----------------------------------------------------------------------------
(* Properties                                                              *)

\* Calls that resume and will take or leave a message.
Granted(op, i) ==
  {p \in Procs : /\ call[p].op = op /\ call[p].port = i
                 /\ ~Waiting(p) /\ Fresh(call[p])}
Blocked(op, i) ==
  {p \in Procs : call[p].op = op /\ call[p].port = i /\ Waiting(p)}

Pos(n) == IF n > 0 THEN n ELSE 0
Working(i) ==
  /\ ~panicked /\ porttab[i].ptstate = PT_ALLOC
  /\ porttab[i].ptssem # SYSERR /\ porttab[i].ptrsem # SYSERR

\* There is a message for every receiver that a signal has released, also if others
\* receive before it resumes: ptrecv() follows pthead without looking (ptrecv.c:36).
\* The room that is left, the room promised to senders and the messages add up to the
\* size of the port, through resets and senders that resume too late (ptsend.c:31).
\* Only the death of a process may leave a message or room behind.  And ptcount() is
\* minus the number of blocked receivers, also while a message waits for a receiver
\* that has been released; otherwise it counts the messages nobody has been promised
\* and the blocked senders (ptcount.c:31).
PortsAccounted ==
  \A i \in PortIds : Working(i) =>
    LET e == porttab[i]
        messages == Len(e.ptmsgs)
        owed == Pos(semtab[e.ptrsem].count) + Cardinality(Granted("ptrecv", i))
        room == Pos(semtab[e.ptssem].count) + Cardinality(Granted("ptsend", i))
        receivers == Cardinality(Blocked("ptrecv", i))
    IN  /\ owed <= messages /\ room + messages <= e.ptmaxcnt
        /\ kills = 0 =>
             /\ owed = messages /\ room + messages = e.ptmaxcnt
             /\ ptcount(i) =
                  IF receivers > 0 THEN -receivers
                  ELSE messages - Cardinality(Granted("ptrecv", i))
                       + Cardinality(Blocked("ptsend", i))

\* The message nodes on the lists of the ports, and those the ports that exist may use.
NodesInUse == UNION {{i} \X (1..Len(porttab[i].ptmsgs)) : i \in PortIds}
NodesAllowed == UNION {{i} \X (1..porttab[i].ptmaxcnt) : i \in PortIds \ FreePorts}

\* Message nodes come back from every port that is cleared (ptclear.c:36), and "Port
\* system ran out of message nodes" (ptsend.c:39) only if the ports that exist may
\* hold more messages than there are nodes, a port that is being cleared among them.
NodesConserved ==
  /\ ptfree + Cardinality(NodesInUse) = PT_MSGS
  /\ panicked => Cardinality(NodesAllowed) > PT_MSGS

\* getbuf() does not look at what wait() returned (getbuf.c:30), and yet finds
\* a buffer: the ones on the list cover the count and the processes released.
BuffersCovered ==
  \A k \in 0..(nbpools - 1) :
    LET owed == Pos(semtab[buftab[k].bpsem].count)
                + Cardinality({p \in Procs : /\ ~Waiting(p) /\ call[p].op = "getbuf"
                                             /\ call[p].pool = k})
    IN  /\ owed <= Len(buftab[k].bpnext)
        /\ kills = 0 => owed = Len(buftab[k].bpnext)

\* Where buffer b is.  A message that _ptclear() has still to dispose of is on
\* the list it walks.
BufferPlaces(b) ==
  Cardinality({k \in PoolIds : b \in Range(buftab[k].bpnext)})
  + Cardinality({p \in Procs : b \in held[p]})
  + Cardinality({i \in PortIds : porttab[i].ptstate = PT_ALLOC
                                 /\ b \in Range(porttab[i].ptmsgs)})
  + Cardinality({p \in Procs : call[p].op = "dispose" /\ b \in Range(call[p].walk)})

\* A buffer is never in two places, and only the death of its owner loses it:
\* not a sender that is refused, nor a port that is cleared (ptclear.c:31).
BuffersSomewhere ==
  \A b \in 1..allocated :
    /\ BufferPlaces(b) <= 1
    /\ kills = 0 => BufferPlaces(b) = 1

\* The buffers of the pools are accounted for, on the lists and elsewhere
\* (getbuf.c:30, freebuf.c:33, ptclear.c:31).
BuffersAccounted == BuffersCovered /\ BuffersSomewhere

\* Nobody goes on waiting for a port that has been cleared: semdelete() and
\* semreset() release every process, also the ones that came before an earlier
\* reset.  Only while the port is in limbo, for ever if the process that clears
\* it is killed half way, do processes wait for what has ended (ptclear.c:40).
NobodyWaitsInVain ==
  \A p \in Procs :
    call[p].op \in {"ptsend", "ptrecv"} /\ Waiting(p)
    => Fresh(call[p]) \/ porttab[call[p].port].ptstate = PT_LIMBO

\* Every port is a bounded FIFO channel in which a late sender or receiver does
\* not touch a later incarnation (ptsend.c:33, ptrecv.c:30).
AbstractCall(c) ==
  CASE c.op = "ptsend" -> [op |-> "send", chan |-> c.port, inc |-> c.seq]
    [] c.op = "ptrecv" -> [op |-> "recv", chan |-> c.port, inc |-> c.seq]
    [] OTHER -> [op |-> "none"]

Channel ==
  INSTANCE PortChannel WITH
    Chans <- PortIds, Users <- Procs, Items <- Bufs,
    chan <- [i \in PortIds |->
               [open  |-> porttab[i].ptstate = PT_ALLOC,
                inc   |-> porttab[i].ptseq,
                size  |-> porttab[i].ptmaxcnt,
                items |-> porttab[i].ptmsgs]],
    pend <- [p \in Procs |-> AbstractCall(call[p])]

PortsAreChannels == Channel!ChanSpec
=============================================================================
