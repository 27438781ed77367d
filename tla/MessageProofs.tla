---------------------------- MODULE MessageProofs ----------------------------
(***************************************************************************)
(* Theorems about Messages, for any number of processes, semaphores,       *)
(* ports, message nodes, pools and buffers, and about Marks, the other     *)
(* client of the semaphores, for any number of processes and locations and *)
(* any size of the table.                                                  *)
(***************************************************************************)
EXTENDS Messages, Marks, SemTableProofs

-----------------------------------------------------------------------------
(* The inductive invariant                                                 *)

PortEntries ==
  [ptstate : {PT_FREE, PT_LIMBO, PT_ALLOC},
   ptssem : SemIds \cup {SYSERR}, ptrsem : SemIds \cup {SYSERR},
   ptmaxcnt : Nat, ptseq : Nat, ptmsgs : Seq(Bufs)]
PoolEntries == [bpsem : SemIds \cup {SYSERR}, bpnext : Seq(Bufs)]

SendCalls == [op : {"ptsend"}, port : PortIds, seq : Nat, msg : Bufs]
RecvCalls == [op : {"ptrecv"}, port : PortIds, seq : Nat, msg : {0}]
ClearCalls == [op : {"dispose", "receivers", "newstate"}, port : PortIds,
               newstate : {PT_FREE, PT_ALLOC}, walk : Seq(Bufs)]
GetCalls == [op : {"getbuf"}, pool : PoolIds]
CallRecords == {Idle} \cup SendCalls \cup RecvCalls \cup ClearCalls \cup GetCalls

MsgTypes ==
  /\ porttab \in [PortIds -> PortEntries] /\ ptfree \in Nat /\ ptnextid \in PortIds
  /\ call \in [Procs -> CallRecords]
  /\ panicked \in BOOLEAN /\ kills \in Nat
  /\ nbpools \in 0..NBPOOLS /\ buftab \in [PoolIds -> PoolEntries]
  /\ bpid \in [Bufs -> Int] /\ allocated \in 0..NBUFS
  /\ held \in [Procs -> SUBSET Bufs]
  /\ SemTable(semtab)

Clearing(p, i) == call[p].op \in {"dispose", "receivers", "newstate"} /\ call[p].port = i

\* A port has one process that clears it, and is in limbo meanwhile.
ClearInv ==
  /\ \A p \in Procs, i \in PortIds : Clearing(p, i) =>
       /\ porttab[i].ptstate = PT_LIMBO
       /\ call[p].op # "dispose" => porttab[i].ptmsgs = <<>>
  /\ \A p, q \in Procs, i \in PortIds : Clearing(p, i) /\ Clearing(q, i) => p = q
  /\ \A i \in PortIds : porttab[i].ptstate = PT_FREE => porttab[i].ptmsgs = <<>>

\* A call on a port that is not in use is an old one.
SeqInv ==
  \A p \in Procs : call[p].op \in {"ptsend", "ptrecv"} =>
    /\ call[p].seq <= porttab[call[p].port].ptseq
    /\ porttab[call[p].port].ptstate # PT_ALLOC =>
         call[p].seq < porttab[call[p].port].ptseq

\* A use of a semaphore: by the senders or the receivers of a port, or by a pool.
SendUse(i) == <<"ptsend", i>>
RecvUse(i) == <<"ptrecv", i>>
PoolUse(k) == <<"getbuf", k>>
Uses == {SendUse(i) : i \in PortIds} \cup {RecvUse(i) : i \in PortIds}
          \cup {PoolUse(k) : k \in PoolIds}

\* The semaphores that nobody else will be given: those of the ports in use, those
\* that a process which clears a port has not deleted yet or will not delete,
\* and those of the pools.
Keeps(i, ops) ==
  \E p \in Procs : Clearing(p, i) /\ (call[p].op \in ops \/ call[p].newstate = PT_ALLOC)
SendLive(i) ==
  porttab[i].ptssem # SYSERR /\ (porttab[i].ptstate = PT_ALLOC \/ Keeps(i, {"dispose"}))
RecvLive(i) ==
  /\ porttab[i].ptrsem # SYSERR
  /\ porttab[i].ptstate = PT_ALLOC \/ Keeps(i, {"dispose", "receivers"})

Live(u) ==
  \/ u[1] = "ptsend" /\ SendLive(u[2])
  \/ u[1] = "ptrecv" /\ RecvLive(u[2])
  \/ u[1] = "getbuf" /\ u[2] < nbpools
SemOf(u) ==
  IF u[1] = "ptsend" THEN porttab[u[2]].ptssem
  ELSE IF u[1] = "ptrecv" THEN porttab[u[2]].ptrsem
  ELSE buftab[u[2]].bpsem

\* The process in call c uses a semaphore, and this is the use.
Using(c) == c.op \in {"ptsend", "ptrecv", "getbuf"}
UseOf(c) == <<c.op, IF c.op = "getbuf" THEN c.pool ELSE c.port>>
UsersOf(u) == {p \in Procs : Using(call[p]) /\ UseOf(call[p]) = u}

\* Each use that is live has a semaphore of its own, on which its callers wait and
\* nobody else; and callers wait on no other.
OwnInv ==
  /\ \A u \in Uses : Live(u) =>
       isused(semtab, SemOf(u)) /\ OnQueue(semtab, SemOf(u)) \subseteq UsersOf(u)
  /\ \A u, v \in Uses : Live(u) /\ Live(v) /\ SemOf(u) = SemOf(v) => u = v
  /\ \A s \in SemIds : \A p \in OnQueue(semtab, s) :
       Using(call[p]) /\ s = SemOf(UseOf(call[p]))
  /\ \A p \in Procs : call[p].op = "getbuf" => call[p].pool < nbpools

\* Who waits for a port waits for its present incarnation, or for one that is in
\* limbo and whose clearing has not come to the semaphore yet.
WaitInv ==
  \A p \in Procs : Waiting(p) =>
    /\ call[p].op = "ptsend" =>
         \/ Fresh(call[p])
         \/ /\ porttab[call[p].port].ptstate = PT_LIMBO
            /\ \A q \in Procs : Clearing(q, call[p].port) => call[q].op = "dispose"
    /\ call[p].op = "ptrecv" =>
         \/ Fresh(call[p])
         \/ /\ porttab[call[p].port].ptstate = PT_LIMBO
            /\ \A q \in Procs :
                 Clearing(q, call[p].port) => call[q].op \in {"dispose", "receivers"}

\* A buffer that is not on a free list knows its pool.
Known == {b \in Bufs : bpid[b] \in PoolIds /\ bpid[b] < nbpools}
KnownCall(c) ==
  /\ c.op = "dispose" => Range(c.walk) \subseteq Known
  /\ c.op = "ptsend" => c.msg \in Known
KnownInv ==
  /\ \A p \in Procs : held[p] \subseteq Known /\ KnownCall(call[p])
  /\ \A i \in PortIds : Range(porttab[i].ptmsgs) \subseteq Known

\* A port that processes wait for, and that has not been cleared since, has semaphores.
FreshInv ==
  \A p \in Procs :
    /\ call[p].op = "ptsend" /\ Fresh(call[p]) => porttab[call[p].port].ptssem # SYSERR
    /\ call[p].op = "ptrecv" /\ Fresh(call[p]) => porttab[call[p].port].ptrsem # SYSERR

\* Who may wait where.
MInv == MsgTypes /\ ClearInv /\ SeqInv /\ OwnInv /\ WaitInv /\ FreshInv

-----------------------------------------------------------------------------
(* Calls and uses                                                          *)

LEMMA CallKinds ==
  ASSUME NEW c \in CallRecords
  PROVE  /\ c.op = "ptsend" => c \in SendCalls
         /\ c.op = "ptrecv" => c \in RecvCalls
         /\ c.op \in {"dispose", "receivers", "newstate"} => c \in ClearCalls
         /\ c.op = "getbuf" => c \in GetCalls
         /\ c.op = "user" => c = Idle
         /\ c.op \in {"ptsend", "ptrecv", "dispose", "receivers", "newstate", "getbuf", "user"}
<1>1. Idle.op = "user"
  BY DEF Idle
<1>2. CASE c = Idle
  BY <1>1, <1>2
<1>3. CASE c \in SendCalls
  BY <1>3 DEF SendCalls
<1>4. CASE c \in RecvCalls
  BY <1>4 DEF RecvCalls
<1>5. CASE c \in ClearCalls
  BY <1>5 DEF ClearCalls
<1>6. CASE c \in GetCalls
  BY <1>6 DEF GetCalls
<1> QED BY <1>2, <1>3, <1>4, <1>5, <1>6 DEF CallRecords

LEMMA UseNames ==
  /\ \A u \in Uses : \/ \E i \in PortIds : u = SendUse(i) \/ u = RecvUse(i)
                     \/ \E k \in PoolIds : u = PoolUse(k)
  /\ \A i \in PortIds : SendUse(i) \in Uses /\ RecvUse(i) \in Uses
  /\ \A k \in PoolIds : PoolUse(k) \in Uses
  /\ \A i, j : (SendUse(i) = SendUse(j) => i = j) /\ (RecvUse(i) = RecvUse(j) => i = j)
                 /\ (PoolUse(i) = PoolUse(j) => i = j)
  /\ \A i, j : SendUse(i) # RecvUse(j) /\ SendUse(i) # PoolUse(j) /\ RecvUse(i) # PoolUse(j)
BY DEF Uses, SendUse, RecvUse, PoolUse

LEMMA UseFacts ==
  /\ \A i : (Live(SendUse(i)) <=> SendLive(i)) /\ (Live(RecvUse(i)) <=> RecvLive(i))
  /\ \A k : Live(PoolUse(k)) <=> k < nbpools
  /\ \A i : SemOf(SendUse(i)) = porttab[i].ptssem /\ SemOf(RecvUse(i)) = porttab[i].ptrsem
  /\ \A k : SemOf(PoolUse(k)) = buftab[k].bpsem
  /\ \A c : /\ c.op = "ptsend" => UseOf(c) = SendUse(c.port) /\ Using(c)
            /\ c.op = "ptrecv" => UseOf(c) = RecvUse(c.port) /\ Using(c)
            /\ c.op = "getbuf" => UseOf(c) = PoolUse(c.pool) /\ Using(c)
            /\ Using(c) => c.op \in {"ptsend", "ptrecv", "getbuf"}
BY DEF Live, SemOf, SendUse, RecvUse, PoolUse, UseOf, Using

LEMMA UseFactsNext ==
  /\ \A i : (Live(SendUse(i))' <=> SendLive(i)') /\ (Live(RecvUse(i))' <=> RecvLive(i)')
  /\ \A k : Live(PoolUse(k))' <=> k < nbpools'
  /\ \A i : SemOf(SendUse(i))' = porttab'[i].ptssem /\ SemOf(RecvUse(i))' = porttab'[i].ptrsem
  /\ \A k : SemOf(PoolUse(k))' = buftab'[k].bpsem
BY DEF Live, SemOf, SendUse, RecvUse, PoolUse

LEMMA UseOfInUses ==
  ASSUME NEW c \in CallRecords, Using(c)
  PROVE  UseOf(c) \in Uses
<1>1. CASE c.op = "ptsend"
  <2>1. c.port \in PortIds
    BY <1>1, CallKinds DEF SendCalls
  <2> QED BY <1>1, <2>1, UseFacts, UseNames
<1>2. CASE c.op = "ptrecv"
  <2>1. c.port \in PortIds
    BY <1>2, CallKinds DEF RecvCalls
  <2> QED BY <1>2, <2>1, UseFacts, UseNames
<1>3. CASE c.op = "getbuf"
  <2>1. c.pool \in PoolIds
    BY <1>3, CallKinds DEF GetCalls
  <2> QED BY <1>3, <2>1, UseFacts, UseNames
<1> QED BY <1>1, <1>2, <1>3 DEF Using

-----------------------------------------------------------------------------
(* Steps that leave the semaphores to their users                          *)

\* Waiting after a step.
LEMMA WaitingNext ==
  /\ \A p : Waiting(p) <=> \E s \in SemIds : p \in OnQueue(semtab, s)
  /\ \A p : Waiting(p)' <=> \E s \in SemIds : p \in OnQueue(semtab', s)
BY DEF Waiting, WaitsIn, OnQueue

\* The use of use u goes on with the semaphore it had, or begins with one that was
\* free.
GoesOn(u) == Live(u) /\ SemOf(u)' = SemOf(u)
Begins(u) == ~isused(semtab, SemOf(u)')

LEMMA OwnKept ==
  ASSUME MInv, SemTable(semtab'), call' \in [Procs -> CallRecords],
         \A u \in Uses : Live(u)' => isused(semtab', SemOf(u)') /\ (GoesOn(u) \/ Begins(u)),
         \A u, v \in Uses : Live(u)' /\ Live(v)' /\ Begins(u) /\ Begins(v)
                              /\ SemOf(u)' = SemOf(v)' => u = v,
         \A s \in SemIds : OnQueue(semtab', s) \subseteq OnQueue(semtab, s),
         \A q \in Procs : Waiting(q)' => call'[q] = call[q],
         \A q \in Procs : Waiting(q)' /\ Using(call[q]) =>
                            SemOf(UseOf(call[q]))' = SemOf(UseOf(call[q])),
         \A q \in Procs : call'[q].op = "getbuf" => call'[q].pool < nbpools'
  PROVE  OwnInv'
<1>0. SemTable(semtab) /\ OwnInv
  BY DEF MInv, MsgTypes
<1>1. ASSUME NEW u \in Uses, Live(u)'
      PROVE  OnQueue(semtab', SemOf(u)') \subseteq UsersOf(u)'
  <2> DEFINE s == SemOf(u)'
  <2>1. s \in SemIds
    BY <1>1 DEF isused
  <2> SUFFICES ASSUME NEW q \in OnQueue(semtab', s) PROVE q \in UsersOf(u)'
    OBVIOUS
  <2>2. q \in OnQueue(semtab, s) /\ Waiting(q)' /\ q \in Procs
    BY <2>1, <1>0, SemQueue, WaitingNext
  <2>3. call'[q] = call[q]
    BY <2>2
  <2>4. GoesOn(u)
    <3>1. CASE Begins(u)
      <4>1. semtab[s] = Unused
        BY <1>0, <2>1, <3>1 DEF SemTable, Begins, isused
      <4>2. OnQueue(semtab, s) = {}
        BY <4>1, UnusedEntry DEF OnQueue, Lists
      <4> QED BY <2>2, <4>2
    <3> QED BY <1>1, <3>1
  <2>5. q \in UsersOf(u)
    BY <1>0, <2>2, <2>4 DEF OwnInv, GoesOn
  <2> QED BY <2>3, <2>5 DEF UsersOf
<1>2. ASSUME NEW u \in Uses, NEW v \in Uses, Live(u)', Live(v)', SemOf(u)' = SemOf(v)'
      PROVE  u = v
  <2>1. CASE GoesOn(u) /\ GoesOn(v)
    BY <1>0, <1>2, <2>1 DEF OwnInv, GoesOn
  <2>2. CASE GoesOn(u) /\ Begins(v)
    BY <1>0, <1>2, <2>2 DEF OwnInv, GoesOn, Begins
  <2>3. CASE GoesOn(v) /\ Begins(u)
    BY <1>0, <1>2, <2>3 DEF OwnInv, GoesOn, Begins
  <2>4. CASE Begins(u) /\ Begins(v)
    BY <1>2, <2>4
  <2> QED BY <1>2, <2>1, <2>2, <2>3, <2>4
<1>3. ASSUME NEW s \in SemIds, NEW q \in OnQueue(semtab', s)
      PROVE  Using(call'[q]) /\ s = SemOf(UseOf(call[q]))'
  <2>1. q \in OnQueue(semtab, s) /\ Waiting(q)' /\ q \in Procs
    BY <1>0, SemQueue, WaitingNext
  <2>2. Using(call[q]) /\ s = SemOf(UseOf(call[q]))
    BY <1>0, <2>1 DEF OwnInv
  <2>3. call'[q] = call[q] /\ SemOf(UseOf(call[q]))' = SemOf(UseOf(call[q]))
    BY <2>1, <2>2
  <2> QED BY <2>2, <2>3
<1> QED BY <1>1, <1>2, <1>3 DEF OwnInv

\* Ports keep their state and their semaphores, pools their semaphores.
SamePorts ==
  \A i \in PortIds :
    /\ porttab'[i].ptstate = porttab[i].ptstate /\ porttab'[i].ptseq = porttab[i].ptseq
    /\ porttab'[i].ptssem = porttab[i].ptssem /\ porttab'[i].ptrsem = porttab[i].ptrsem
    /\ porttab'[i].ptmaxcnt = porttab[i].ptmaxcnt
SamePools == nbpools' = nbpools /\ \A k \in PoolIds : buftab'[k].bpsem = buftab[k].bpsem

\* Only ports in use get or lose messages.
FairMessages ==
  \A i \in PortIds :
    porttab'[i].ptmsgs = porttab[i].ptmsgs \/ porttab[i].ptstate = PT_ALLOC

\* Nobody begins to wait.
Eases ==
  /\ SemTable(semtab')
  /\ \A s \in SemIds :
       semtab'[s].used = semtab[s].used /\ OnQueue(semtab', s) \subseteq OnQueue(semtab, s)

\* Process q does not begin to use a semaphore or to clear a port, nor does it get on
\* with clearing one.
StaysOut(q) ==
  /\ ~Waiting(q)' /\ ~Using(call'[q])
  /\ \A i \in PortIds : Clearing(q, i)' =>
       Clearing(q, i) /\ call'[q].op = call[q].op /\ call'[q].newstate = call[q].newstate

Steady ==
  /\ SamePorts /\ SamePools /\ FairMessages /\ Eases
  /\ \A q \in Procs : call'[q] = call[q] \/ StaysOut(q)

LEMMA ClearingKept ==
  ASSUME \A q \in Procs : call'[q] = call[q] \/ StaysOut(q), NEW q \in Procs, NEW i \in PortIds,
         Clearing(q, i)'
  PROVE  Clearing(q, i) /\ call'[q].op = call[q].op /\ call'[q].newstate = call[q].newstate
<1>1. CASE call'[q] = call[q]
  BY <1>1 DEF Clearing
<1>2. CASE StaysOut(q)
  BY <1>2 DEF StaysOut
<1> QED BY <1>1, <1>2

LEMMA LiveKept ==
  ASSUME SamePorts, SamePools, \A q \in Procs : call'[q] = call[q] \/ StaysOut(q)
  PROVE  \A u \in Uses : SemOf(u)' = SemOf(u) /\ (Live(u)' => Live(u))
<1>1. ASSUME NEW i \in PortIds, NEW ops, Keeps(i, ops)' PROVE Keeps(i, ops)
  <2>1. PICK q \in Procs :
          Clearing(q, i)' /\ (call'[q].op \in ops \/ call'[q].newstate = PT_ALLOC)
    BY <1>1 DEF Keeps
  <2> QED BY <2>1, ClearingKept DEF Keeps
<1>2. ASSUME NEW i \in PortIds
      PROVE  /\ SemOf(SendUse(i))' = SemOf(SendUse(i)) /\ SemOf(RecvUse(i))' = SemOf(RecvUse(i))
             /\ Live(SendUse(i))' => Live(SendUse(i))
             /\ Live(RecvUse(i))' => Live(RecvUse(i))
  BY <1>1, UseFacts, UseFactsNext DEF SamePorts, SendLive, RecvLive
<1>3. ASSUME NEW k \in PoolIds
      PROVE  /\ SemOf(PoolUse(k))' = SemOf(PoolUse(k))
             /\ Live(PoolUse(k))' => Live(PoolUse(k))
  BY UseFacts, UseFactsNext DEF SamePools
<1> QED BY <1>2, <1>3, UseNames

LEMMA SteadyStep ==
  ASSUME MInv, MsgTypes', Steady
  PROVE  MInv'
<1>0. /\ call \in [Procs -> CallRecords] /\ call' \in [Procs -> CallRecords]
      /\ SemTable(semtab) /\ SemTable(semtab')
  BY DEF MInv, MsgTypes
<1>1. \A q \in Procs : call'[q] = call[q] \/ StaysOut(q)
  BY DEF Steady
<1>2. ASSUME NEW q \in Procs, Waiting(q)'
      PROVE  Waiting(q) /\ call'[q] = call[q]
  <2>1. Waiting(q)
    BY <1>2, WaitingNext DEF Steady, Eases
  <2> QED BY <1>1, <1>2, <2>1 DEF StaysOut
<1>3. ASSUME NEW q \in Procs, Using(call'[q]) PROVE call'[q] = call[q]
  BY <1>1, <1>3 DEF StaysOut
<1>4. OwnInv'
  <2>1. \A u \in Uses : SemOf(u)' = SemOf(u) /\ (Live(u)' => Live(u))
    BY <1>1, LiveKept DEF Steady
  <2>2. \A u \in Uses : Live(u)' => isused(semtab', SemOf(u)') /\ GoesOn(u)
    BY <2>1 DEF Steady, Eases, MInv, OwnInv, isused, GoesOn
  <2>3. \A u, v \in Uses : Live(u)' /\ Live(v)' /\ Begins(u) /\ Begins(v)
                              /\ SemOf(u)' = SemOf(v)' => u = v
    BY <2>1 DEF MInv, OwnInv
  <2>4. \A q \in Procs : Waiting(q)' /\ Using(call[q]) =>
                            SemOf(UseOf(call[q]))' = SemOf(UseOf(call[q]))
    <3> SUFFICES ASSUME NEW q \in Procs, Waiting(q)', Using(call[q])
                 PROVE  SemOf(UseOf(call[q]))' = SemOf(UseOf(call[q]))
      OBVIOUS
    <3>1. UseOf(call[q]) \in Uses
      BY <1>0, UseOfInUses
    <3>2. call'[q] = call[q]
      BY <1>2
    <3> DEFINE u == UseOf(call[q])
    <3>3. \E v \in Uses : v = u
      BY <3>1
    <3>4. PICK v \in Uses : v = u
      BY <3>3
    <3>5. UseOf(call[q])' = v
      BY <3>2, <3>4 DEF UseOf
    <3>6. SemOf(v)' = SemOf(v)
      BY <2>1
    <3>7. SemOf(UseOf(call[q]))' = SemOf(v)'
      BY <3>5 DEF SemOf
    <3> QED BY <3>4, <3>6, <3>7
  <2>5. \A q \in Procs : call'[q].op = "getbuf" => call'[q].pool < nbpools'
    BY <1>3 DEF MInv, OwnInv, Steady, SamePools, Using
  <2> QED BY <1>0, <1>2, <2>2, <2>3, <2>4, <2>5, OwnKept DEF Steady, Eases
<1>5. SeqInv'
  <2> SUFFICES ASSUME NEW q \in Procs, call'[q].op \in {"ptsend", "ptrecv"}
               PROVE  /\ call'[q].seq <= porttab'[call'[q].port].ptseq
                      /\ porttab'[call'[q].port].ptstate # PT_ALLOC =>
                           call'[q].seq < porttab'[call'[q].port].ptseq
    BY DEF SeqInv
  <2>1. call'[q] = call[q]
    BY <1>3 DEF Using
  <2>2. call[q].port \in PortIds
    BY <1>0, <2>1, CallKinds DEF SendCalls, RecvCalls
  <2> QED BY <2>1, <2>2 DEF MInv, SeqInv, Steady, SamePorts
<1>6. WaitInv'
  <2> SUFFICES ASSUME NEW q \in Procs, Waiting(q)'
      PROVE  /\ call'[q].op = "ptsend" =>
                 \/ Fresh(call[q])'
                 \/ /\ porttab'[call'[q].port].ptstate = PT_LIMBO
                    /\ \A r \in Procs : Clearing(r, call[q].port)' => call'[r].op = "dispose"
             /\ call'[q].op = "ptrecv" =>
                 \/ Fresh(call[q])'
                 \/ /\ porttab'[call'[q].port].ptstate = PT_LIMBO
                    /\ \A r \in Procs : Clearing(r, call[q].port)' =>
                         call'[r].op \in {"dispose", "receivers"}
    BY DEF WaitInv
  <2>1. Waiting(q) /\ call'[q] = call[q]
    BY <1>2
  <2> SUFFICES ASSUME call[q].op \in {"ptsend", "ptrecv"}
      PROVE  /\ call[q].op = "ptsend" =>
                 \/ Fresh(call[q])'
                 \/ /\ porttab'[call[q].port].ptstate = PT_LIMBO
                    /\ \A r \in Procs : Clearing(r, call[q].port)' => call'[r].op = "dispose"
             /\ call[q].op = "ptrecv" =>
                 \/ Fresh(call[q])'
                 \/ /\ porttab'[call[q].port].ptstate = PT_LIMBO
                    /\ \A r \in Procs : Clearing(r, call[q].port)' =>
                         call'[r].op \in {"dispose", "receivers"}
    BY <2>1
  <2>2. call[q].port \in PortIds
    BY <1>0, <2>1, CallKinds DEF SendCalls, RecvCalls
  <2>3. PICK i \in PortIds : call[q].port = i /\ call'[q].port = i
    BY <2>1, <2>2
  <2>4. Fresh(call[q]) => Fresh(call[q])'
    BY <2>1, <2>3 DEF Fresh, Steady, SamePorts
  <2>5. \A r \in Procs : Clearing(r, i)' => Clearing(r, i) /\ call'[r].op = call[r].op
    BY <1>1, ClearingKept
  <2>6. porttab'[i].ptstate = porttab[i].ptstate
    BY DEF Steady, SamePorts
  <2>7. \A r \in Procs : Clearing(r, call[q].port)' => Clearing(r, i)'
    BY <2>3 DEF Clearing
  <2> QED BY <2>1, <2>3, <2>4, <2>5, <2>6, <2>7 DEF MInv, WaitInv
<1>7. ClearInv'
  <2>1. ASSUME NEW q \in Procs, NEW i \in PortIds, Clearing(q, i)'
        PROVE  /\ porttab'[i].ptstate = PT_LIMBO
               /\ call'[q].op # "dispose" => porttab'[i].ptmsgs = <<>>
    <3>1. Clearing(q, i) /\ call'[q].op = call[q].op
      BY <1>1, <2>1, ClearingKept
    <3>2. porttab[i].ptstate = PT_LIMBO /\ porttab'[i].ptstate = PT_LIMBO
      BY <3>1 DEF MInv, ClearInv, Steady, SamePorts
    <3>3. porttab'[i].ptmsgs = porttab[i].ptmsgs
      BY <3>2 DEF Steady, FairMessages, PT_LIMBO, PT_ALLOC
    <3> QED BY <3>1, <3>2, <3>3 DEF MInv, ClearInv
  <2>2. ASSUME NEW q \in Procs, NEW r \in Procs, NEW i \in PortIds,
               Clearing(q, i)', Clearing(r, i)'
        PROVE  q = r
    BY <1>1, <2>2, ClearingKept DEF MInv, ClearInv
  <2>3. ASSUME NEW i \in PortIds
        PROVE  porttab'[i].ptstate = PT_FREE => porttab'[i].ptmsgs = <<>>
    BY DEF MInv, ClearInv, Steady, SamePorts, FairMessages, PT_FREE, PT_ALLOC
  <2> QED BY <2>1, <2>2, <2>3 DEF ClearInv
<1>8. FreshInv'
  <2> SUFFICES ASSUME NEW q \in Procs, call'[q].op \in {"ptsend", "ptrecv"}, Fresh(call[q])'
      PROVE  /\ call'[q].op = "ptsend" => porttab'[call'[q].port].ptssem # SYSERR
             /\ call'[q].op = "ptrecv" => porttab'[call'[q].port].ptrsem # SYSERR
    BY DEF FreshInv
  <2>1. call'[q] = call[q]
    BY <1>3 DEF Using
  <2>2. call[q].port \in PortIds
    BY <1>0, <2>1, CallKinds DEF SendCalls, RecvCalls
  <2>3. Fresh(call[q])
    BY <2>1, <2>2 DEF Fresh, Steady, SamePorts
  <2> QED BY <2>1, <2>2, <2>3 DEF MInv, FreshInv, Steady, SamePorts
<1> QED BY <1>4, <1>5, <1>6, <1>7, <1>8 DEF MInv

-----------------------------------------------------------------------------
(* A process begins to wait                                                *)

\* Process p begins to wait for use u of a semaphore.
Joins(p, u) ==
  /\ call[p] = Idle /\ ~Waiting(p)
  /\ u \in Uses /\ Live(u) /\ semtab[SemOf(u)].count <= 0
  /\ semtab' = wait(semtab, SemOf(u), p)
  /\ Using(call'[p]) /\ UseOf(call'[p]) = u
  /\ call'[p].op \in {"ptsend", "ptrecv"} => Fresh(call'[p])
  /\ \A q \in Procs : q # p => call'[q] = call[q]
  /\ UNCHANGED <<porttab, buftab, nbpools>>

LEMMA JoinTable ==
  ASSUME MInv, NEW p \in Procs, NEW u, Joins(p, u)
  PROVE  LET s == SemOf(u)
         IN  /\ SemTable(semtab') /\ OnlyChanges(semtab, semtab', s) /\ s \in SemIds
             /\ semtab[s].used /\ semtab'[s].used /\ semtab'[s].count = semtab[s].count - 1
             /\ OnQueue(semtab', s) = OnQueue(semtab, s) \cup {p}
             /\ \A r \in SemIds : r # s => OnQueue(semtab', r) = OnQueue(semtab, r)
             /\ \A r \in SemIds : semtab'[r].used = semtab[r].used
<1> DEFINE s == SemOf(u)
<1>1. s \in SemIds /\ semtab[s].used
  BY DEF Joins, MInv, OwnInv, isused
<1>2. SemTable(semtab) /\ ~WaitsIn(semtab, p) /\ semtab[s].count <= 0
         /\ semtab' = wait(semtab, s, p)
  BY DEF MInv, MsgTypes, Joins, Waiting
<1> HIDE DEF s
<1>3. /\ SemTable(semtab') /\ OnlyChanges(semtab, semtab', s)
      /\ semtab'[s].used /\ semtab'[s].count = semtab[s].count - 1
      /\ OnQueue(semtab', s) = OnQueue(semtab, s) \cup {p}
  BY <1>1, <1>2, WaitTable
<1>4. \A r \in SemIds : r # s => OnQueue(semtab', r) = OnQueue(semtab, r)
  BY <1>3 DEF OnlyChanges, OnQueue
<1>5. \A r \in SemIds : semtab'[r].used = semtab[r].used
  BY <1>1, <1>3 DEF OnlyChanges, SemTable, SemEntries
<1> QED BY <1>1, <1>3, <1>4, <1>5 DEF s

LEMMA JoinCalls ==
  ASSUME NEW p \in Procs, NEW u, Joins(p, u)
  PROVE  /\ \A q, i : Clearing(q, i)' /\ q \in Procs => Clearing(q, i) /\ call'[q] = call[q]
         /\ \A q \in Procs : Using(call[q]) => call'[q] = call[q]
         /\ \A v \in Uses : SemOf(v)' = SemOf(v) /\ (Live(v)' => Live(v))
<1>1. \A q \in Procs : Using(call[q]) => call'[q] = call[q]
  BY DEF Joins, Using, Idle
<1>2. ASSUME NEW q \in Procs, NEW i, Clearing(q, i)'
      PROVE  Clearing(q, i) /\ call'[q] = call[q]
  BY <1>2 DEF Joins, Using, Clearing
<1>3. \A v \in Uses : SemOf(v)' = SemOf(v)
  BY DEF Joins, SemOf
<1>4. ASSUME NEW i, NEW ops, Keeps(i, ops)' PROVE Keeps(i, ops)
  BY <1>2, <1>4 DEF Keeps
<1>5. ASSUME NEW v \in Uses, Live(v)' PROVE Live(v)
  BY <1>4, <1>5 DEF Live, SendLive, RecvLive, Joins
<1> QED BY <1>1, <1>2, <1>3, <1>5

LEMMA JoinStep ==
  ASSUME MInv, MsgTypes', NEW p \in Procs, NEW u, Joins(p, u)
  PROVE  MInv'
<1> DEFINE s == SemOf(u)
<1>0. /\ call \in [Procs -> CallRecords] /\ call' \in [Procs -> CallRecords]
      /\ SemTable(semtab) /\ SemTable(semtab') /\ u \in Uses /\ Live(u)
  BY DEF MInv, MsgTypes, Joins
<1>1. /\ OnlyChanges(semtab, semtab', s) /\ s \in SemIds
      /\ OnQueue(semtab', s) = OnQueue(semtab, s) \cup {p}
      /\ \A r \in SemIds : r # s => OnQueue(semtab', r) = OnQueue(semtab, r)
      /\ \A r \in SemIds : semtab'[r].used = semtab[r].used
  BY JoinTable
<1>2. /\ \A q, i : Clearing(q, i)' /\ q \in Procs => Clearing(q, i) /\ call'[q] = call[q]
      /\ \A q \in Procs : Using(call[q]) => call'[q] = call[q]
      /\ \A v \in Uses : SemOf(v)' = SemOf(v) /\ (Live(v)' => Live(v))
  BY JoinCalls
<1>3. /\ \A q \in Procs : q # p => call'[q] = call[q]
      /\ Using(call'[p]) /\ UseOf(call'[p]) = u
      /\ UNCHANGED <<porttab, buftab, nbpools>>
      /\ call'[p].op \in {"ptsend", "ptrecv"} => Fresh(call'[p])
  BY DEF Joins
<1>4. \A v \in Uses : UsersOf(v)' = UsersOf(v) \cup (IF v = u THEN {p} ELSE {})
  <2> SUFFICES ASSUME NEW v \in Uses, NEW q \in Procs
               PROVE  q \in UsersOf(v)' <=> q \in UsersOf(v) \/ (v = u /\ q = p)
    BY DEF UsersOf
  <2>1. CASE q = p
    BY <1>3, <2>1 DEF UsersOf, Joins, Using, Idle
  <2>2. CASE q # p
    BY <1>3, <2>2 DEF UsersOf
  <2> QED BY <2>1, <2>2
<1>5. OwnInv'
  <2>1. ASSUME NEW v \in Uses, Live(v)'
        PROVE  isused(semtab', SemOf(v)') /\ OnQueue(semtab', SemOf(v)') \subseteq UsersOf(v)'
    <3>1. Live(v) /\ SemOf(v)' = SemOf(v)
      BY <1>2, <2>1
    <3>2. isused(semtab, SemOf(v)) /\ OnQueue(semtab, SemOf(v)) \subseteq UsersOf(v)
      BY <3>1 DEF MInv, OwnInv
    <3>3. isused(semtab', SemOf(v))
      BY <1>1, <3>2 DEF isused
    <3>4. CASE v = u
      BY <1>1, <1>4, <3>1, <3>2, <3>3, <3>4
    <3>5. CASE v # u
      <4>1. SemOf(v) # s /\ SemOf(v) \in SemIds
        BY <1>0, <3>1, <3>2, <3>5 DEF MInv, OwnInv, isused
      <4> QED BY <1>1, <1>4, <3>1, <3>2, <3>3, <3>5, <4>1
    <3> QED BY <3>4, <3>5
  <2>2. \A v, w \in Uses : Live(v)' /\ Live(w)' /\ SemOf(v)' = SemOf(w)' => v = w
    BY <1>2 DEF MInv, OwnInv
  <2>3. ASSUME NEW r \in SemIds, NEW q \in OnQueue(semtab', r)
        PROVE  Using(call'[q]) /\ r = SemOf(UseOf(call[q]))'
    <3>0. \A v \in Uses : SemOf(v)' = SemOf(v)
      BY <1>2
    <3>1. CASE q = p /\ r = s
      <4>1. UseOf(call[q])' = u
        BY <1>3, <3>1
      <4>2. SemOf(UseOf(call[q]))' = SemOf(u)'
        BY <4>1 DEF SemOf
      <4> QED BY <1>0, <1>3, <3>0, <3>1, <4>2
    <3>2. CASE q \in OnQueue(semtab, r)
      <4>1. Using(call[q]) /\ r = SemOf(UseOf(call[q])) /\ q \in Procs
        BY <1>0, <3>2, SemQueue DEF MInv, OwnInv
      <4>2. PICK v \in Uses : v = UseOf(call[q])
        BY <1>0, <4>1, UseOfInUses
      <4>3. call'[q] = call[q]
        BY <1>2, <4>1
      <4>4. UseOf(call[q])' = v
        BY <4>2, <4>3 DEF UseOf
      <4>5. SemOf(UseOf(call[q]))' = SemOf(v)'
        BY <4>4 DEF SemOf
      <4> QED BY <3>0, <4>1, <4>2, <4>3, <4>5
    <3> QED BY <1>1, <3>1, <3>2
  <2>4. \A q \in Procs : call'[q].op = "getbuf" => call'[q].pool < nbpools'
    <3>1. call'[p].op = "getbuf" => call'[p].pool < nbpools'
      <4>1. SUFFICES ASSUME call'[p].op = "getbuf" PROVE call'[p].pool < nbpools'
        OBVIOUS
      <4>2. u = PoolUse(call'[p].pool)
        BY <1>3, <4>1, UseFacts
      <4>3. call'[p].pool < nbpools
        BY <1>0, <4>2, UseFacts
      <4> QED BY <1>3, <4>3
    <3> QED BY <1>3, <3>1 DEF MInv, OwnInv
  <2> QED BY <2>1, <2>2, <2>3, <2>4 DEF OwnInv
<1>6. SeqInv'
  <2> SUFFICES ASSUME NEW q \in Procs, call'[q].op \in {"ptsend", "ptrecv"}
               PROVE  /\ call'[q].seq <= porttab'[call'[q].port].ptseq
                      /\ porttab'[call'[q].port].ptstate # PT_ALLOC =>
                           call'[q].seq < porttab'[call'[q].port].ptseq
    BY DEF SeqInv
  <2>1. CASE q = p
    <3>1. call'[q].seq \in Nat
      BY <1>0, CallKinds DEF SendCalls, RecvCalls
    <3> QED BY <1>3, <2>1, <3>1 DEF Fresh
  <2>2. CASE q # p
    BY <1>3, <2>2 DEF MInv, SeqInv
  <2> QED BY <2>1, <2>2
<1>7. WaitInv'
  <2> SUFFICES ASSUME NEW q \in Procs, Waiting(q)'
      PROVE  /\ call'[q].op = "ptsend" =>
                 \/ Fresh(call[q])'
                 \/ /\ porttab'[call'[q].port].ptstate = PT_LIMBO
                    /\ \A r \in Procs : Clearing(r, call[q].port)' => call'[r].op = "dispose"
             /\ call'[q].op = "ptrecv" =>
                 \/ Fresh(call[q])'
                 \/ /\ porttab'[call'[q].port].ptstate = PT_LIMBO
                    /\ \A r \in Procs : Clearing(r, call[q].port)' =>
                         call'[r].op \in {"dispose", "receivers"}
    BY DEF WaitInv
  <2>1. CASE q = p
    <3>1. call'[p].op \in {"ptsend", "ptrecv"} => Fresh(call[p])'
      BY <1>3 DEF Fresh
    <3> QED BY <2>1, <3>1
  <2>2. CASE q # p
    <3>1. Waiting(q)
      BY <1>1, <2>2, WaitingNext
    <3>2. call'[q] = call[q] /\ porttab' = porttab
      BY <1>3, <2>2
    <3>3. \A r \in Procs : Clearing(r, call[q].port)' =>
             Clearing(r, call[q].port) /\ call'[r] = call[r]
      <4> SUFFICES ASSUME NEW r \in Procs, Clearing(r, call[q].port)'
                   PROVE  Clearing(r, call[q].port) /\ call'[r] = call[r]
        OBVIOUS
      <4> DEFINE i == call[q].port
      <4>1. call'[r].op \in {"dispose", "receivers", "newstate"} /\ call'[r].port = i
        BY <3>2 DEF Clearing
      <4>2. r # p
        BY <1>3, <4>1 DEF Using
      <4> QED BY <1>3, <4>1, <4>2 DEF Clearing
    <3>4. Fresh(call[q]) => Fresh(call[q])'
      BY <3>2 DEF Fresh
    <3> QED BY <3>1, <3>2, <3>3, <3>4 DEF MInv, WaitInv
  <2> QED BY <2>1, <2>2
<1>8. ClearInv'
  BY <1>2, <1>3 DEF MInv, ClearInv
<1>9. FreshInv'
  <2> SUFFICES ASSUME NEW q \in Procs, call'[q].op \in {"ptsend", "ptrecv"}, Fresh(call[q])'
      PROVE  /\ call'[q].op = "ptsend" => porttab'[call'[q].port].ptssem # SYSERR
             /\ call'[q].op = "ptrecv" => porttab'[call'[q].port].ptrsem # SYSERR
    BY DEF FreshInv
  <2>1. CASE q = p
    <3>1. /\ call'[q].op = "ptsend" => u = SendUse(call'[q].port)
          /\ call'[q].op = "ptrecv" => u = RecvUse(call'[q].port)
      BY <1>3, <2>1, UseFacts
    <3> QED BY <1>0, <1>3, <3>1, UseFacts DEF SendLive, RecvLive
  <2>2. CASE q # p
    <3>1. call'[q] = call[q] /\ porttab' = porttab
      BY <1>3, <2>2
    <3>2. Fresh(call[q])
      BY <3>1 DEF Fresh
    <3> QED BY <3>1, <3>2 DEF MInv, FreshInv
  <2> QED BY <2>1, <2>2
<1> QED BY <1>5, <1>6, <1>7, <1>8, <1>9 DEF MInv

-----------------------------------------------------------------------------
(* Signals, messages and buffers                                           *)

\* signal() of a semaphore, or of what is none.
LEMMA SignalAny ==
  ASSUME NEW t, SemTable(t), NEW s \in SemIds \cup {SYSERR}
  PROVE  LET u == signal(t, s)
         IN  /\ SemTable(u)
             /\ \A r \in SemIds :
                  /\ u[r].used = t[r].used /\ OnQueue(u, r) \subseteq OnQueue(t, r)
                  /\ u[r].count = IF r = s /\ isused(t, s) THEN t[r].count + 1 ELSE t[r].count
<1> DEFINE u == signal(t, s)
<1>1. CASE ~isused(t, s)
  BY <1>1, SignalUnused
<1>2. CASE isused(t, s)
  <2>1. s \in SemIds /\ t[s].used
    BY <1>2 DEF isused
  <2>2. /\ SemTable(u) /\ OnlyChanges(t, u, s)
        /\ u[s].used /\ u[s].count = t[s].count + 1
        /\ OnQueue(u, s) \subseteq OnQueue(t, s)
    BY <2>1, SignalTable
  <2> HIDE DEF u
  <2>3. \A r \in SemIds : r # s => u[r] = t[r] /\ OnQueue(u, r) = OnQueue(t, r)
    BY <2>2 DEF OnlyChanges, OnQueue
  <2>4. u[s].used = t[s].used
    BY <2>1, <2>2, SemQueue
  <2>5. ASSUME NEW r \in SemIds
        PROVE  /\ u[r].used = t[r].used /\ OnQueue(u, r) \subseteq OnQueue(t, r)
               /\ u[r].count = IF r = s /\ isused(t, s) THEN t[r].count + 1 ELSE t[r].count
    BY <1>2, <2>2, <2>3, <2>4
  <2> QED BY <2>2, <2>5 DEF u
<1> QED BY <1>1, <1>2

\* wait() when the count is positive, or by a process that goes on at once.
LEMMA WaitPositive ==
  ASSUME NEW t, SemTable(t), NEW s \in SemIds, t[s].used, t[s].count > 0,
         NEW p \in Procs, ~WaitsIn(t, p)
  PROVE  LET u == wait(t, s, p)
         IN  /\ SemTable(u)
             /\ \A r \in SemIds :
                  /\ u[r].used = t[r].used /\ OnQueue(u, r) \subseteq OnQueue(t, r)
                  /\ u[r].count = IF r = s THEN t[r].count - 1 ELSE t[r].count
<1> DEFINE u == wait(t, s, p)
<1>1. /\ SemTable(u) /\ OnlyChanges(t, u, s)
      /\ u[s].used /\ u[s].count = t[s].count - 1
      /\ OnQueue(u, s) = IF t[s].count <= 0 THEN OnQueue(t, s) \cup {p} ELSE {}
  BY WaitTable
<1>2. t[s].count \in Int
  BY SemQueue
<1> HIDE DEF u
<1>3. \A r \in SemIds : r # s => u[r] = t[r] /\ OnQueue(u, r) = OnQueue(t, r)
  BY <1>1 DEF OnlyChanges, OnQueue
<1>4. OnQueue(u, s) = {}
  BY <1>1, <1>2
<1>5. u[s].used = t[s].used
  BY <1>1, SemQueue
<1>6. ASSUME NEW r \in SemIds
      PROVE  /\ u[r].used = t[r].used /\ OnQueue(u, r) \subseteq OnQueue(t, r)
             /\ u[r].count = IF r = s THEN t[r].count - 1 ELSE t[r].count
  BY <1>1, <1>3, <1>4, <1>5
<1> QED BY <1>1, <1>6 DEF u

\* Port i gets other messages.
NewMessages(i, q) == porttab' = [porttab EXCEPT ![i].ptmsgs = q]

LEMMA MessagesChange ==
  ASSUME porttab \in [PortIds -> PortEntries],
         NEW i \in PortIds, NEW q \in Seq(Bufs), NewMessages(i, q)
  PROVE  /\ porttab' \in [PortIds -> PortEntries] /\ SamePorts
         /\ porttab'[i].ptmsgs = q
         /\ \A j \in PortIds : j # i => porttab'[j] = porttab[j]
<1>1. porttab' = [porttab EXCEPT ![i] = [porttab[i] EXCEPT !.ptmsgs = q]]
  BY DEF NewMessages
<1> DEFINE e == [porttab[i] EXCEPT !.ptmsgs = q]
<1>2. porttab[i] \in PortEntries
  OBVIOUS
<1>3. /\ e \in PortEntries /\ e.ptmsgs = q
      /\ e.ptstate = porttab[i].ptstate /\ e.ptseq = porttab[i].ptseq
      /\ e.ptssem = porttab[i].ptssem /\ e.ptrsem = porttab[i].ptrsem
      /\ e.ptmaxcnt = porttab[i].ptmaxcnt
  BY <1>2 DEF PortEntries
<1> HIDE DEF e
<1>4. porttab' \in [PortIds -> PortEntries] /\ porttab'[i] = e
  BY <1>1, <1>3 DEF e
<1>5. \A j \in PortIds : j # i => porttab'[j] = porttab[j]
  BY <1>1
<1> QED BY <1>3, <1>4, <1>5 DEF SamePorts

\* What ptsend() does after its wait().
LEMMA Deposit ==
  ASSUME porttab \in [PortIds -> PortEntries], ptfree \in Nat, panicked \in BOOLEAN,
         NEW t, SemTable(t), NEW i \in PortIds, NEW m \in Bufs, deposit(t, i, m)
  PROVE  /\ porttab' \in [PortIds -> PortEntries] /\ ptfree' \in Nat /\ panicked' \in BOOLEAN
         /\ SamePorts
         /\ SemTable(semtab')
         /\ \A s \in SemIds : /\ semtab'[s].used = t[s].used
                              /\ OnQueue(semtab', s) \subseteq OnQueue(t, s)
         /\ \A j \in PortIds : j # i => porttab'[j] = porttab[j]
         /\ \/ panicked' = TRUE /\ semtab' = t /\ porttab' = porttab /\ ptfree = 0 /\ ptfree' = 0
            \/ /\ panicked' = panicked /\ semtab' = signal(t, porttab[i].ptrsem)
               /\ porttab'[i].ptmsgs = Append(porttab[i].ptmsgs, m)
               /\ ptfree > 0 /\ ptfree' = ptfree - 1
<1> DEFINE q == Append(porttab[i].ptmsgs, m)
<1>1. CASE ptfree = 0 /\ panicked' = TRUE /\ semtab' = t /\ UNCHANGED <<porttab, ptfree>>
  BY <1>1 DEF SamePorts
<1>2. CASE /\ ptfree > 0 /\ ptfree' = ptfree - 1 /\ NewMessages(i, q)
           /\ semtab' = signal(t, porttab[i].ptrsem) /\ panicked' = panicked
  <2>1. porttab[i].ptmsgs \in Seq(Bufs) /\ porttab[i].ptrsem \in SemIds \cup {SYSERR}
    BY DEF PortEntries
  <2>2. q \in Seq(Bufs)
    BY <2>1, AppendProperties
  <2> HIDE DEF q
  <2>3. /\ porttab' \in [PortIds -> PortEntries] /\ SamePorts /\ porttab'[i].ptmsgs = q
        /\ \A j \in PortIds : j # i => porttab'[j] = porttab[j]
    BY <1>2, <2>2, MessagesChange
  <2> DEFINE r == porttab[i].ptrsem
  <2>4. semtab' = signal(t, r) /\ r \in SemIds \cup {SYSERR}
    BY <1>2, <2>1
  <2> HIDE DEF r
  <2>5. /\ SemTable(semtab')
        /\ \A s \in SemIds : /\ semtab'[s].used = t[s].used
                             /\ OnQueue(semtab', s) \subseteq OnQueue(t, s)
    BY <2>4, SignalAny
  <2>6. ptfree' \in Nat
    BY <1>2
  <2> QED BY <1>2, <2>3, <2>4, <2>5, <2>6 DEF q, r
<1> QED BY <1>1, <1>2 DEF deposit, NewMessages

\* What ptrecv() does after its wait().
LEMMA Withdrawal ==
  ASSUME porttab \in [PortIds -> PortEntries], ptfree \in Nat,
         NEW t, SemTable(t), NEW i \in PortIds, withdrawal(t, i)
  PROVE  /\ porttab' \in [PortIds -> PortEntries] /\ ptfree' = ptfree + 1 /\ ptfree' \in Nat
         /\ SamePorts /\ panicked' = panicked
         /\ SemTable(semtab') /\ semtab' = signal(t, porttab[i].ptssem)
         /\ \A s \in SemIds : /\ semtab'[s].used = t[s].used
                              /\ OnQueue(semtab', s) \subseteq OnQueue(t, s)
         /\ \A j \in PortIds : j # i => porttab'[j] = porttab[j]
         /\ porttab[i].ptmsgs # <<>> /\ porttab'[i].ptmsgs = Tail(porttab[i].ptmsgs)
<1> DEFINE q == Tail(porttab[i].ptmsgs)
<1>1. porttab[i].ptmsgs \in Seq(Bufs) /\ porttab[i].ptssem \in SemIds \cup {SYSERR}
  BY DEF PortEntries
<1>2. porttab[i].ptmsgs # <<>>
  BY DEF withdrawal
<1>3. q \in Seq(Bufs)
  BY <1>1, <1>2, HeadTailProperties
<1>4. NewMessages(i, q)
  BY DEF withdrawal, NewMessages
<1> HIDE DEF q
<1>5. /\ porttab' \in [PortIds -> PortEntries] /\ SamePorts /\ porttab'[i].ptmsgs = q
      /\ \A j \in PortIds : j # i => porttab'[j] = porttab[j]
  BY <1>3, <1>4, MessagesChange
<1> DEFINE r == porttab[i].ptssem
<1>6. semtab' = signal(t, r) /\ r \in SemIds \cup {SYSERR}
  BY <1>1 DEF withdrawal
<1> HIDE DEF r
<1>7. /\ SemTable(semtab')
      /\ \A s \in SemIds : /\ semtab'[s].used = t[s].used
                           /\ OnQueue(semtab', s) \subseteq OnQueue(t, s)
  BY <1>6, SignalAny
<1>8. ptfree' = ptfree + 1 /\ ptfree' \in Nat /\ panicked' = panicked
  BY DEF withdrawal
<1> QED BY <1>2, <1>5, <1>6, <1>7, <1>8 DEF q, r

LEMMA KnownKept ==
  ASSUME KnownInv, Known \subseteq Known',
         \A p \in Procs : held'[p] \subseteq held[p] \cup Known',
         \A p \in Procs : call'[p] = call[p] \/ KnownCall(call[p])',
         \A i \in PortIds : Range(porttab'[i].ptmsgs) \subseteq Range(porttab[i].ptmsgs) \cup Known'
  PROVE  KnownInv'
<1>1. \A p \in Procs : call'[p] = call[p] => KnownCall(call[p])'
  BY DEF KnownInv, KnownCall
<1>2. \A i \in PortIds : Range(porttab'[i].ptmsgs) \subseteq Known'
  BY DEF KnownInv
<1>3. \A p \in Procs : held'[p] \subseteq Known'
  BY DEF KnownInv
<1> QED BY <1>1, <1>2, <1>3 DEF KnownInv

LEMMA KnownSame == bpid' = bpid /\ nbpools' = nbpools => Known' = Known
BY DEF Known

LEMMA MessageRanges ==
  ASSUME NEW q \in Seq(Bufs)
  PROVE  /\ \A m \in Bufs : Range(Append(q, m)) = Range(q) \cup {m}
         /\ q # <<>> => Head(q) \in Range(q) /\ Range(Tail(q)) \subseteq Range(q)
         /\ Range(q) \subseteq Bufs
<1>1. Len(q) \in Nat /\ DOMAIN q = 1..Len(q) /\ \A i \in 1..Len(q) : q[i] \in Bufs
  BY LenProperties, ElementOfSeq
<1>2. ASSUME NEW m \in Bufs PROVE Range(Append(q, m)) = Range(q) \cup {m}
  <2> DEFINE r == Append(q, m)
             n == Len(q) + 1
  <2>1. r \in Seq(Bufs) /\ Len(r) = n /\ (\A i \in 1..Len(q) : r[i] = q[i]) /\ r[n] = m
    BY AppendProperties
  <2> HIDE DEF r
  <2>2. DOMAIN r = 1..n
    BY <2>1, LenProperties
  <2>3. n \in 1..n /\ 1..Len(q) \subseteq 1..n /\ \A i \in 1..n : i = n \/ i \in 1..Len(q)
    BY <1>1
  <2> HIDE DEF n
  <2>4. \A x \in Range(r) : x \in Range(q) \cup {m}
    BY <1>1, <2>1, <2>2, <2>3 DEF Range
  <2>5. \A x \in Range(q) \cup {m} : x \in Range(r)
    BY <1>1, <2>1, <2>2, <2>3 DEF Range
  <2> QED BY <2>4, <2>5 DEF r
<1>3. ASSUME q # <<>> PROVE Head(q) \in Range(q) /\ Range(Tail(q)) \subseteq Range(q)
  <2> DEFINE r == Tail(q)
  <2>1. Len(q) # 0
    BY <1>3, EmptySeq
  <2>2. /\ Head(q) = q[1] /\ r \in Seq(Bufs) /\ Len(r) = Len(q) - 1
        /\ \A i \in 1..Len(r) : r[i] = q[i + 1]
    <3>1. Head(q) = q[1]
      BY DEF Head
    <3> QED BY <1>3, <3>1, HeadTailProperties
  <2> HIDE DEF r
  <2>3. DOMAIN r = 1..Len(r)
    BY <2>2, LenProperties
  <2>4. 1 \in 1..Len(q) /\ \A i \in 1..Len(r) : i + 1 \in 1..Len(q)
    BY <1>1, <2>1, <2>2
  <2>5. \A x \in Range(r) : x \in Range(q)
    BY <1>1, <2>2, <2>3, <2>4 DEF Range
  <2> QED BY <1>1, <2>2, <2>4, <2>5 DEF r, Range
<1>4. Range(q) \subseteq Bufs
  BY <1>1 DEF Range
<1> QED BY <1>2, <1>3, <1>4

-----------------------------------------------------------------------------
(* The steps that leave the semaphores to their users                      *)

TInv == MInv /\ KnownInv

LEMMA Returned ==
  ASSUME call \in [Procs -> CallRecords], NEW p \in Procs, ~Waiting(p), Return(p), Eases
  PROVE  /\ call' \in [Procs -> CallRecords] /\ call'[p] = Idle
         /\ \A q \in Procs : q # p => call'[q] = call[q]
         /\ \A q \in Procs : call'[q] = call[q] \/ StaysOut(q)
         /\ KnownCall(call[p])'
<1>1. /\ call' \in [Procs -> CallRecords] /\ call'[p] = Idle
      /\ \A q \in Procs : q # p => call'[q] = call[q]
  BY DEF Return, CallRecords
<1>2. ~Waiting(p)'
  BY WaitingNext DEF Eases
<1>3. StaysOut(p)
  BY <1>1, <1>2 DEF StaysOut, Using, Clearing, Idle
<1>4. KnownCall(call[p])'
  BY <1>1 DEF KnownCall, Idle
<1> QED BY <1>1, <1>3, <1>4

\* A message that is passed on is known.
LEMMA DepositSteady ==
  ASSUME TInv, NEW t, SemTable(t),
         \A s \in SemIds : t[s].used = semtab[s].used /\ OnQueue(t, s) \subseteq OnQueue(semtab, s),
         NEW i \in PortIds, porttab[i].ptstate = PT_ALLOC, NEW m \in Known,
         deposit(t, i, m)
  PROVE  /\ porttab' \in [PortIds -> PortEntries] /\ ptfree' \in Nat /\ panicked' \in BOOLEAN
         /\ SamePorts /\ FairMessages /\ Eases
         /\ \A j \in PortIds : Range(porttab'[j].ptmsgs) \subseteq Range(porttab[j].ptmsgs) \cup Known
<1>1. m \in Bufs
  BY DEF Known
<1>2. porttab \in [PortIds -> PortEntries] /\ ptfree \in Nat /\ panicked \in BOOLEAN
  BY DEF TInv, MInv, MsgTypes
<1>3. /\ porttab' \in [PortIds -> PortEntries] /\ ptfree' \in Nat /\ panicked' \in BOOLEAN
      /\ SamePorts
      /\ SemTable(semtab')
      /\ \A s \in SemIds : /\ semtab'[s].used = t[s].used
                           /\ OnQueue(semtab', s) \subseteq OnQueue(t, s)
      /\ \A j \in PortIds : j # i => porttab'[j] = porttab[j]
      /\ porttab' = porttab \/ porttab'[i].ptmsgs = Append(porttab[i].ptmsgs, m)
  BY <1>1, <1>2, Deposit
<1>4. Eases
  BY <1>3 DEF Eases
<1>5. FairMessages
  BY <1>3 DEF FairMessages
<1>6. porttab[i].ptmsgs \in Seq(Bufs)
  BY <1>2 DEF PortEntries
<1>7. Range(Append(porttab[i].ptmsgs, m)) = Range(porttab[i].ptmsgs) \cup {m}
  BY <1>1, <1>6, MessageRanges
<1>8. \A j \in PortIds : Range(porttab'[j].ptmsgs) \subseteq Range(porttab[j].ptmsgs) \cup Known
  BY <1>3, <1>7
<1> QED BY <1>3, <1>4, <1>5, <1>8

LEMMA WithdrawalSteady ==
  ASSUME TInv, NEW t, SemTable(t),
         \A s \in SemIds : t[s].used = semtab[s].used /\ OnQueue(t, s) \subseteq OnQueue(semtab, s),
         NEW i \in PortIds, porttab[i].ptstate = PT_ALLOC, withdrawal(t, i)
  PROVE  /\ porttab' \in [PortIds -> PortEntries] /\ ptfree' \in Nat /\ panicked' \in BOOLEAN
         /\ SamePorts /\ FairMessages /\ Eases
         /\ Head(porttab[i].ptmsgs) \in Known
         /\ \A j \in PortIds : Range(porttab'[j].ptmsgs) \subseteq Range(porttab[j].ptmsgs)
<1>2. porttab \in [PortIds -> PortEntries] /\ ptfree \in Nat /\ panicked \in BOOLEAN
  BY DEF TInv, MInv, MsgTypes
<1>3. /\ porttab' \in [PortIds -> PortEntries] /\ ptfree' \in Nat
      /\ SamePorts /\ panicked' = panicked
      /\ SemTable(semtab')
      /\ \A s \in SemIds : /\ semtab'[s].used = t[s].used
                           /\ OnQueue(semtab', s) \subseteq OnQueue(t, s)
      /\ \A j \in PortIds : j # i => porttab'[j] = porttab[j]
      /\ porttab[i].ptmsgs # <<>> /\ porttab'[i].ptmsgs = Tail(porttab[i].ptmsgs)
  BY <1>2, Withdrawal
<1>4. Eases
  BY <1>3 DEF Eases
<1>5. FairMessages
  BY <1>3 DEF FairMessages
<1>6. porttab[i].ptmsgs \in Seq(Bufs)
  BY <1>2 DEF PortEntries
<1>7. /\ Head(porttab[i].ptmsgs) \in Range(porttab[i].ptmsgs)
      /\ Range(Tail(porttab[i].ptmsgs)) \subseteq Range(porttab[i].ptmsgs)
  BY <1>3, <1>6, MessageRanges
<1>8. \A j \in PortIds : Range(porttab'[j].ptmsgs) \subseteq Range(porttab[j].ptmsgs)
  BY <1>3, <1>7
<1>9. Head(porttab[i].ptmsgs) \in Known
  BY <1>7 DEF TInv, KnownInv
<1> QED BY <1>2, <1>3, <1>4, <1>5, <1>8, <1>9

LEMMA HeldKept ==
  ASSUME TInv, NEW p \in Procs
  PROVE  /\ \A b : gives(p, b) => /\ held' \in [Procs -> SUBSET Bufs]
                                  /\ \A q \in Procs : held'[q] \subseteq held[q]
         /\ \A i : takes(p, i) /\ Head(porttab[i].ptmsgs) \in Known =>
              /\ held' \in [Procs -> SUBSET Bufs]
              /\ \A q \in Procs : held'[q] \subseteq held[q] \cup Known
<1>1. held \in [Procs -> SUBSET Bufs] /\ Known \subseteq Bufs
  BY DEF TInv, MInv, MsgTypes, Known
<1>2. ASSUME NEW b, gives(p, b)
      PROVE  held' \in [Procs -> SUBSET Bufs] /\ \A q \in Procs : held'[q] \subseteq held[q]
  BY <1>1, <1>2 DEF gives
<1>3. ASSUME NEW i, takes(p, i), Head(porttab[i].ptmsgs) \in Known
      PROVE  /\ held' \in [Procs -> SUBSET Bufs]
             /\ \A q \in Procs : held'[q] \subseteq held[q] \cup Known
  BY <1>1, <1>3 DEF takes
<1> QED BY <1>2, <1>3

\* The parts of the type invariant that a call on a port touches.
LEMMA PortTypes ==
  ASSUME MsgTypes, otherPool,
         porttab' \in [PortIds -> PortEntries], ptfree' \in Nat, ptnextid' = ptnextid,
         panicked' \in BOOLEAN, kills' = kills, SemTable(semtab'),
         call' \in [Procs -> CallRecords], held' \in [Procs -> SUBSET Bufs]
  PROVE  MsgTypes'
BY DEF MsgTypes, otherPool

LEMMA PoolsSame == otherPool => SamePools /\ Known' = Known
BY KnownSame DEF otherPool, SamePools

LEMMA SendNowSteady ==
  ASSUME TInv, NEW p \in Procs, NEW i \in PortIds, NEW b \in held[p],
         ptsend_now(p, i, b), gives(p, b), otherPool
  PROVE  MsgTypes' /\ Steady /\ KnownInv'
<1> DEFINE s == porttab[i].ptssem
           t == wait(semtab, s, p)
<1>1. /\ ~Waiting(p) /\ porttab[i].ptstate = PT_ALLOC
      /\ s \in SemIds /\ semtab[s].used /\ semtab[s].count > 0
      /\ deposit(t, i, b)
      /\ UNCHANGED <<ptnextid, call, masked, kills>>
  BY DEF ptsend_now, InUser, Runs, isused
<1>2. SemTable(semtab) /\ b \in Known /\ MsgTypes
  BY DEF TInv, MInv, MsgTypes, KnownInv
<1> HIDE DEF s
<1>3. /\ SemTable(t)
      /\ \A r \in SemIds : t[r].used = semtab[r].used /\ OnQueue(t, r) \subseteq OnQueue(semtab, r)
  BY <1>1, <1>2, WaitPositive DEF Waiting
<1> HIDE DEF t
<1>4. /\ porttab' \in [PortIds -> PortEntries] /\ ptfree' \in Nat /\ panicked' \in BOOLEAN
      /\ SamePorts /\ FairMessages /\ Eases
      /\ \A j \in PortIds : Range(porttab'[j].ptmsgs) \subseteq Range(porttab[j].ptmsgs) \cup Known
  BY <1>1, <1>2, <1>3, DepositSteady
<1>5. /\ held' \in [Procs -> SUBSET Bufs]
      /\ \A q \in Procs : held'[q] \subseteq held[q]
  BY HeldKept
<1>6. SamePools /\ Known' = Known
  BY PoolsSame
<1>7. call' = call /\ kills' = kills /\ ptnextid' = ptnextid
  BY <1>1
<1>8. MsgTypes'
  BY <1>2, <1>4, <1>5, <1>7, PortTypes DEF Eases, MsgTypes
<1>9. KnownInv'
  BY <1>4, <1>5, <1>6, <1>7, KnownKept DEF TInv
<1> QED BY <1>4, <1>6, <1>7, <1>8, <1>9 DEF Steady

LEMMA RecvNowSteady ==
  ASSUME TInv, NEW p \in Procs, NEW i \in PortIds,
         ptrecv_now(p, i), takes(p, i), otherPool
  PROVE  MsgTypes' /\ Steady /\ KnownInv'
<1> DEFINE s == porttab[i].ptrsem
           t == wait(semtab, s, p)
<1>1. /\ ~Waiting(p) /\ porttab[i].ptstate = PT_ALLOC
      /\ s \in SemIds /\ semtab[s].used /\ semtab[s].count > 0
      /\ withdrawal(t, i)
      /\ UNCHANGED <<ptnextid, call, masked, kills>>
  BY DEF ptrecv_now, InUser, Runs, isused
<1>2. SemTable(semtab) /\ MsgTypes
  BY DEF TInv, MInv, MsgTypes
<1> HIDE DEF s
<1>3. /\ SemTable(t)
      /\ \A r \in SemIds : t[r].used = semtab[r].used /\ OnQueue(t, r) \subseteq OnQueue(semtab, r)
  BY <1>1, <1>2, WaitPositive DEF Waiting
<1> HIDE DEF t
<1>4. /\ porttab' \in [PortIds -> PortEntries] /\ ptfree' \in Nat /\ panicked' \in BOOLEAN
      /\ SamePorts /\ FairMessages /\ Eases
      /\ Head(porttab[i].ptmsgs) \in Known
      /\ \A j \in PortIds : Range(porttab'[j].ptmsgs) \subseteq Range(porttab[j].ptmsgs)
  BY <1>1, <1>3, WithdrawalSteady
<1>5. /\ held' \in [Procs -> SUBSET Bufs]
      /\ \A q \in Procs : held'[q] \subseteq held[q] \cup Known
  BY <1>4, HeldKept
<1>6. SamePools /\ Known' = Known
  BY PoolsSame
<1>7. call' = call /\ kills' = kills /\ ptnextid' = ptnextid
  BY <1>1
<1>8. MsgTypes'
  BY <1>2, <1>4, <1>5, <1>7, PortTypes DEF Eases, MsgTypes
<1>9. KnownInv'
  BY <1>4, <1>5, <1>6, <1>7, KnownKept DEF TInv
<1> QED BY <1>4, <1>6, <1>7, <1>8, <1>9 DEF Steady

LEMMA SendResumeSteady ==
  ASSUME TInv, NEW p \in Procs, ptsend_resume(p), gives(p, call[p].msg), otherPool
  PROVE  MsgTypes' /\ Steady /\ KnownInv'
<1>1. /\ ~Waiting(p) /\ call[p].op = "ptsend" /\ Fresh(call[p])
      /\ deposit(semtab, call[p].port, call[p].msg) /\ Return(p)
      /\ UNCHANGED <<ptnextid, masked, kills>>
  BY DEF ptsend_resume, Resumes, Runs
<1>2. SemTable(semtab) /\ MsgTypes /\ call \in [Procs -> CallRecords]
  BY DEF TInv, MInv, MsgTypes
<1>3. call[p].port \in PortIds /\ call[p].msg \in Known
         /\ porttab[call[p].port].ptstate = PT_ALLOC
  BY <1>1, <1>2, CallKinds DEF SendCalls, TInv, KnownInv, KnownCall, Fresh
<1>4. /\ porttab' \in [PortIds -> PortEntries] /\ ptfree' \in Nat /\ panicked' \in BOOLEAN
      /\ SamePorts /\ FairMessages /\ Eases
      /\ \A j \in PortIds : Range(porttab'[j].ptmsgs) \subseteq Range(porttab[j].ptmsgs) \cup Known
  BY <1>1, <1>2, <1>3, DepositSteady
<1>5. /\ held' \in [Procs -> SUBSET Bufs]
      /\ \A q \in Procs : held'[q] \subseteq held[q]
  BY HeldKept
<1>6. SamePools /\ Known' = Known
  BY PoolsSame
<1>7. /\ call' \in [Procs -> CallRecords]
      /\ \A q \in Procs : q # p => call'[q] = call[q]
      /\ \A q \in Procs : call'[q] = call[q] \/ StaysOut(q)
      /\ KnownCall(call[p])'
  BY <1>1, <1>2, <1>4, Returned
<1>8. MsgTypes'
  BY <1>1, <1>2, <1>4, <1>5, <1>7, PortTypes DEF Eases
<1>9. KnownInv'
  <2>1. \A q \in Procs : call'[q] = call[q] \/ KnownCall(call[q])'
    BY <1>7
  <2> QED BY <1>4, <1>5, <1>6, <2>1, KnownKept DEF TInv
<1> QED BY <1>4, <1>6, <1>7, <1>8, <1>9 DEF Steady

LEMMA RecvResumeSteady ==
  ASSUME TInv, NEW p \in Procs, ptrecv_resume(p), takes(p, call[p].port), otherPool
  PROVE  MsgTypes' /\ Steady /\ KnownInv'
<1>1. /\ ~Waiting(p) /\ call[p].op = "ptrecv" /\ Fresh(call[p])
      /\ withdrawal(semtab, call[p].port) /\ Return(p)
      /\ UNCHANGED <<ptnextid, masked, kills>>
  BY DEF ptrecv_resume, Resumes, Runs
<1>2. SemTable(semtab) /\ MsgTypes /\ call \in [Procs -> CallRecords]
  BY DEF TInv, MInv, MsgTypes
<1>3. call[p].port \in PortIds /\ porttab[call[p].port].ptstate = PT_ALLOC
  BY <1>1, <1>2, CallKinds DEF RecvCalls, Fresh
<1>4. /\ porttab' \in [PortIds -> PortEntries] /\ ptfree' \in Nat /\ panicked' \in BOOLEAN
      /\ SamePorts /\ FairMessages /\ Eases
      /\ Head(porttab[call[p].port].ptmsgs) \in Known
      /\ \A j \in PortIds : Range(porttab'[j].ptmsgs) \subseteq Range(porttab[j].ptmsgs)
  BY <1>1, <1>2, <1>3, WithdrawalSteady
<1>5. /\ held' \in [Procs -> SUBSET Bufs]
      /\ \A q \in Procs : held'[q] \subseteq held[q] \cup Known
  BY <1>4, HeldKept
<1>6. SamePools /\ Known' = Known
  BY PoolsSame
<1>7. /\ call' \in [Procs -> CallRecords]
      /\ \A q \in Procs : q # p => call'[q] = call[q]
      /\ \A q \in Procs : call'[q] = call[q] \/ StaysOut(q)
      /\ KnownCall(call[p])'
  BY <1>1, <1>2, <1>4, Returned
<1>8. MsgTypes'
  BY <1>1, <1>2, <1>4, <1>5, <1>7, PortTypes DEF Eases
<1>9. KnownInv'
  <2>1. \A q \in Procs : call'[q] = call[q] \/ KnownCall(call[q])'
    BY <1>7
  <2> QED BY <1>4, <1>5, <1>6, <2>1, KnownKept DEF TInv
<1> QED BY <1>4, <1>6, <1>7, <1>8, <1>9 DEF Steady

\* Nothing happens to the ports.
LEMMA PortsSame ==
  ASSUME TInv, UNCHANGED portVars
  PROVE  SamePorts /\ FairMessages
           /\ \A j \in PortIds : Range(porttab'[j].ptmsgs) \subseteq Range(porttab[j].ptmsgs)
BY DEF portVars, SamePorts, FairMessages

LEMMA StaleSteady ==
  ASSUME TInv, NEW p \in Procs, pt_stale(p), UNCHANGED held, otherPool
  PROVE  MsgTypes' /\ Steady /\ KnownInv'
<1>1. /\ ~Waiting(p) /\ Return(p) /\ UNCHANGED <<portVars, semtab, masked, panicked, kills>>
  BY DEF pt_stale, Runs
<1>2. SemTable(semtab) /\ MsgTypes /\ call \in [Procs -> CallRecords]
  BY DEF TInv, MInv, MsgTypes
<1>3. Eases
  BY <1>1, <1>2 DEF Eases
<1>4. /\ call' \in [Procs -> CallRecords]
      /\ \A q \in Procs : q # p => call'[q] = call[q]
      /\ \A q \in Procs : call'[q] = call[q] \/ StaysOut(q)
      /\ KnownCall(call[p])'
  BY <1>1, <1>2, <1>3, Returned
<1>5. SamePools /\ Known' = Known
  BY PoolsSame
<1>6. /\ SamePorts /\ FairMessages
      /\ \A j \in PortIds : Range(porttab'[j].ptmsgs) \subseteq Range(porttab[j].ptmsgs)
  BY <1>1, PortsSame
<1>7. MsgTypes'
  BY <1>1, <1>2, <1>4, PortTypes DEF MsgTypes, portVars
<1>8. KnownInv'
  <2>1. \A q \in Procs : call'[q] = call[q] \/ KnownCall(call[q])'
    BY <1>4
  <2> QED BY <1>5, <1>6, <2>1, KnownKept DEF TInv
<1> QED BY <1>3, <1>4, <1>5, <1>6, <1>7, <1>8 DEF Steady

\* The parts of the type invariant that a call on a pool touches, or kill().
LEMMA PoolTypes ==
  ASSUME MsgTypes, UNCHANGED portVars, panicked' = panicked, kills' \in Nat,
         nbpools' \in 0..NBPOOLS, allocated' \in 0..NBUFS,
         buftab' \in [PoolIds -> PoolEntries], bpid' \in [Bufs -> Int],
         SemTable(semtab'), call' \in [Procs -> CallRecords], held' \in [Procs -> SUBSET Bufs]
  PROVE  MsgTypes'
BY DEF MsgTypes, portVars

LEMMA Unlinked ==
  ASSUME TInv, NEW p \in Procs, NEW k \in PoolIds, k < nbpools, unlink(p, k)
  PROVE  /\ buftab' \in [PoolIds -> PoolEntries] /\ bpid' \in [Bufs -> Int]
         /\ held' \in [Procs -> SUBSET Bufs] /\ nbpools' = nbpools /\ allocated' = allocated
         /\ SamePools /\ Known \subseteq Known'
         /\ \A q \in Procs : held'[q] \subseteq held[q] \cup Known'
         /\ buftab[k].bpnext # <<>> /\ buftab'[k].bpnext = Tail(buftab[k].bpnext)
         /\ \A j \in PoolIds : j # k => buftab'[j] = buftab[j]
<1>1. /\ buftab \in [PoolIds -> PoolEntries] /\ bpid \in [Bufs -> Int]
      /\ held \in [Procs -> SUBSET Bufs] /\ k \in Int
  BY DEF TInv, MInv, MsgTypes, PoolIds
<1> DEFINE l == buftab[k].bpnext
           b == Head(l)
           m == Tail(l)
           e == [buftab[k] EXCEPT !.bpnext = m]
<1>2. /\ l # <<>> /\ buftab' = [buftab EXCEPT ![k] = e]
      /\ bpid' = [bpid EXCEPT ![b] = k] /\ held' = [held EXCEPT ![p] = @ \cup {b}]
      /\ nbpools' = nbpools /\ allocated' = allocated
  BY DEF unlink
<1>3. buftab[k] \in PoolEntries
  BY <1>1
<1>4. l \in Seq(Bufs)
  BY <1>3 DEF PoolEntries
<1>5. b \in Bufs /\ m \in Seq(Bufs)
  <2> HIDE DEF l
  <2> QED BY <1>2, <1>4, HeadTailProperties
<1> HIDE DEF l, b, m
<1>6. e \in PoolEntries /\ e.bpsem = buftab[k].bpsem /\ e.bpnext = m
  BY <1>3, <1>5 DEF PoolEntries
<1> HIDE DEF e
<1>7. /\ buftab' \in [PoolIds -> PoolEntries] /\ buftab'[k] = e
      /\ \A j \in PoolIds : j # k => buftab'[j] = buftab[j]
  BY <1>1, <1>2, <1>6
<1>8. bpid' \in [Bufs -> Int] /\ bpid'[b] = k /\ \A c \in Bufs : c # b => bpid'[c] = bpid[c]
  BY <1>1, <1>2, <1>5
<1>9. Known \subseteq Known' /\ b \in Known'
  BY <1>2, <1>5, <1>8 DEF Known
<1>10. /\ held' \in [Procs -> SUBSET Bufs]
       /\ \A q \in Procs : held'[q] \subseteq held[q] \cup Known'
  BY <1>1, <1>2, <1>5, <1>9
<1>11. SamePools
  BY <1>2, <1>6, <1>7 DEF SamePools
<1>12. buftab'[k].bpnext = m
  BY <1>6, <1>7
<1> QED BY <1>2, <1>7, <1>8, <1>9, <1>10, <1>11, <1>12 DEF l, m

LEMMA GetNowSteady ==
  ASSUME TInv, NEW p \in Procs, NEW k \in PoolIds, getbuf_now(p, k), UNCHANGED portVars
  PROVE  MsgTypes' /\ Steady /\ KnownInv'
<1> DEFINE s == buftab[k].bpsem
<1>1. /\ ~Waiting(p) /\ k < nbpools /\ semtab[s].count > 0
      /\ semtab' = wait(semtab, s, p) /\ unlink(p, k)
      /\ UNCHANGED <<call, masked, panicked, kills>>
  BY DEF getbuf_now, InUser, Runs
<1>2. SemTable(semtab) /\ MsgTypes
  BY DEF TInv, MInv, MsgTypes
<1>3. s \in SemIds /\ semtab[s].used
  BY <1>1, UseFacts, UseNames DEF TInv, MInv, OwnInv, isused
<1> HIDE DEF s
<1>4. Eases
  BY <1>1, <1>2, <1>3, WaitPositive DEF Waiting, Eases
<1>5. /\ buftab' \in [PoolIds -> PoolEntries] /\ bpid' \in [Bufs -> Int]
      /\ held' \in [Procs -> SUBSET Bufs] /\ nbpools' = nbpools /\ allocated' = allocated
      /\ SamePools /\ Known \subseteq Known'
      /\ \A q \in Procs : held'[q] \subseteq held[q] \cup Known'
  BY <1>1, Unlinked
<1>6. /\ SamePorts /\ FairMessages
      /\ \A j \in PortIds : Range(porttab'[j].ptmsgs) \subseteq Range(porttab[j].ptmsgs)
  BY PortsSame
<1>7. MsgTypes'
  BY <1>1, <1>2, <1>4, <1>5, PoolTypes DEF Eases, MsgTypes
<1>8. KnownInv'
  <2>1. \A q \in Procs : call'[q] = call[q]
    BY <1>1
  <2> QED BY <1>5, <1>6, <2>1, KnownKept DEF TInv
<1> QED BY <1>1, <1>4, <1>5, <1>6, <1>7, <1>8 DEF Steady

LEMMA GetResumeSteady ==
  ASSUME TInv, NEW p \in Procs, getbuf_resume(p), UNCHANGED portVars
  PROVE  MsgTypes' /\ Steady /\ KnownInv'
<1>1. /\ ~Waiting(p) /\ call[p].op = "getbuf"
      /\ unlink(p, call[p].pool) /\ Return(p)
      /\ UNCHANGED <<semtab, masked, panicked, kills>>
  BY DEF getbuf_resume, Resumes, Runs
<1>2. SemTable(semtab) /\ MsgTypes /\ call \in [Procs -> CallRecords]
  BY DEF TInv, MInv, MsgTypes
<1>3. call[p].pool \in PoolIds /\ call[p].pool < nbpools
  BY <1>1, <1>2, CallKinds DEF GetCalls, TInv, MInv, OwnInv
<1>4. Eases
  BY <1>1, <1>2 DEF Eases
<1>5. /\ buftab' \in [PoolIds -> PoolEntries] /\ bpid' \in [Bufs -> Int]
      /\ held' \in [Procs -> SUBSET Bufs] /\ nbpools' = nbpools /\ allocated' = allocated
      /\ SamePools /\ Known \subseteq Known'
      /\ \A q \in Procs : held'[q] \subseteq held[q] \cup Known'
  BY <1>1, <1>3, Unlinked
<1>6. /\ SamePorts /\ FairMessages
      /\ \A j \in PortIds : Range(porttab'[j].ptmsgs) \subseteq Range(porttab[j].ptmsgs)
  BY PortsSame
<1>7. /\ call' \in [Procs -> CallRecords]
      /\ \A q \in Procs : q # p => call'[q] = call[q]
      /\ \A q \in Procs : call'[q] = call[q] \/ StaysOut(q)
      /\ KnownCall(call[p])'
  BY <1>1, <1>2, <1>4, Returned
<1>8. MsgTypes'
  BY <1>1, <1>2, <1>4, <1>5, <1>7, PoolTypes DEF Eases, MsgTypes
<1>9. KnownInv'
  <2>1. \A q \in Procs : call'[q] = call[q] \/ KnownCall(call[q])'
    BY <1>7
  <2> QED BY <1>5, <1>6, <2>1, KnownKept DEF TInv
<1> QED BY <1>4, <1>5, <1>6, <1>7, <1>8, <1>9 DEF Steady

LEMMA Released ==
  ASSUME TInv, NEW b \in Known, release(b)
  PROVE  /\ buftab' \in [PoolIds -> PoolEntries] /\ bpid' = bpid
         /\ nbpools' = nbpools /\ allocated' = allocated
         /\ SamePools /\ Known' = Known /\ Eases
         /\ bpid[b] \in PoolIds /\ bpid[b] < nbpools
         /\ semtab' = signal(semtab, buftab[bpid[b]].bpsem)
         /\ buftab'[bpid[b]].bpnext = <<b>> \o buftab[bpid[b]].bpnext
         /\ \A j \in PoolIds : j # bpid[b] => buftab'[j] = buftab[j]
<1> DEFINE k == bpid[b]
           l == buftab[k].bpnext
           m == <<b>> \o l
           e == [buftab[k] EXCEPT !.bpnext = m]
           s == buftab[k].bpsem
<1>1. /\ buftab \in [PoolIds -> PoolEntries] /\ SemTable(semtab)
      /\ k \in PoolIds /\ k < nbpools /\ b \in Bufs
  BY DEF TInv, MInv, MsgTypes, Known
<1>2. /\ buftab' = [buftab EXCEPT ![k] = e] /\ semtab' = signal(semtab, s)
      /\ nbpools' = nbpools /\ allocated' = allocated /\ bpid' = bpid
  BY DEF release
<1> HIDE DEF k
<1>3. buftab[k] \in PoolEntries
  BY <1>1
<1>4. l \in Seq(Bufs) /\ s \in SemIds \cup {SYSERR}
  BY <1>3 DEF PoolEntries
<1>5. m \in Seq(Bufs)
  <2>1. <<b>> \in Seq(Bufs)
    BY <1>1
  <2> HIDE DEF l
  <2> QED BY <1>4, <2>1, ConcatProperties
<1> HIDE DEF m, s
<1>6. e \in PoolEntries /\ e.bpsem = buftab[k].bpsem /\ e.bpnext = m
  BY <1>3, <1>5 DEF PoolEntries
<1> HIDE DEF e
<1>7. /\ buftab' \in [PoolIds -> PoolEntries] /\ buftab'[k] = e
      /\ \A j \in PoolIds : j # k => buftab'[j] = buftab[j]
  BY <1>1, <1>2, <1>6
<1>8. Eases
  BY <1>1, <1>2, <1>4, SignalAny DEF Eases
<1>9. SamePools
  BY <1>2, <1>6, <1>7 DEF SamePools
<1>10. Known' = Known
  BY <1>2, KnownSame
<1>11. buftab'[k].bpnext = m
  BY <1>6, <1>7
<1> QED BY <1>1, <1>2, <1>7, <1>8, <1>9, <1>10, <1>11 DEF k, m, s

LEMMA FreeSteady ==
  ASSUME TInv, NEW p \in Procs, NEW b \in Bufs, freebuf(p, b), UNCHANGED portVars
  PROVE  MsgTypes' /\ Steady /\ KnownInv'
<1>1. /\ b \in held[p] /\ release(b) /\ held' = [held EXCEPT ![p] = @ \ {b}]
      /\ UNCHANGED <<call, masked, panicked, kills>>
  BY DEF freebuf
<1>2. MsgTypes /\ b \in Known
  BY <1>1 DEF TInv, MInv, KnownInv
<1>3. /\ buftab' \in [PoolIds -> PoolEntries] /\ bpid' = bpid
      /\ nbpools' = nbpools /\ allocated' = allocated
      /\ SamePools /\ Known' = Known /\ Eases
  BY <1>1, <1>2, Released
<1>4. held' \in [Procs -> SUBSET Bufs] /\ \A q \in Procs : held'[q] \subseteq held[q]
  BY <1>1, <1>2 DEF MsgTypes
<1>6. /\ SamePorts /\ FairMessages
      /\ \A j \in PortIds : Range(porttab'[j].ptmsgs) \subseteq Range(porttab[j].ptmsgs)
  BY PortsSame
<1>7. MsgTypes'
  BY <1>1, <1>2, <1>3, <1>4, PoolTypes DEF Eases, MsgTypes
<1>8. KnownInv'
  <2>1. \A q \in Procs : call'[q] = call[q]
    BY <1>1
  <2> QED BY <1>3, <1>4, <1>6, <2>1, KnownKept DEF TInv
<1> QED BY <1>1, <1>3, <1>6, <1>7, <1>8 DEF Steady

LEMMA DiscardSteady ==
  ASSUME TInv, NEW p \in Procs, discard(p)
  PROVE  MsgTypes' /\ Steady /\ KnownInv'
<1> DEFINE w == call[p].walk
           c == [call[p] EXCEPT !.walk = Tail(w)]
<1>1. /\ ~Waiting(p) /\ call[p].op = "dispose" /\ w # <<>>
      /\ call' = [call EXCEPT ![p] = c]
      /\ UNCHANGED <<portVars, panicked, kills, held>>
      /\ release(Head(w))
  BY DEF discard, dispose, Resumes, Runs
<1>2. MsgTypes /\ call \in [Procs -> CallRecords]
  BY DEF TInv, MInv, MsgTypes
<1>3. call[p] \in ClearCalls
  BY <1>1, <1>2, CallKinds
<1>4. w \in Seq(Bufs)
  BY <1>3 DEF ClearCalls
<1>5. Head(w) \in Range(w) /\ Range(Tail(w)) \subseteq Range(w) /\ Tail(w) \in Seq(Bufs)
  <2> HIDE DEF w
  <2> QED BY <1>1, <1>4, MessageRanges, HeadTailProperties
<1>6. Range(w) \subseteq Known
  BY <1>1 DEF TInv, KnownInv, KnownCall
<1> HIDE DEF w
<1>7. /\ c \in CallRecords /\ c.op = "dispose" /\ c.port = call[p].port
      /\ c.newstate = call[p].newstate /\ c.walk = Tail(w)
  BY <1>1, <1>3, <1>5 DEF ClearCalls, CallRecords
<1> HIDE DEF c
<1>8. /\ call' \in [Procs -> CallRecords] /\ call'[p] = c
      /\ \A q \in Procs : q # p => call'[q] = call[q]
  BY <1>1, <1>2, <1>7
<1>9. /\ buftab' \in [PoolIds -> PoolEntries] /\ bpid' = bpid
      /\ nbpools' = nbpools /\ allocated' = allocated
      /\ SamePools /\ Known' = Known /\ Eases
  BY <1>1, <1>5, <1>6, Released
<1>10. StaysOut(p)
  <2>1. ~Waiting(p)'
    BY <1>1, <1>9, WaitingNext DEF Eases
  <2>2. ~Using(call'[p])
    BY <1>7, <1>8 DEF Using
  <2>3. \A i \in PortIds : Clearing(p, i)' =>
           Clearing(p, i) /\ call'[p].op = call[p].op /\ call'[p].newstate = call[p].newstate
    BY <1>1, <1>7, <1>8 DEF Clearing
  <2> QED BY <2>1, <2>2, <2>3 DEF StaysOut
<1>11. KnownCall(call[p])'
  BY <1>5, <1>6, <1>7, <1>8, <1>9 DEF KnownCall
<1>12. /\ SamePorts /\ FairMessages
       /\ \A j \in PortIds : Range(porttab'[j].ptmsgs) \subseteq Range(porttab[j].ptmsgs)
  BY <1>1, PortsSame
<1>13. MsgTypes'
  BY <1>1, <1>2, <1>8, <1>9, PoolTypes DEF Eases, MsgTypes
<1>14. KnownInv'
  <2>1. \A q \in Procs : call'[q] = call[q] \/ KnownCall(call[q])'
    BY <1>8, <1>11
  <2> QED BY <1>1, <1>9, <1>12, <2>1, KnownKept DEF TInv
<1>15. \A q \in Procs : call'[q] = call[q] \/ StaysOut(q)
  BY <1>8, <1>10
<1> QED BY <1>9, <1>12, <1>13, <1>14, <1>15 DEF Steady

LEMMA KillSteady ==
  ASSUME TInv, NEW p \in Procs, kill(p)
  PROVE  MsgTypes' /\ Steady /\ KnownInv'
<1>1. /\ kills' = kills + 1 /\ semtab' = withdraw(semtab, p) /\ Return(p)
      /\ UNCHANGED <<masked, panicked>> /\ held' = [held EXCEPT ![p] = {}]
      /\ otherPool /\ UNCHANGED portVars
  BY DEF kill, killcaller
<1>2. MsgTypes /\ call \in [Procs -> CallRecords] /\ SemTable(semtab)
  BY DEF TInv, MInv, MsgTypes
<1>3. /\ SemTable(semtab') /\ ~WaitsIn(semtab', p)
      /\ \A s \in SemIds : /\ semtab'[s].used = semtab[s].used
                           /\ OnQueue(semtab', s) = OnQueue(semtab, s) \ {p}
  BY <1>1, <1>2, WithdrawTable
<1>4. Eases
  BY <1>3 DEF Eases
<1>5. /\ call' \in [Procs -> CallRecords] /\ call'[p] = Idle
      /\ \A q \in Procs : q # p => call'[q] = call[q]
  BY <1>1, <1>2 DEF Return, CallRecords
<1>6. StaysOut(p)
  BY <1>3, <1>5 DEF StaysOut, Using, Clearing, Idle, Waiting
<1>7. KnownCall(call[p])'
  BY <1>5 DEF KnownCall, Idle
<1>8. SamePools /\ Known' = Known
  BY <1>1, PoolsSame
<1>9. /\ SamePorts /\ FairMessages
      /\ \A j \in PortIds : Range(porttab'[j].ptmsgs) \subseteq Range(porttab[j].ptmsgs)
  BY <1>1, PortsSame
<1>10. held' \in [Procs -> SUBSET Bufs] /\ \A q \in Procs : held'[q] \subseteq held[q]
  BY <1>1, <1>2 DEF MsgTypes
<1>11. MsgTypes'
  <2>1. kills' \in Nat
    BY <1>1, <1>2 DEF MsgTypes
  <2> QED BY <1>1, <1>2, <1>4, <1>5, <1>10, <2>1, PoolTypes DEF Eases, MsgTypes, otherPool
<1>12. KnownInv'
  <2>1. \A q \in Procs : call'[q] = call[q] \/ KnownCall(call[q])'
    BY <1>5, <1>7
  <2> QED BY <1>8, <1>9, <1>10, <2>1, KnownKept DEF TInv
<1>13. \A q \in Procs : call'[q] = call[q] \/ StaysOut(q)
  BY <1>5, <1>6
<1> QED BY <1>4, <1>8, <1>9, <1>11, <1>12, <1>13 DEF Steady

-----------------------------------------------------------------------------
(* The steps that begin to wait                                            *)

LEMMA Blocking ==
  ASSUME TInv, NEW p \in Procs, NEW i \in PortIds, NEW m, NEW op, NEW s,
         \/ op = "ptsend" /\ s = porttab[i].ptssem /\ m \in held[p]
         \/ op = "ptrecv" /\ s = porttab[i].ptrsem /\ m = 0,
         blocked(p, op, i, m, s), UNCHANGED held, otherPool
  PROVE  MsgTypes' /\ Joins(p, <<op, i>>) /\ KnownInv'
<1> DEFINE u == <<op, i>>
           c == [op |-> op, port |-> i, seq |-> porttab[i].ptseq, msg |-> m]
<1>1. /\ ~Waiting(p) /\ call[p] = Idle /\ porttab[i].ptstate = PT_ALLOC
      /\ s \in SemIds /\ semtab[s].used /\ semtab[s].count <= 0
      /\ semtab' = wait(semtab, s, p) /\ call' = [call EXCEPT ![p] = c]
      /\ UNCHANGED <<portVars, masked, panicked, kills>>
  BY DEF blocked, InUser, Runs, isused
<1>2. MsgTypes /\ call \in [Procs -> CallRecords] /\ SemTable(semtab)
        /\ porttab \in [PortIds -> PortEntries] /\ held \in [Procs -> SUBSET Bufs]
  BY DEF TInv, MInv, MsgTypes
<1>3. porttab[i].ptseq \in Nat
  BY <1>2 DEF PortEntries
<1>4. c \in CallRecords
  <2>1. CASE op = "ptsend" /\ m \in held[p]
    <3>1. m \in Bufs
      BY <1>2, <2>1
    <3> QED BY <1>3, <2>1, <3>1 DEF CallRecords, SendCalls
  <2>2. CASE op = "ptrecv" /\ m = 0
    BY <1>3, <2>2 DEF CallRecords, RecvCalls
  <2> QED BY <2>1, <2>2
<1>5. c.op = op /\ c.port = i /\ c.seq = porttab[i].ptseq /\ c.msg = m
  OBVIOUS
<1> HIDE DEF c
<1>6. /\ call' \in [Procs -> CallRecords] /\ call'[p] = c
      /\ \A q \in Procs : q # p => call'[q] = call[q]
  BY <1>1, <1>2, <1>4
<1>7. Using(c) /\ UseOf(c) = u /\ Fresh(c)
  BY <1>1, <1>5 DEF Using, UseOf, Fresh
<1>8. s # SYSERR
  BY <1>1 DEF SemIds, SYSERR
<1>9. u \in Uses /\ Live(u) /\ SemOf(u) = s
  <2>1. CASE op = "ptsend" /\ s = porttab[i].ptssem
    <3>1. u = SendUse(i)
      BY <2>1 DEF SendUse
    <3> QED BY <1>1, <1>8, <2>1, <3>1, UseNames, UseFacts DEF SendLive
  <2>2. CASE op = "ptrecv" /\ s = porttab[i].ptrsem
    <3>1. u = RecvUse(i)
      BY <2>2 DEF RecvUse
    <3> QED BY <1>1, <1>8, <2>2, <3>1, UseNames, UseFacts DEF RecvLive
  <2> QED BY <2>1, <2>2
<1> HIDE DEF u
<1>10. Joins(p, u)
  <2>1. UNCHANGED <<porttab, buftab, nbpools>>
    BY <1>1 DEF portVars, otherPool
  <2> QED BY <1>1, <1>6, <1>7, <1>9, <2>1 DEF Joins
<1>11. SemTable(semtab')
  BY <1>1, <1>2, WaitTable DEF Waiting
<1>12. MsgTypes'
  BY <1>1, <1>2, <1>6, <1>11, PortTypes DEF MsgTypes, portVars
<1>13. KnownInv'
  <2>1. Known' = Known /\ porttab' = porttab
    BY <1>1, PoolsSame DEF portVars
  <2>2. KnownCall(call[p])'
    BY <1>5, <1>6, <2>1 DEF KnownCall, TInv, KnownInv
  <2>3. \A q \in Procs : call'[q] = call[q] \/ KnownCall(call[q])'
    BY <1>6, <2>2
  <2> QED BY <2>1, <2>3, KnownKept DEF TInv
<1> QED BY <1>10, <1>12, <1>13 DEF u

LEMMA GetBlock ==
  ASSUME TInv, NEW p \in Procs, NEW k \in PoolIds, getbuf_block(p, k), UNCHANGED portVars
  PROVE  MsgTypes' /\ Joins(p, PoolUse(k)) /\ KnownInv'
<1> DEFINE u == PoolUse(k)
           s == buftab[k].bpsem
           c == [op |-> "getbuf", pool |-> k]
<1>1. /\ ~Waiting(p) /\ call[p] = Idle /\ k < nbpools
      /\ semtab[s].count <= 0
      /\ semtab' = wait(semtab, s, p) /\ call' = [call EXCEPT ![p] = c]
      /\ UNCHANGED <<poolVars, masked, panicked, kills>>
  BY DEF getbuf_block, InUser, Runs
<1>2. MsgTypes /\ call \in [Procs -> CallRecords] /\ SemTable(semtab)
  BY DEF TInv, MInv, MsgTypes
<1>4. c \in CallRecords /\ c.op = "getbuf" /\ c.pool = k
  BY DEF CallRecords, GetCalls
<1> HIDE DEF c
<1>6. /\ call' \in [Procs -> CallRecords] /\ call'[p] = c
      /\ \A q \in Procs : q # p => call'[q] = call[q]
  BY <1>1, <1>2, <1>4
<1>7. Using(c) /\ UseOf(c) = u
  BY <1>4 DEF Using, UseOf, PoolUse
<1>9. u \in Uses /\ Live(u) /\ SemOf(u) = s
  BY <1>1, UseNames, UseFacts
<1>8. s \in SemIds /\ semtab[s].used
  BY <1>9 DEF TInv, MInv, OwnInv, isused
<1> HIDE DEF u, s
<1>10. Joins(p, u)
  <2>1. UNCHANGED <<porttab, buftab, nbpools>>
    BY <1>1 DEF portVars, poolVars
  <2> QED BY <1>1, <1>4, <1>6, <1>7, <1>9, <2>1 DEF Joins
<1>11. SemTable(semtab')
  BY <1>1, <1>2, <1>8, WaitTable DEF Waiting
<1>12. MsgTypes'
  BY <1>1, <1>2, <1>6, <1>11, PoolTypes DEF MsgTypes, poolVars
<1>13. KnownInv'
  <2>1. Known' = Known /\ porttab' = porttab /\ held' = held
    BY <1>1, KnownSame DEF portVars, poolVars
  <2>2. KnownCall(call[p])'
    BY <1>4, <1>6 DEF KnownCall
  <2>3. \A q \in Procs : call'[q] = call[q] \/ KnownCall(call[q])'
    BY <1>6, <2>2
  <2> QED BY <2>1, <2>3, KnownKept DEF TInv
<1> QED BY <1>10, <1>12, <1>13 DEF u

-----------------------------------------------------------------------------
(* The steps that make, clear and reset a port                             *)

\* A step of p that touches no port but i and that lets nobody begin to wait.
Touches(p, i) ==
  /\ \A j \in PortIds : j # i => porttab'[j] = porttab[j]
  /\ \A q \in Procs : q # p => call'[q] = call[q]
  /\ ~Waiting(p) /\ ~Using(call'[p])
  /\ \A j \in PortIds : j # i => ~Clearing(p, j) /\ ~Clearing(p, j)'
  /\ SamePools /\ SemTable(semtab')
  /\ \A s \in SemIds : OnQueue(semtab', s) \subseteq OnQueue(semtab, s)

\* What such a step has to do right at its port.
OwnsAt(i) ==
  /\ \A u \in {SendUse(i), RecvUse(i)} :
       Live(u)' => isused(semtab', SemOf(u)') /\ (GoesOn(u) \/ Begins(u))
  /\ \A u \in Uses \ {SendUse(i), RecvUse(i)} : Live(u) => isused(semtab', SemOf(u))
  /\ Live(SendUse(i))' /\ Live(RecvUse(i))' /\ Begins(SendUse(i)) /\ Begins(RecvUse(i))
       => SemOf(SendUse(i))' # SemOf(RecvUse(i))'
WaitsAt(i) ==
  \A q \in Procs : Waiting(q)' /\ call[q].op \in {"ptsend", "ptrecv"} /\ call[q].port = i =>
    /\ porttab'[i].ptssem = porttab[i].ptssem /\ porttab'[i].ptrsem = porttab[i].ptrsem
    /\ porttab'[i].ptstate = PT_LIMBO
    /\ \A r \in Procs : Clearing(r, i)' =>
         /\ call[q].op = "ptsend" => call'[r].op = "dispose"
         /\ call[q].op = "ptrecv" => call'[r].op \in {"dispose", "receivers"}
OutdatedAt(i) ==
  \A q \in Procs : call[q].op \in {"ptsend", "ptrecv"} /\ call[q].port = i =>
    call[q].seq < porttab'[i].ptseq
ClearsAt(p, i) ==
  /\ \A q \in Procs : Clearing(q, i)' =>
       /\ q = p /\ porttab'[i].ptstate = PT_LIMBO
       /\ call'[q].op # "dispose" => porttab'[i].ptmsgs = <<>>
  /\ porttab'[i].ptstate = PT_FREE => porttab'[i].ptmsgs = <<>>

LEMMA TouchCalls ==
  ASSUME MInv, NEW p \in Procs, NEW i \in PortIds, Touches(p, i)
  PROVE  /\ \A q \in Procs : Waiting(q)' => Waiting(q) /\ q # p /\ call'[q] = call[q]
         /\ \A q \in Procs : Using(call'[q]) => q # p /\ call'[q] = call[q]
         /\ \A q \in Procs, j \in PortIds : j # i /\ Clearing(q, j)' =>
              q # p /\ Clearing(q, j) /\ call'[q] = call[q]
         /\ \A u \in Uses \ {SendUse(i), RecvUse(i)} :
              SemOf(u)' = SemOf(u) /\ (Live(u)' => Live(u))
<1>1. \A q \in Procs : Waiting(q)' => Waiting(q) /\ q # p /\ call'[q] = call[q]
  BY WaitingNext DEF Touches
<1>2. \A q \in Procs : Using(call'[q]) => q # p /\ call'[q] = call[q]
  BY DEF Touches
<1>3. ASSUME NEW q \in Procs, NEW j \in PortIds, j # i, Clearing(q, j)'
      PROVE  q # p /\ Clearing(q, j) /\ call'[q] = call[q]
  <2>1. q # p
    BY <1>3 DEF Touches
  <2>2. call'[q] = call[q]
    BY <2>1 DEF Touches
  <2> QED BY <1>3, <2>1, <2>2 DEF Clearing
<1>4. ASSUME NEW j \in PortIds, j # i, NEW ops, Keeps(j, ops)' PROVE Keeps(j, ops)
  <2>1. PICK q \in Procs : Clearing(q, j)' /\ (call'[q].op \in ops \/ call'[q].newstate = PT_ALLOC)
    BY <1>4 DEF Keeps
  <2> QED BY <1>3, <1>4, <2>1 DEF Keeps
<1>5. ASSUME NEW u \in Uses \ {SendUse(i), RecvUse(i)}
      PROVE  SemOf(u)' = SemOf(u) /\ (Live(u)' => Live(u))
  <2>1. ASSUME NEW j \in PortIds, u = SendUse(j) \/ u = RecvUse(j)
        PROVE  SemOf(u)' = SemOf(u) /\ (Live(u)' => Live(u))
    <3>1. j # i /\ porttab'[j] = porttab[j]
      BY <1>5, <2>1 DEF Touches
    <3>2. CASE u = SendUse(j)
      <4>1. SemOf(SendUse(j))' = SemOf(SendUse(j))
             /\ (Live(SendUse(j))' => Live(SendUse(j)))
        BY <1>4, <3>1, UseFacts, UseFactsNext DEF SendLive
      <4> QED BY <3>2, <4>1
    <3>3. CASE u = RecvUse(j)
      <4>1. SemOf(RecvUse(j))' = SemOf(RecvUse(j))
             /\ (Live(RecvUse(j))' => Live(RecvUse(j)))
        BY <1>4, <3>1, UseFacts, UseFactsNext DEF RecvLive
      <4> QED BY <3>3, <4>1
    <3> QED BY <2>1, <3>2, <3>3
  <2>2. ASSUME NEW k \in PoolIds, u = PoolUse(k)
        PROVE  SemOf(u)' = SemOf(u) /\ (Live(u)' => Live(u))
    <3>1. SemOf(PoolUse(k))' = SemOf(PoolUse(k)) /\ (Live(PoolUse(k))' => Live(PoolUse(k)))
      BY UseFacts, UseFactsNext DEF Touches, SamePools
    <3> QED BY <2>2, <3>1
  <2> QED BY <2>1, <2>2, UseNames
<1> QED BY <1>1, <1>2, <1>3, <1>5

LEMMA TouchStep ==
  ASSUME MInv, MsgTypes', NEW p \in Procs, NEW i \in PortIds, Touches(p, i),
         OwnsAt(i), WaitsAt(i), OutdatedAt(i), ClearsAt(p, i)
  PROVE  MInv'
<1>0. /\ call \in [Procs -> CallRecords] /\ call' \in [Procs -> CallRecords]
      /\ SemTable(semtab) /\ SemTable(semtab')
  BY DEF MInv, MsgTypes
<1>1. /\ \A q \in Procs : Waiting(q)' => Waiting(q) /\ q # p /\ call'[q] = call[q]
      /\ \A q \in Procs : Using(call'[q]) => q # p /\ call'[q] = call[q]
      /\ \A q \in Procs, j \in PortIds : j # i /\ Clearing(q, j)' =>
           q # p /\ Clearing(q, j) /\ call'[q] = call[q]
      /\ \A u \in Uses \ {SendUse(i), RecvUse(i)} :
           SemOf(u)' = SemOf(u) /\ (Live(u)' => Live(u))
  BY TouchCalls
<1>2. \A j \in PortIds : j # i => porttab'[j] = porttab[j]
  BY DEF Touches
<1>3. OwnInv'
  <2> DEFINE here == {SendUse(i), RecvUse(i)}
  <2>1. \A u \in Uses : Live(u)' => isused(semtab', SemOf(u)') /\ (GoesOn(u) \/ Begins(u))
    <3> SUFFICES ASSUME NEW u \in Uses, Live(u)'
                 PROVE  isused(semtab', SemOf(u)') /\ (GoesOn(u) \/ Begins(u))
      OBVIOUS
    <3>1. CASE u \in here
      BY <3>1 DEF OwnsAt
    <3>2. CASE u \notin here
      BY <1>1, <3>2 DEF OwnsAt, GoesOn
    <3> QED BY <3>1, <3>2
  <2>2. \A u \in Uses : Live(u)' /\ Begins(u) => u \in here
    <3> SUFFICES ASSUME NEW u \in Uses, Live(u)', Begins(u), u \notin here PROVE FALSE
      OBVIOUS
    <3>1. Live(u) /\ SemOf(u)' = SemOf(u)
      BY <1>1
    <3> QED BY <3>1 DEF MInv, OwnInv, Begins
  <2>3. \A u, v \in Uses : Live(u)' /\ Live(v)' /\ Begins(u) /\ Begins(v)
                              /\ SemOf(u)' = SemOf(v)' => u = v
    <3> SUFFICES ASSUME NEW u \in Uses, NEW v \in Uses, Live(u)', Live(v)',
                        Begins(u), Begins(v), SemOf(u)' = SemOf(v)'
                 PROVE  u = v
      OBVIOUS
    <3>1. u \in here /\ v \in here
      BY <2>2
    <3>2. CASE u = SendUse(i) /\ v = RecvUse(i)
      BY <3>2 DEF OwnsAt
    <3>3. CASE u = RecvUse(i) /\ v = SendUse(i)
      BY <3>3 DEF OwnsAt
    <3> QED BY <3>1, <3>2, <3>3
  <2>4. \A q \in Procs : Waiting(q)' /\ Using(call[q]) =>
                            SemOf(UseOf(call[q]))' = SemOf(UseOf(call[q]))
    <3> SUFFICES ASSUME NEW q \in Procs, Waiting(q)', Using(call[q])
                 PROVE  SemOf(UseOf(call[q]))' = SemOf(UseOf(call[q]))
      OBVIOUS
    <3>1. call'[q] = call[q]
      BY <1>1
    <3>2. PICK v \in Uses : v = UseOf(call[q])
      BY <1>0, UseOfInUses
    <3>3. UseOf(call[q])' = v
      BY <3>1, <3>2 DEF UseOf
    <3>4. SemOf(UseOf(call[q]))' = SemOf(v)'
      BY <3>3 DEF SemOf
    <3>5. SemOf(v)' = SemOf(v)
      <4>1. CASE v \in here
        <5>1. call[q].op \in {"ptsend", "ptrecv"} /\ call[q].port = i
          BY <3>2, <4>1, UseFacts, UseNames
        <5>2. porttab'[i].ptssem = porttab[i].ptssem /\ porttab'[i].ptrsem = porttab[i].ptrsem
          BY <5>1 DEF WaitsAt
        <5>3. SemOf(SendUse(i))' = SemOf(SendUse(i)) /\ SemOf(RecvUse(i))' = SemOf(RecvUse(i))
          BY <5>2, UseFacts, UseFactsNext
        <5> QED BY <4>1, <5>3
      <4>2. CASE v \notin here
        BY <1>1, <4>2
      <4> QED BY <4>1, <4>2
    <3> QED BY <3>2, <3>4, <3>5
  <2>5. \A q \in Procs : call'[q].op = "getbuf" => call'[q].pool < nbpools'
    BY <1>1 DEF MInv, OwnInv, Touches, SamePools, Using
  <2>6. /\ \A s \in SemIds : OnQueue(semtab', s) \subseteq OnQueue(semtab, s)
        /\ \A q \in Procs : Waiting(q)' => call'[q] = call[q]
    BY <1>1 DEF Touches
  <2> HIDE DEF here
  <2> QED BY <1>0, <2>1, <2>3, <2>4, <2>5, <2>6, OwnKept
<1>4. SeqInv'
  <2> SUFFICES ASSUME NEW q \in Procs, call'[q].op \in {"ptsend", "ptrecv"}
               PROVE  /\ call'[q].seq <= porttab'[call'[q].port].ptseq
                      /\ porttab'[call'[q].port].ptstate # PT_ALLOC =>
                           call'[q].seq < porttab'[call'[q].port].ptseq
    BY DEF SeqInv
  <2>1. call'[q] = call[q]
    BY <1>1 DEF Using
  <2>2. call[q].port \in PortIds /\ call[q].seq \in Nat
    BY <1>0, <2>1, CallKinds DEF SendCalls, RecvCalls
  <2>3. CASE call[q].port = i
    <3>1. call[q].seq < porttab'[i].ptseq
      BY <2>1, <2>3 DEF OutdatedAt
    <3>2. porttab'[i].ptseq \in Nat
      BY DEF MsgTypes, PortEntries
    <3> QED BY <2>1, <2>2, <2>3, <3>1, <3>2
  <2>4. CASE call[q].port # i
    BY <1>2, <2>1, <2>2, <2>4 DEF MInv, SeqInv
  <2> QED BY <2>3, <2>4
<1>5. FreshInv'
  <2> SUFFICES ASSUME NEW q \in Procs, call'[q].op \in {"ptsend", "ptrecv"}, Fresh(call[q])'
      PROVE  /\ call'[q].op = "ptsend" => porttab'[call'[q].port].ptssem # SYSERR
             /\ call'[q].op = "ptrecv" => porttab'[call'[q].port].ptrsem # SYSERR
    BY DEF FreshInv
  <2>1. call'[q] = call[q]
    BY <1>1 DEF Using
  <2>2. call[q].port \in PortIds /\ call[q].seq \in Nat
    BY <1>0, <2>1, CallKinds DEF SendCalls, RecvCalls
  <2>3. call[q].port # i
    BY <2>1, <2>2 DEF OutdatedAt, Fresh
  <2>4. Fresh(call[q])
    BY <1>2, <2>1, <2>2, <2>3 DEF Fresh
  <2> QED BY <1>2, <2>1, <2>2, <2>3, <2>4 DEF MInv, FreshInv
<1>6. WaitInv'
  <2> SUFFICES ASSUME NEW q \in Procs, Waiting(q)', call'[q].op \in {"ptsend", "ptrecv"}
      PROVE  /\ call'[q].op = "ptsend" =>
                 \/ Fresh(call[q])'
                 \/ /\ porttab'[call'[q].port].ptstate = PT_LIMBO
                    /\ \A r \in Procs : Clearing(r, call[q].port)' => call'[r].op = "dispose"
             /\ call'[q].op = "ptrecv" =>
                 \/ Fresh(call[q])'
                 \/ /\ porttab'[call'[q].port].ptstate = PT_LIMBO
                    /\ \A r \in Procs : Clearing(r, call[q].port)' =>
                         call'[r].op \in {"dispose", "receivers"}
    BY DEF WaitInv
  <2>1. Waiting(q) /\ call'[q] = call[q]
    BY <1>1
  <2>2. PICK j \in PortIds : call[q].port = j /\ call'[q].port = j
    BY <1>0, <2>1, CallKinds DEF SendCalls, RecvCalls
  <2>3. \A r \in Procs : Clearing(r, call[q].port)' => Clearing(r, j)'
    BY <2>2 DEF Clearing
  <2>4. CASE j = i
    BY <2>1, <2>2, <2>3, <2>4 DEF WaitsAt
  <2>5. CASE j # i
    <3>1. Fresh(call[q]) => Fresh(call[q])'
      BY <1>2, <2>1, <2>2, <2>5 DEF Fresh
    <3>2. \A r \in Procs : Clearing(r, j)' => Clearing(r, j) /\ call'[r] = call[r]
      BY <1>1, <2>5
    <3>3. porttab'[j] = porttab[j]
      BY <1>2, <2>5
    <3> QED BY <2>1, <2>2, <2>3, <3>1, <3>2, <3>3 DEF MInv, WaitInv
  <2> QED BY <2>4, <2>5
<1>7. ClearInv'
  <2>1. ASSUME NEW q \in Procs, NEW j \in PortIds, Clearing(q, j)'
        PROVE  /\ porttab'[j].ptstate = PT_LIMBO
               /\ call'[q].op # "dispose" => porttab'[j].ptmsgs = <<>>
    <3>1. CASE j = i
      BY <2>1, <3>1 DEF ClearsAt
    <3>2. CASE j # i
      BY <1>1, <1>2, <2>1, <3>2 DEF MInv, ClearInv
    <3> QED BY <3>1, <3>2
  <2>2. ASSUME NEW q \in Procs, NEW r \in Procs, NEW j \in PortIds,
               Clearing(q, j)', Clearing(r, j)'
        PROVE  q = r
    <3>1. CASE j = i
      BY <2>2, <3>1 DEF ClearsAt
    <3>2. CASE j # i
      BY <1>1, <2>2, <3>2 DEF MInv, ClearInv
    <3> QED BY <3>1, <3>2
  <2>3. ASSUME NEW j \in PortIds
        PROVE  porttab'[j].ptstate = PT_FREE => porttab'[j].ptmsgs = <<>>
    BY <1>2 DEF MInv, ClearInv, ClearsAt
  <2> QED BY <2>1, <2>2, <2>3 DEF ClearInv
<1> QED BY <1>3, <1>4, <1>5, <1>6, <1>7 DEF MInv

\* The process that clears a port is the only one that does.
LEMMA Clearer ==
  ASSUME MInv, NEW p \in Procs, call[p].op \in {"dispose", "receivers", "newstate"}
  PROVE  LET i == call[p].port
         IN  /\ call[p] \in ClearCalls /\ i \in PortIds /\ Clearing(p, i)
             /\ porttab[i].ptstate = PT_LIMBO
             /\ call[p].op # "dispose" => porttab[i].ptmsgs = <<>>
             /\ \A q \in Procs : Clearing(q, i) => q = p
             /\ \A j \in PortIds : Clearing(p, j) => j = i
             /\ \A q \in Procs : call[q].op \in {"ptsend", "ptrecv"} /\ call[q].port = i =>
                  call[q].seq < porttab[i].ptseq
<1> DEFINE i == call[p].port
<1>1. call \in [Procs -> CallRecords]
  BY DEF MInv, MsgTypes
<1>2. call[p] \in ClearCalls
  BY <1>1, CallKinds
<1>3. i \in PortIds /\ Clearing(p, i)
  BY <1>2 DEF ClearCalls, Clearing
<1>4. \A j \in PortIds : Clearing(p, j) => j = i
  BY DEF Clearing
<1> HIDE DEF i
<1>5. /\ porttab[i].ptstate = PT_LIMBO
      /\ call[p].op # "dispose" => porttab[i].ptmsgs = <<>>
      /\ \A q \in Procs : Clearing(q, i) => q = p
  BY <1>3 DEF MInv, ClearInv
<1>6. ASSUME NEW q \in Procs, call[q].op \in {"ptsend", "ptrecv"}, call[q].port = i
      PROVE  call[q].seq < porttab[i].ptseq
  BY <1>5, <1>6 DEF MInv, SeqInv, PT_LIMBO, PT_ALLOC
<1> QED BY <1>2, <1>3, <1>4, <1>5, <1>6 DEF i

\* The state of port i changes, and the sequence number.
PortChange(i, e) == porttab' = [porttab EXCEPT ![i] = e]

LEMMA PortChanged ==
  ASSUME porttab \in [PortIds -> PortEntries], NEW i \in PortIds, NEW e \in PortEntries,
         PortChange(i, e)
  PROVE  /\ porttab' \in [PortIds -> PortEntries] /\ porttab'[i] = e
         /\ \A j \in PortIds : j # i => porttab'[j] = porttab[j]
BY DEF PortChange

LEMMA ClearStep ==
  ASSUME TInv, NEW p \in Procs, NEW i \in PortIds, NEW newstate \in {PT_FREE, PT_ALLOC},
         ptclear(p, i, newstate), UNCHANGED poolVars
  PROVE  TInv'
<1> DEFINE e == [porttab[i] EXCEPT !.ptstate = PT_LIMBO, !.ptseq = @ + 1]
           c == [op |-> "dispose", port |-> i, newstate |-> newstate, walk |-> porttab[i].ptmsgs]
<1>1. /\ ~Waiting(p) /\ call[p] = Idle /\ porttab[i].ptstate = PT_ALLOC
      /\ PortChange(i, e) /\ call' = [call EXCEPT ![p] = c]
      /\ UNCHANGED <<ptfree, ptnextid, semtab, panicked, kills>>
  BY DEF ptclear, InUser, Runs, PortChange
<1>2. /\ MInv /\ MsgTypes /\ call \in [Procs -> CallRecords] /\ SemTable(semtab)
      /\ porttab \in [PortIds -> PortEntries] /\ porttab[i] \in PortEntries
  BY DEF TInv, MInv, MsgTypes
<1>3. /\ e \in PortEntries /\ e.ptstate = PT_LIMBO /\ e.ptseq = porttab[i].ptseq + 1
      /\ e.ptssem = porttab[i].ptssem /\ e.ptrsem = porttab[i].ptrsem
      /\ e.ptmsgs = porttab[i].ptmsgs
  <2> DEFINE old == porttab[i]
             n == old.ptseq + 1
             mid == [old EXCEPT !.ptstate = PT_LIMBO]
  <2>1. old.ptseq \in Nat /\ n \in Nat /\ old \in PortEntries
    BY <1>2 DEF PortEntries
  <2>2. e = [mid EXCEPT !.ptseq = n]
    OBVIOUS
  <2> HIDE DEF n, old, e
  <2>3. /\ mid \in PortEntries /\ mid.ptstate = PT_LIMBO
        /\ mid.ptssem = old.ptssem /\ mid.ptrsem = old.ptrsem /\ mid.ptmsgs = old.ptmsgs
    BY <2>1 DEF PortEntries
  <2> HIDE DEF mid
  <2>4. /\ e \in PortEntries /\ e.ptseq = n /\ e.ptstate = mid.ptstate
        /\ e.ptssem = mid.ptssem /\ e.ptrsem = mid.ptrsem /\ e.ptmsgs = mid.ptmsgs
    BY <2>1, <2>2, <2>3 DEF PortEntries
  <2> QED BY <2>3, <2>4 DEF n, old
<1>4. c \in CallRecords /\ c.op = "dispose" /\ c.port = i /\ c.walk = porttab[i].ptmsgs
  BY <1>2 DEF PortEntries, CallRecords, ClearCalls
<1> HIDE DEF e, c
<1>5. /\ porttab' \in [PortIds -> PortEntries] /\ porttab'[i] = e
      /\ \A j \in PortIds : j # i => porttab'[j] = porttab[j]
  BY <1>1, <1>2, <1>3, PortChanged
<1>6. /\ call' \in [Procs -> CallRecords] /\ call'[p] = c
      /\ \A q \in Procs : q # p => call'[q] = call[q]
  BY <1>1, <1>2, <1>4
<1>7. \A q \in Procs : ~Clearing(q, i)
  BY <1>1, <1>2 DEF MInv, ClearInv, PT_ALLOC, PT_LIMBO
<1>8. Touches(p, i)
  <2>1. \A j \in PortIds : j # i => ~Clearing(p, j) /\ ~Clearing(p, j)'
    BY <1>1, <1>4, <1>6 DEF Clearing, Idle
  <2>2. ~Using(call'[p])
    BY <1>4, <1>6 DEF Using
  <2> QED BY <1>1, <1>2, <1>5, <1>6, <2>1, <2>2 DEF Touches, SamePools, poolVars
<1>9. OwnsAt(i)
  <2>1. Live(SendUse(i))' => Live(SendUse(i))
    BY <1>1, <1>3, <1>5, UseFacts, UseFactsNext DEF SendLive
  <2>2. Live(RecvUse(i))' => Live(RecvUse(i))
    BY <1>1, <1>3, <1>5, UseFacts, UseFactsNext DEF RecvLive
  <2>3. SemOf(SendUse(i))' = SemOf(SendUse(i)) /\ SemOf(RecvUse(i))' = SemOf(RecvUse(i))
    BY <1>3, <1>5, UseFacts, UseFactsNext
  <2>4. \A u \in Uses : Live(u) => isused(semtab', SemOf(u))
    BY <1>1, <1>2 DEF MInv, OwnInv
  <2>5. SendUse(i) \in Uses /\ RecvUse(i) \in Uses
    BY UseNames
  <2>6. Live(SendUse(i))' => isused(semtab', SemOf(SendUse(i))') /\ GoesOn(SendUse(i))
    BY <2>1, <2>3, <2>4, <2>5 DEF GoesOn
  <2>7. Live(RecvUse(i))' => isused(semtab', SemOf(RecvUse(i))') /\ GoesOn(RecvUse(i))
    BY <2>2, <2>3, <2>4, <2>5 DEF GoesOn
  <2>8. Live(SendUse(i))' => ~Begins(SendUse(i))
    BY <1>1, <2>6 DEF Begins
  <2> QED BY <2>4, <2>6, <2>7, <2>8 DEF OwnsAt
<1>10. ASSUME NEW q \in Procs, Clearing(q, i)'
       PROVE  q = p /\ call'[q].op = "dispose"
  <2>1. q # p => Clearing(q, i)
    BY <1>6, <1>10 DEF Clearing
  <2> QED BY <1>4, <1>6, <1>7, <2>1
<1>11. WaitsAt(i)
  BY <1>3, <1>5, <1>10 DEF WaitsAt
<1>12. OutdatedAt(i)
  <2> SUFFICES ASSUME NEW q \in Procs, call[q].op \in {"ptsend", "ptrecv"}, call[q].port = i
               PROVE  call[q].seq < porttab'[i].ptseq
    BY DEF OutdatedAt
  <2>1. call[q].seq \in Nat /\ porttab[i].ptseq \in Nat
    BY <1>2, CallKinds DEF SendCalls, RecvCalls, PortEntries
  <2>2. call[q].seq <= porttab[i].ptseq
    BY <1>2 DEF MInv, SeqInv
  <2> QED BY <1>3, <1>5, <2>1, <2>2
<1>13. ClearsAt(p, i)
  BY <1>3, <1>5, <1>10 DEF ClearsAt, PT_LIMBO, PT_FREE
<1>14. MsgTypes'
  BY <1>1, <1>2, <1>5, <1>6 DEF MsgTypes, poolVars
<1>15. MInv'
  BY <1>2, <1>8, <1>9, <1>11, <1>12, <1>13, <1>14, TouchStep
<1>16. KnownInv'
  <2>1. Known' = Known /\ held' = held
    BY KnownSame DEF poolVars
  <2>2. Range(porttab[i].ptmsgs) \subseteq Known
    BY DEF TInv, KnownInv
  <2>3. KnownCall(call[p])'
    BY <1>4, <1>6, <2>1, <2>2 DEF KnownCall
  <2>4. \A q \in Procs : call'[q] = call[q] \/ KnownCall(call[q])'
    BY <1>6, <2>3
  <2>5. \A j \in PortIds : Range(porttab'[j].ptmsgs) \subseteq Range(porttab[j].ptmsgs)
    BY <1>3, <1>5
  <2> QED BY <2>1, <2>4, <2>5, KnownKept DEF TInv
<1> QED BY <1>15, <1>16 DEF TInv

\* semreset() or semdelete() of the semaphore of use u, by process p.
LEMMA ClearSem ==
  ASSUME MInv, NEW p, NEW u \in Uses, SemOf(u) \in SemIds \cup {SYSERR},
         SemOf(u) # SYSERR => Live(u), NEW count \in Nat,
         semtab' = clearsem(call[p], SemOf(u), count)
  PROVE  /\ SemTable(semtab')
         /\ \A s \in SemIds : OnQueue(semtab', s) \subseteq OnQueue(semtab, s)
         /\ \A s \in SemIds : s # SemOf(u) => semtab'[s] = semtab[s]
         /\ \A v \in Uses : v # u /\ Live(v) => /\ isused(semtab', SemOf(v))
                                                /\ SemOf(v) # SemOf(u)
         /\ SemOf(u) # SYSERR /\ call[p].newstate = PT_ALLOC =>
              isused(semtab', SemOf(u)) /\ semtab'[SemOf(u)].count = count
         /\ \A q \in Procs : Using(call[q]) /\ UseOf(call[q]) = u => ~Waiting(q)'
<1> DEFINE s == SemOf(u)
<1>0. /\ SemTable(semtab) /\ call \in [Procs -> CallRecords]
      /\ \A v \in Uses : Live(v) => isused(semtab, SemOf(v))
      /\ \A v \in Uses : Live(v) /\ Live(u) /\ SemOf(v) = SemOf(u) => v = u
      /\ \A r \in SemIds : \A q \in OnQueue(semtab, r) :
           Using(call[q]) /\ r = SemOf(UseOf(call[q]))
  BY DEF MInv, MsgTypes, OwnInv
<1>1. SYSERR \notin SemIds
  BY DEF SemIds, SYSERR
<1>2. ASSUME NEW v \in Uses, v # u, Live(v) PROVE SemOf(v) # s /\ SemOf(v) \in SemIds
  <2>1. SemOf(v) \in SemIds
    BY <1>0, <1>2 DEF isused
  <2> QED BY <1>0, <1>1, <1>2, <2>1
<1>3. CASE s = SYSERR
  <2>1. semtab' = semtab
    BY <1>1, <1>3, SignalUnused DEF clearsem, isused
  <2>2. \A q \in Procs : Using(call[q]) /\ UseOf(call[q]) = u => ~Waiting(q)
    BY <1>0, <1>1, <1>3, WaitingNext
  <2>3. \A q \in Procs : Using(call[q]) /\ UseOf(call[q]) = u => ~Waiting(q)'
    BY <2>1, <2>2, WaitingNext
  <2>4. ASSUME NEW v \in Uses, v # u, Live(v) PROVE isused(semtab', SemOf(v)) /\ SemOf(v) # s
    BY <1>0, <1>2, <2>1, <2>4
  <2> QED BY <1>0, <1>3, <2>1, <2>3, <2>4
<1>4. CASE s # SYSERR
  <2>1. s \in SemIds /\ semtab[s].used /\ isused(semtab, s)
    BY <1>0, <1>4 DEF isused
  <2>2. /\ SemTable(semtab') /\ OnlyChanges(semtab, semtab', s) /\ OnQueue(semtab', s) = {}
        /\ call[p].newstate = PT_ALLOC => semtab'[s].used /\ semtab'[s].count = count
    <3> HIDE DEF s
    <3>0. semtab' = clearsem(call[p], s, count)
      BY DEF s
    <3>1. CASE call[p].newstate = PT_ALLOC
      <4>1. semtab' = semreset(semtab, s, count)
        BY <3>0, <3>1 DEF clearsem
      <4> QED BY <1>0, <2>1, <4>1, ResetTable
    <3>2. CASE call[p].newstate # PT_ALLOC
      <4>1. semtab' = semdelete(semtab, s)
        BY <3>0, <3>2 DEF clearsem
      <4> QED BY <1>0, <2>1, <3>2, <4>1, DeleteTable
    <3> QED BY <3>1, <3>2
  <2>3. \A r \in SemIds : r # s => semtab'[r] = semtab[r] /\ OnQueue(semtab', r) = OnQueue(semtab, r)
    BY <2>2 DEF OnlyChanges, OnQueue
  <2>4. \A r \in SemIds : OnQueue(semtab', r) \subseteq OnQueue(semtab, r)
    BY <2>2, <2>3
  <2>5. ASSUME NEW v \in Uses, v # u, Live(v) PROVE isused(semtab', SemOf(v)) /\ SemOf(v) # s
    BY <1>0, <1>2, <2>3, <2>5 DEF isused
  <2>6. ASSUME NEW q \in Procs, Using(call[q]), UseOf(call[q]) = u, Waiting(q)' PROVE FALSE
    <3>1. PICK r \in SemIds : q \in OnQueue(semtab', r)
      BY <2>6, WaitingNext
    <3>2. r = s
      BY <1>0, <2>4, <2>6, <3>1
    <3> QED BY <2>2, <3>1, <3>2
  <2> QED BY <1>4, <2>1, <2>2, <2>3, <2>4, <2>5, <2>6 DEF isused
<1> QED BY <1>3, <1>4

\* The clearing of a port gets on: its process p has dealt with use u.
LEMMA Proceeds ==
  ASSUME MInv, NEW p \in Procs, call[p].op \in {"dispose", "receivers"}, ~Waiting(p),
         NEW op \in {"receivers", "newstate"}, call' = [call EXCEPT ![p].op = op]
  PROVE  LET i == call[p].port
         IN  /\ call' \in [Procs -> CallRecords]
             /\ call'[p].op = op /\ call'[p].port = i
             /\ call'[p].newstate = call[p].newstate /\ call'[p].walk = call[p].walk
             /\ \A q \in Procs : q # p => call'[q] = call[q]
             /\ ~Using(call'[p])
             /\ \A q \in Procs, j \in PortIds : Clearing(q, j)' <=> Clearing(q, j)
<1> DEFINE c == [call[p] EXCEPT !.op = op]
<1>1. call[p] \in ClearCalls /\ call \in [Procs -> CallRecords]
  BY Clearer DEF MInv, MsgTypes
<1>2. /\ c \in CallRecords /\ c.op = op /\ c.port = call[p].port
      /\ c.newstate = call[p].newstate /\ c.walk = call[p].walk
  BY <1>1 DEF ClearCalls, CallRecords
<1>3. call' = [call EXCEPT ![p] = c]
  OBVIOUS
<1> HIDE DEF c
<1>4. /\ call' \in [Procs -> CallRecords] /\ call'[p] = c
      /\ \A q \in Procs : q # p => call'[q] = call[q]
  BY <1>1, <1>2, <1>3
<1>5. ~Using(call'[p])
  BY <1>2, <1>4 DEF Using
<1>6. \A q \in Procs, j \in PortIds : Clearing(q, j)' <=> Clearing(q, j)
  BY <1>2, <1>4 DEF Clearing
<1> QED BY <1>2, <1>4, <1>5, <1>6

LEMMA SendersStep ==
  ASSUME TInv, NEW p \in Procs, ptclear_senders(p), UNCHANGED poolVars
  PROVE  TInv'
<1>0. PICK i \in PortIds : call[p].port = i
  BY Clearer DEF TInv, ptclear_senders, Resumes
<1> DEFINE s == porttab[i].ptssem
           n == porttab[i].ptmaxcnt
<1>1. /\ ~Waiting(p) /\ call[p].op = "dispose"
      /\ ptfree' = ptfree + Len(porttab[i].ptmsgs)
      /\ NewMessages(i, <<>>)
      /\ semtab' = clearsem(call[p], s, n)
      /\ call' = [call EXCEPT ![p].op = "receivers"]
      /\ UNCHANGED <<ptnextid, panicked, kills>>
  BY <1>0 DEF ptclear_senders, Resumes, Runs, NewMessages
<1>2. /\ MInv /\ MsgTypes /\ call \in [Procs -> CallRecords] /\ SemTable(semtab)
      /\ porttab \in [PortIds -> PortEntries]
  BY DEF TInv, MInv, MsgTypes
<1>3. /\ call[p] \in ClearCalls /\ i \in PortIds /\ Clearing(p, i)
      /\ porttab[i].ptstate = PT_LIMBO
      /\ \A q \in Procs : Clearing(q, i) => q = p
      /\ \A j \in PortIds : Clearing(p, j) => j = i
      /\ \A q \in Procs : call[q].op \in {"ptsend", "ptrecv"} /\ call[q].port = i =>
           call[q].seq < porttab[i].ptseq
  BY <1>0, <1>1, <1>2, Clearer
<1>4. /\ call' \in [Procs -> CallRecords] /\ call'[p].op = "receivers"
      /\ call'[p].newstate = call[p].newstate
      /\ \A q \in Procs : q # p => call'[q] = call[q]
      /\ ~Using(call'[p])
      /\ \A q \in Procs, j \in PortIds : Clearing(q, j)' <=> Clearing(q, j)
  BY <1>1, <1>2, Proceeds
<1>5. /\ porttab' \in [PortIds -> PortEntries] /\ SamePorts /\ porttab'[i].ptmsgs = <<>>
      /\ \A j \in PortIds : j # i => porttab'[j] = porttab[j]
  BY <1>1, <1>2, <1>3, EmptySeq, MessagesChange
<1>6. /\ porttab[i].ptmsgs \in Seq(Bufs) /\ s \in SemIds \cup {SYSERR} /\ n \in Nat
  BY <1>2, <1>3 DEF PortEntries
<1> DEFINE u == SendUse(i)
           v == RecvUse(i)
<1>7. u \in Uses /\ v \in Uses /\ u # v /\ SemOf(u) = s /\ SemOf(u)' = SemOf(u)
        /\ SemOf(v)' = SemOf(v)
  BY <1>3, <1>5, UseNames, UseFacts, UseFactsNext DEF SamePorts
<1>8. s # SYSERR => Live(u)
  BY <1>1, <1>3, UseFacts DEF SendLive, Keeps
<1>9. /\ SemTable(semtab')
      /\ \A r \in SemIds : OnQueue(semtab', r) \subseteq OnQueue(semtab, r)
      /\ \A w \in Uses : w # u /\ Live(w) => isused(semtab', SemOf(w))
      /\ s # SYSERR /\ call[p].newstate = PT_ALLOC => isused(semtab', s)
      /\ \A q \in Procs : Using(call[q]) /\ UseOf(call[q]) = u => ~Waiting(q)'
  <2> HIDE DEF u, v, s, n
  <2> QED BY <1>1, <1>2, <1>6, <1>7, <1>8, ClearSem
<1>10. Touches(p, i)
  <2>1. SamePools
    BY DEF SamePools, poolVars
  <2> QED BY <1>1, <1>3, <1>4, <1>5, <1>9, <2>1 DEF Touches
<1>11. OwnsAt(i)
  <2>1. Live(u)' => isused(semtab', SemOf(u)') /\ GoesOn(u)
    <3> SUFFICES ASSUME Live(u)' PROVE isused(semtab', SemOf(u)') /\ GoesOn(u)
      OBVIOUS
    <3>1. s # SYSERR /\ Keeps(i, {"dispose"})'
      BY <1>3, <1>5, UseFactsNext DEF SendLive, SamePorts, PT_LIMBO, PT_ALLOC
    <3>2. call[p].newstate = PT_ALLOC
      BY <1>3, <1>4, <3>1 DEF Keeps
    <3> QED BY <1>7, <1>8, <1>9, <3>1, <3>2 DEF GoesOn
  <2>2. Live(v)' => isused(semtab', SemOf(v)') /\ GoesOn(v)
    <3> SUFFICES ASSUME Live(v)' PROVE isused(semtab', SemOf(v)') /\ GoesOn(v)
      OBVIOUS
    <3>1. Live(v)
      <4>1. porttab[i].ptrsem # SYSERR
        BY <1>3, <1>5, UseFactsNext DEF RecvLive, SamePorts
      <4> QED BY <1>1, <1>3, <4>1, UseFacts DEF RecvLive, Keeps
    <3> QED BY <1>7, <1>9, <3>1 DEF GoesOn
  <2>3. Live(v)' => ~Begins(v)
    BY <1>2, <1>7, <2>2 DEF Begins, GoesOn, MInv, OwnInv
  <2> QED BY <1>9, <2>1, <2>2, <2>3 DEF OwnsAt
<1>12. WaitsAt(i)
  <2> SUFFICES ASSUME NEW q \in Procs, Waiting(q)', call[q].op \in {"ptsend", "ptrecv"},
                      call[q].port = i
      PROVE  /\ porttab'[i].ptssem = porttab[i].ptssem /\ porttab'[i].ptrsem = porttab[i].ptrsem
             /\ porttab'[i].ptstate = PT_LIMBO
             /\ \A r \in Procs : Clearing(r, i)' =>
                  /\ call[q].op = "ptsend" => call'[r].op = "dispose"
                  /\ call[q].op = "ptrecv" => call'[r].op \in {"dispose", "receivers"}
    BY DEF WaitsAt
  <2>1. call[q].op # "ptsend"
    BY <1>9, UseFacts
  <2>2. \A r \in Procs : Clearing(r, i)' => call'[r].op = "receivers"
    BY <1>3, <1>4
  <2> QED BY <1>3, <1>5, <2>1, <2>2 DEF SamePorts
<1>13. OutdatedAt(i)
  BY <1>3, <1>5 DEF OutdatedAt, SamePorts
<1>14. ClearsAt(p, i)
  BY <1>3, <1>4, <1>5 DEF ClearsAt, SamePorts
<1>15. MsgTypes'
  <2>1. Len(porttab[i].ptmsgs) \in Nat
    BY <1>6, LenProperties
  <2>2. ptfree' \in Nat
    BY <1>1, <1>2, <2>1 DEF MsgTypes
  <2> QED BY <1>1, <1>2, <1>4, <1>5, <1>9, <2>2 DEF MsgTypes, poolVars
<1>16. MInv'
  BY <1>2, <1>3, <1>10, <1>11, <1>12, <1>13, <1>14, <1>15, TouchStep
<1>17. KnownInv'
  <2>1. Known' = Known /\ held' = held
    BY KnownSame DEF poolVars
  <2>2. KnownCall(call[p])'
    BY <1>4 DEF KnownCall
  <2>3. \A q \in Procs : call'[q] = call[q] \/ KnownCall(call[q])'
    BY <1>4, <2>2
  <2>4. Range(<<>>) = {}
    BY ListEmpty DEF Lists
  <2>5. \A j \in PortIds : Range(porttab'[j].ptmsgs) \subseteq Range(porttab[j].ptmsgs)
    BY <1>5, <2>4
  <2> QED BY <2>1, <2>3, <2>5, KnownKept DEF TInv
<1> QED BY <1>16, <1>17 DEF TInv

LEMMA ReceiversStep ==
  ASSUME TInv, NEW p \in Procs, ptclear_receivers(p), UNCHANGED poolVars
  PROVE  TInv'
<1>0. PICK i \in PortIds : call[p].port = i
  BY Clearer DEF TInv, ptclear_receivers, Resumes
<1> DEFINE s == porttab[i].ptrsem
<1>1. /\ ~Waiting(p) /\ call[p].op = "receivers"
      /\ semtab' = clearsem(call[p], s, 0)
      /\ call' = [call EXCEPT ![p].op = "newstate"]
      /\ UNCHANGED <<portVars, panicked, kills>>
  BY <1>0 DEF ptclear_receivers, Resumes, Runs
<1>2. /\ MInv /\ MsgTypes /\ call \in [Procs -> CallRecords] /\ SemTable(semtab)
      /\ porttab \in [PortIds -> PortEntries] /\ porttab' = porttab
  BY <1>1 DEF TInv, MInv, MsgTypes, portVars
<1>3. /\ call[p] \in ClearCalls /\ i \in PortIds /\ Clearing(p, i)
      /\ porttab[i].ptstate = PT_LIMBO /\ porttab[i].ptmsgs = <<>>
      /\ \A q \in Procs : Clearing(q, i) => q = p
      /\ \A j \in PortIds : Clearing(p, j) => j = i
      /\ \A q \in Procs : call[q].op \in {"ptsend", "ptrecv"} /\ call[q].port = i =>
           call[q].seq < porttab[i].ptseq
  BY <1>0, <1>1, <1>2, Clearer
<1>4. /\ call' \in [Procs -> CallRecords] /\ call'[p].op = "newstate"
      /\ call'[p].newstate = call[p].newstate
      /\ \A q \in Procs : q # p => call'[q] = call[q]
      /\ ~Using(call'[p])
      /\ \A q \in Procs, j \in PortIds : Clearing(q, j)' <=> Clearing(q, j)
  BY <1>1, <1>2, Proceeds
<1>6. s \in SemIds \cup {SYSERR}
  BY <1>2, <1>3 DEF PortEntries
<1> DEFINE u == RecvUse(i)
           v == SendUse(i)
<1>7. u \in Uses /\ v \in Uses /\ u # v /\ SemOf(u) = s /\ SemOf(u)' = SemOf(u)
        /\ SemOf(v)' = SemOf(v)
  BY <1>2, <1>3, UseNames, UseFacts, UseFactsNext
<1>8. s # SYSERR => Live(u)
  BY <1>1, <1>3, UseFacts DEF RecvLive, Keeps
<1>9. /\ SemTable(semtab')
      /\ \A r \in SemIds : OnQueue(semtab', r) \subseteq OnQueue(semtab, r)
      /\ \A w \in Uses : w # u /\ Live(w) => isused(semtab', SemOf(w))
      /\ s # SYSERR /\ call[p].newstate = PT_ALLOC => isused(semtab', s)
      /\ \A q \in Procs : Using(call[q]) /\ UseOf(call[q]) = u => ~Waiting(q)'
  <2> HIDE DEF u, v, s
  <2> QED BY <1>1, <1>2, <1>6, <1>7, <1>8, ClearSem
<1>10. Touches(p, i)
  <2>1. SamePools
    BY DEF SamePools, poolVars
  <2> QED BY <1>1, <1>2, <1>3, <1>4, <1>9, <2>1 DEF Touches
<1>11. OwnsAt(i)
  <2>1. Live(u)' => isused(semtab', SemOf(u)') /\ GoesOn(u)
    <3> SUFFICES ASSUME Live(u)' PROVE isused(semtab', SemOf(u)') /\ GoesOn(u)
      OBVIOUS
    <3>1. s # SYSERR /\ Keeps(i, {"dispose", "receivers"})'
      BY <1>2, <1>3, UseFactsNext DEF RecvLive, PT_LIMBO, PT_ALLOC
    <3>2. call[p].newstate = PT_ALLOC
      BY <1>3, <1>4, <3>1 DEF Keeps
    <3> QED BY <1>7, <1>8, <1>9, <3>1, <3>2 DEF GoesOn
  <2>2. Live(v)' => isused(semtab', SemOf(v)') /\ GoesOn(v)
    <3> SUFFICES ASSUME Live(v)' PROVE isused(semtab', SemOf(v)') /\ GoesOn(v)
      OBVIOUS
    <3>1. porttab[i].ptssem # SYSERR /\ Keeps(i, {"dispose"})'
      BY <1>2, <1>3, UseFactsNext DEF SendLive, PT_LIMBO, PT_ALLOC
    <3>2. call[p].newstate = PT_ALLOC
      BY <1>3, <1>4, <3>1 DEF Keeps
    <3>3. Live(v)
      BY <1>3, <3>1, <3>2, UseFacts DEF SendLive, Keeps
    <3> QED BY <1>7, <1>9, <3>3 DEF GoesOn
  <2>3. Live(v)' => ~Begins(v)
    BY <1>2, <1>7, <2>2 DEF Begins, GoesOn, MInv, OwnInv
  <2> QED BY <1>9, <2>1, <2>2, <2>3 DEF OwnsAt
<1>12. WaitsAt(i)
  <2> SUFFICES ASSUME NEW q \in Procs, Waiting(q)', call[q].op \in {"ptsend", "ptrecv"},
                      call[q].port = i
      PROVE  FALSE
    BY DEF WaitsAt
  <2>1. call[q].op # "ptrecv"
    BY <1>9, UseFacts
  <2>2. Waiting(q)
    BY <1>9, WaitingNext
  <2>3. ~Fresh(call[q])
    BY <1>3 DEF Fresh, PT_LIMBO, PT_ALLOC
  <2> QED BY <1>1, <1>2, <1>3, <2>1, <2>2, <2>3 DEF MInv, WaitInv
<1>13. OutdatedAt(i)
  BY <1>2, <1>3 DEF OutdatedAt
<1>14. ClearsAt(p, i)
  BY <1>2, <1>3, <1>4 DEF ClearsAt
<1>15. MsgTypes'
  BY <1>1, <1>2, <1>4, <1>9 DEF MsgTypes, poolVars, portVars
<1>16. MInv'
  BY <1>2, <1>3, <1>10, <1>11, <1>12, <1>13, <1>14, <1>15, TouchStep
<1>17. KnownInv'
  <2>1. Known' = Known /\ held' = held
    BY KnownSame DEF poolVars
  <2>2. KnownCall(call[p])'
    BY <1>4 DEF KnownCall
  <2>3. \A q \in Procs : call'[q] = call[q] \/ KnownCall(call[q])'
    BY <1>4, <2>2
  <2> QED BY <1>2, <2>1, <2>3, KnownKept DEF TInv
<1> QED BY <1>16, <1>17 DEF TInv

LEMMA EndStep ==
  ASSUME TInv, NEW p \in Procs, ptclear_end(p), UNCHANGED poolVars
  PROVE  TInv'
<1>0. PICK i \in PortIds : call[p].port = i
  BY Clearer DEF TInv, ptclear_end, Resumes
<1> DEFINE e == [porttab[i] EXCEPT !.ptstate = call[p].newstate]
<1>1. /\ ~Waiting(p) /\ call[p].op = "newstate"
      /\ PortChange(i, e)
      /\ ptnextid' = (IF call[p].newstate = PT_FREE THEN i ELSE ptnextid)
      /\ Return(p)
      /\ UNCHANGED <<ptfree, semtab, panicked, kills>>
  BY <1>0 DEF ptclear_end, Resumes, Runs, PortChange
<1>2. /\ MInv /\ MsgTypes /\ call \in [Procs -> CallRecords] /\ SemTable(semtab)
      /\ porttab \in [PortIds -> PortEntries]
  BY DEF TInv, MInv, MsgTypes
<1>3. /\ call[p] \in ClearCalls /\ i \in PortIds /\ Clearing(p, i)
      /\ porttab[i].ptstate = PT_LIMBO /\ porttab[i].ptmsgs = <<>>
      /\ \A q \in Procs : Clearing(q, i) => q = p
      /\ \A j \in PortIds : Clearing(p, j) => j = i
      /\ \A q \in Procs : call[q].op \in {"ptsend", "ptrecv"} /\ call[q].port = i =>
           call[q].seq < porttab[i].ptseq
  BY <1>0, <1>1, <1>2, Clearer
<1>4. porttab[i] \in PortEntries /\ call[p].newstate \in {PT_FREE, PT_ALLOC}
  BY <1>2, <1>3 DEF ClearCalls
<1>5. /\ e \in PortEntries /\ e.ptstate = call[p].newstate /\ e.ptmsgs = <<>>
      /\ e.ptssem = porttab[i].ptssem /\ e.ptrsem = porttab[i].ptrsem
      /\ e.ptseq = porttab[i].ptseq
  BY <1>3, <1>4 DEF PortEntries
<1> HIDE DEF e
<1>6. /\ porttab' \in [PortIds -> PortEntries] /\ porttab'[i] = e
      /\ \A j \in PortIds : j # i => porttab'[j] = porttab[j]
  BY <1>1, <1>2, <1>3, <1>5, PortChanged
<1>7. /\ call' \in [Procs -> CallRecords] /\ call'[p] = Idle
      /\ \A q \in Procs : q # p => call'[q] = call[q]
  BY <1>1, <1>2 DEF Return, CallRecords
<1>8. ~Using(call'[p]) /\ \A q \in Procs, j \in PortIds : Clearing(q, j)' => q # p /\ Clearing(q, j)
  BY <1>7 DEF Using, Clearing, Idle
<1>9. Touches(p, i)
  <2>1. SamePools
    BY DEF SamePools, poolVars
  <2> QED BY <1>1, <1>2, <1>3, <1>6, <1>7, <1>8, <2>1 DEF Touches
<1> DEFINE u == RecvUse(i)
           v == SendUse(i)
<1>10. OwnsAt(i)
  <2>0. \A ops : ~Keeps(i, ops)'
    BY <1>3, <1>8 DEF Keeps
  <2>1. u \in Uses /\ v \in Uses /\ SemOf(u)' = SemOf(u) /\ SemOf(v)' = SemOf(v)
    BY <1>3, <1>5, <1>6, UseNames, UseFacts, UseFactsNext
  <2>2. Live(u)' => Live(u)
    <3> SUFFICES ASSUME Live(u)' PROVE Live(u)
      OBVIOUS
    <3>1. porttab[i].ptrsem # SYSERR /\ call[p].newstate = PT_ALLOC
      BY <1>5, <1>6, <2>0, UseFactsNext DEF RecvLive
    <3> QED BY <1>3, <3>1, UseFacts DEF RecvLive, Keeps
  <2>3. Live(v)' => Live(v)
    <3> SUFFICES ASSUME Live(v)' PROVE Live(v)
      OBVIOUS
    <3>1. porttab[i].ptssem # SYSERR /\ call[p].newstate = PT_ALLOC
      BY <1>5, <1>6, <2>0, UseFactsNext DEF SendLive
    <3> QED BY <1>3, <3>1, UseFacts DEF SendLive, Keeps
  <2>4. \A w \in Uses : Live(w) => isused(semtab', SemOf(w)) /\ isused(semtab, SemOf(w))
    BY <1>1, <1>2 DEF MInv, OwnInv
  <2>5. Live(u)' => ~Begins(u)
    BY <2>1, <2>2, <2>4 DEF Begins
  <2> QED BY <2>1, <2>2, <2>3, <2>4, <2>5 DEF OwnsAt, GoesOn
<1>11. WaitsAt(i)
  <2> SUFFICES ASSUME NEW q \in Procs, Waiting(q)', call[q].op \in {"ptsend", "ptrecv"},
                      call[q].port = i
      PROVE  FALSE
    BY DEF WaitsAt
  <2>1. Waiting(q)
    BY <1>1, WaitingNext
  <2>2. ~Fresh(call[q])
    BY <1>3 DEF Fresh, PT_LIMBO, PT_ALLOC
  <2> QED BY <1>1, <1>2, <1>3, <2>1, <2>2 DEF MInv, WaitInv
<1>12. OutdatedAt(i)
  BY <1>3, <1>5, <1>6 DEF OutdatedAt
<1>13. ClearsAt(p, i)
  BY <1>3, <1>5, <1>6, <1>8 DEF ClearsAt
<1>14. MsgTypes'
  BY <1>1, <1>2, <1>3, <1>6, <1>7 DEF MsgTypes, poolVars
<1>15. MInv'
  BY <1>2, <1>3, <1>9, <1>10, <1>11, <1>12, <1>13, <1>14, TouchStep
<1>16. KnownInv'
  <2>1. Known' = Known /\ held' = held
    BY KnownSame DEF poolVars
  <2>2. KnownCall(call[p])'
    BY <1>7 DEF KnownCall, Idle
  <2>3. \A q \in Procs : call'[q] = call[q] \/ KnownCall(call[q])'
    BY <1>7, <2>2
  <2>5. \A j \in PortIds : Range(porttab'[j].ptmsgs) \subseteq Range(porttab[j].ptmsgs)
    BY <1>3, <1>5, <1>6
  <2> QED BY <2>1, <2>3, <2>5, KnownKept DEF TInv
<1> QED BY <1>15, <1>16 DEF TInv

-----------------------------------------------------------------------------
(* The steps that make semaphores                                          *)

\* semcreate(), if there is a semaphore to be had.
LEMMA CreateAny ==
  ASSUME NEW t, SemTable(t), NEW s \in NewSem(t), NEW count \in Nat
  PROVE  LET u == semcreate(t, s, count)
         IN  /\ SemTable(u) /\ s \in SemIds \cup {SYSERR}
             /\ s # SYSERR => /\ s \in SemIds /\ ~t[s].used
                              /\ u[s].used /\ u[s].count = count
             /\ \A r \in SemIds : OnQueue(u, r) = OnQueue(t, r)
             /\ \A r \in SemIds : r # s => u[r] = t[r]
<1> DEFINE u == semcreate(t, s, count)
<1>1. SYSERR \notin SemIds
  BY DEF SemIds, SYSERR
<1>2. CASE s = SYSERR
  <2>1. u = t
    BY <1>2 DEF semcreate
  <2> HIDE DEF u
  <2> QED BY <1>2, <2>1 DEF u
<1>3. CASE s # SYSERR
  <2>1. s \in FreeSems(t)
    BY <1>3 DEF NewSem
  <2>2. /\ SemTable(u) /\ OnlyChanges(t, u, s) /\ s \in SemIds /\ ~t[s].used
        /\ u[s].used /\ u[s].count = count
        /\ OnQueue(u, s) = {} /\ OnQueue(t, s) = {}
    BY <2>1, CreateTable
  <2> HIDE DEF u
  <2>3. \A r \in SemIds : r # s => u[r] = t[r] /\ OnQueue(u, r) = OnQueue(t, r)
    BY <2>2 DEF OnlyChanges, OnQueue
  <2> QED BY <1>3, <2>2, <2>3 DEF u
<1> QED BY <1>2, <1>3

\* The loop over the port table finds a free entry if there is one.
LEMMA NextPort ==
  ASSUME FreePorts # {}, ptnextid \in PortIds
  PROVE  nextport \in PortIds /\ porttab[nextport].ptstate = PT_FREE
<1> DEFINE D(i) == (i - ptnextid) % NPORTS
           T == {D(i) : i \in FreePorts}
<1>1. FreePorts \subseteq PortIds /\ PortIds \subseteq Int /\ NPORTS \in Nat \ {0}
  BY PortAssumption DEF FreePorts, PortIds
<1>2. \A i \in FreePorts : D(i) \in Nat
  BY <1>1
<1> HIDE DEF D
<1>3. T \in SUBSET Nat /\ T # {}
  BY <1>2
<1>4. PICK x \in T : \A y \in T : x <= y
  BY <1>3, LeastNat
<1>5. PICK i \in FreePorts : D(i) = x
  BY <1>4
<1>6. \A j \in FreePorts : D(i) <= D(j)
  BY <1>4, <1>5
<1>7. nextport \in FreePorts
  BY <1>5, <1>6 DEF nextport, D
<1> QED BY <1>7 DEF FreePorts

LEMMA CreateStep ==
  ASSUME TInv, NEW p \in Procs, NEW count \in PortCounts, ptcreate(p, count), UNCHANGED poolVars
  PROVE  TInv'
<1>0. PICK i \in PortIds : i = nextport /\ porttab[i].ptstate = PT_FREE
  BY NextPort DEF TInv, MInv, MsgTypes, ptcreate
<1>s. PICK s \in NewSem(semtab) : \E r \in NewSem(semcreate(semtab, s, count)) :
        /\ semtab' = semcreate(semcreate(semtab, s, count), r, 0)
        /\ porttab' = [porttab EXCEPT ![i] =
             [ptstate |-> PT_ALLOC, ptssem |-> s, ptrsem |-> r,
              ptmaxcnt |-> count % (U16MAX + 1), ptseq |-> @.ptseq + 1, ptmsgs |-> <<>>]]
  BY <1>0 DEF ptcreate
<1>1. PICK r \in NewSem(semcreate(semtab, s, count)) :
        /\ semtab' = semcreate(semcreate(semtab, s, count), r, 0)
        /\ porttab' = [porttab EXCEPT ![i] =
             [ptstate |-> PT_ALLOC, ptssem |-> s, ptrsem |-> r,
              ptmaxcnt |-> count % (U16MAX + 1), ptseq |-> @.ptseq + 1, ptmsgs |-> <<>>]]
  BY <1>s
<1> DEFINE t == semcreate(semtab, s, count)
           e == [ptstate |-> PT_ALLOC, ptssem |-> s, ptrsem |-> r,
                 ptmaxcnt |-> count % (U16MAX + 1), ptseq |-> porttab[i].ptseq + 1,
                 ptmsgs |-> <<>>]
<1>2. /\ ~Waiting(p) /\ call[p] = Idle /\ ptnextid' = (i + 1) % NPORTS
      /\ PortChange(i, e) /\ semtab' = semcreate(t, r, 0)
      /\ UNCHANGED <<ptfree, call, masked, panicked, kills>>
  BY <1>0, <1>1 DEF ptcreate, InUser, Runs, PortChange
<1>3. /\ MInv /\ MsgTypes /\ call \in [Procs -> CallRecords] /\ SemTable(semtab)
      /\ porttab \in [PortIds -> PortEntries] /\ count \in Nat
      /\ porttab[i].ptseq \in Nat /\ porttab[i].ptmsgs \in Seq(Bufs)
  BY PortAssumption DEF TInv, MInv, MsgTypes, PortEntries
<1>4. /\ SemTable(t) /\ s \in SemIds \cup {SYSERR}
      /\ s # SYSERR => s \in SemIds /\ ~semtab[s].used /\ t[s].used /\ t[s].count = count
      /\ \A x \in SemIds : OnQueue(t, x) = OnQueue(semtab, x)
      /\ \A x \in SemIds : x # s => t[x] = semtab[x]
  BY <1>3, CreateAny
<1>5. r \in NewSem(t)
  OBVIOUS
<1> HIDE DEF t
<1>6. /\ SemTable(semtab') /\ r \in SemIds \cup {SYSERR}
      /\ r # SYSERR => /\ r \in SemIds /\ ~t[r].used
                       /\ semtab'[r].used /\ semtab'[r].count = 0
      /\ \A x \in SemIds : OnQueue(semtab', x) = OnQueue(t, x)
      /\ \A x \in SemIds : x # r => semtab'[x] = t[x]
  BY <1>2, <1>4, <1>5, CreateAny
<1>7. /\ \A x \in SemIds : OnQueue(semtab', x) = OnQueue(semtab, x)
      /\ \A x \in SemIds : x # s /\ x # r => semtab'[x] = semtab[x]
      /\ s # SYSERR => s # r /\ isused(semtab', s) /\ ~isused(semtab, s)
      /\ r # SYSERR => isused(semtab', r) /\ ~isused(semtab, r)
  <2>1. s # SYSERR => s # r
    BY <1>4, <1>6
  <2>2. s # SYSERR => isused(semtab', s) /\ ~isused(semtab, s)
    BY <1>4, <1>6, <2>1 DEF isused
  <2>3. r # SYSERR => isused(semtab', r) /\ ~isused(semtab, r)
    BY <1>4, <1>6 DEF isused
  <2> QED BY <1>4, <1>6, <2>1, <2>2, <2>3
<1>8. /\ e \in PortEntries /\ e.ptstate = PT_ALLOC /\ e.ptmsgs = <<>>
      /\ e.ptssem = s /\ e.ptrsem = r /\ e.ptseq = porttab[i].ptseq + 1
  <2>1. count % (U16MAX + 1) \in Nat
    <3>1. U16MAX + 1 \in Nat /\ U16MAX + 1 > 0
      BY PortAssumption
    <3> DEFINE m == U16MAX + 1
    <3> HIDE DEF m
    <3>2. count % m \in Nat
      BY <1>3, <3>1 DEF m
    <3> QED BY <3>2 DEF m
  <2>2. <<>> \in Seq(Bufs)
    BY EmptySeq
  <2>3. porttab[i].ptseq + 1 \in Nat
    BY <1>3
  <2> QED BY <1>4, <1>6, <2>1, <2>2, <2>3 DEF PortEntries
<1> HIDE DEF e
<1>9. /\ porttab' \in [PortIds -> PortEntries] /\ porttab'[i] = e
      /\ \A j \in PortIds : j # i => porttab'[j] = porttab[j]
  BY <1>2, <1>3, <1>8, PortChanged
<1>10. \A q \in Procs : ~Clearing(q, i)
  BY <1>0, <1>3 DEF MInv, ClearInv, PT_FREE, PT_LIMBO
<1>11. \A q \in Procs, j \in PortIds : Clearing(q, j)' => Clearing(q, j)
  BY <1>2 DEF Clearing
<1>12. Touches(p, i)
  <2>1. \A j \in PortIds : ~Clearing(p, j)
    BY <1>2 DEF Clearing, Idle
  <2>2. ~Using(call'[p])
    BY <1>2 DEF Using, Idle
  <2> QED BY <1>2, <1>6, <1>7, <1>9, <1>11, <2>1, <2>2 DEF Touches, SamePools, poolVars
<1>13. OwnsAt(i)
  <2>1. SemOf(SendUse(i))' = s /\ SemOf(RecvUse(i))' = r
    BY <1>8, <1>9, UseFactsNext
  <2>2. Live(SendUse(i))' => s # SYSERR
    BY <1>8, <1>9, UseFactsNext DEF SendLive
  <2>3. Live(RecvUse(i))' => r # SYSERR
    BY <1>8, <1>9, UseFactsNext DEF RecvLive
  <2>4. ASSUME NEW u \in Uses, Live(u) PROVE isused(semtab', SemOf(u))
    <3>1. isused(semtab, SemOf(u))
      BY <1>3, <2>4 DEF MInv, OwnInv
    <3>2. SemOf(u) \in SemIds /\ SemOf(u) # s /\ SemOf(u) # r
      BY <1>4, <1>6, <1>7, <3>1 DEF isused, SemIds, SYSERR
    <3> QED BY <1>7, <3>1, <3>2 DEF isused
  <2>5. Live(SendUse(i))' => isused(semtab', SemOf(SendUse(i))') /\ Begins(SendUse(i))
    BY <1>7, <2>1, <2>2 DEF Begins
  <2>6. Live(RecvUse(i))' => isused(semtab', SemOf(RecvUse(i))') /\ Begins(RecvUse(i))
    BY <1>7, <2>1, <2>3 DEF Begins
  <2>7. Live(SendUse(i))' => SemOf(SendUse(i))' # SemOf(RecvUse(i))'
    BY <1>7, <2>1, <2>2
  <2> QED BY <2>4, <2>5, <2>6, <2>7 DEF OwnsAt
<1>14. WaitsAt(i)
  <2> SUFFICES ASSUME NEW q \in Procs, Waiting(q)', call[q].op \in {"ptsend", "ptrecv"},
                      call[q].port = i
      PROVE  FALSE
    BY DEF WaitsAt
  <2>1. Waiting(q)
    BY <1>7, WaitingNext
  <2>2. ~Fresh(call[q])
    BY <1>0 DEF Fresh, PT_FREE, PT_ALLOC
  <2> QED BY <1>0, <1>3, <2>1, <2>2 DEF MInv, WaitInv, PT_FREE, PT_LIMBO
<1>15. OutdatedAt(i)
  <2> SUFFICES ASSUME NEW q \in Procs, call[q].op \in {"ptsend", "ptrecv"}, call[q].port = i
               PROVE  call[q].seq < porttab'[i].ptseq
    BY DEF OutdatedAt
  <2>1. call[q].seq \in Nat
    BY <1>3, CallKinds DEF SendCalls, RecvCalls
  <2>2. call[q].seq <= porttab[i].ptseq
    BY <1>3 DEF MInv, SeqInv
  <2> QED BY <1>3, <1>8, <1>9, <2>1, <2>2
<1>16. ClearsAt(p, i)
  BY <1>8, <1>9, <1>10, <1>11 DEF ClearsAt
<1>17. MsgTypes'
  <2>1. ptnextid' \in PortIds
    <3>1. i \in Int /\ NPORTS \in Nat \ {0}
      BY PortAssumption DEF PortIds
    <3>2. (i + 1) % NPORTS \in 0..(NPORTS - 1)
      BY <3>1
    <3> QED BY <1>2, <3>2 DEF PortIds
  <2> QED BY <1>2, <1>3, <1>6, <1>9, <2>1 DEF MsgTypes, poolVars
<1>18. MInv'
  BY <1>3, <1>12, <1>13, <1>14, <1>15, <1>16, <1>17, TouchStep
<1>19. KnownInv'
  <2>1. Known' = Known /\ held' = held /\ call' = call
    BY <1>2, KnownSame DEF poolVars
  <2>2. Range(<<>>) = {}
    BY ListEmpty DEF Lists
  <2>3. \A j \in PortIds : Range(porttab'[j].ptmsgs) \subseteq Range(porttab[j].ptmsgs)
    BY <1>8, <1>9, <2>2
  <2> QED BY <2>1, <2>3, KnownKept DEF TInv
<1> QED BY <1>18, <1>19 DEF TInv

LEMMA PoolStep ==
  ASSUME TInv, NEW p \in Procs, NEW n \in PoolSizes, mkbufpool(p, n), UNCHANGED portVars
  PROVE  TInv'
<1>0. PICK k \in PoolIds : k = nbpools
  BY PoolAssumption DEF TInv, MInv, MsgTypes, mkbufpool, PoolIds
<1> DEFINE l == [j \in 1..n |-> allocated + j]
<1>1. PICK s \in FreeSems(semtab) :
        /\ semtab' = semcreate(semtab, s, n)
        /\ buftab' = [buftab EXCEPT ![k] = [bpsem |-> s, bpnext |-> l]]
  BY <1>0 DEF mkbufpool
<1> DEFINE e == [bpsem |-> s, bpnext |-> l]
<1>2. /\ allocated + n <= NBUFS /\ allocated' = allocated + n /\ nbpools' = nbpools + 1
      /\ nbpools < NBPOOLS
      /\ UNCHANGED <<porttab, ptfree, ptnextid, bpid, held, call, panicked, kills>>
  BY DEF mkbufpool, portVars
<1>3. /\ MInv /\ MsgTypes /\ call \in [Procs -> CallRecords] /\ SemTable(semtab)
      /\ buftab \in [PoolIds -> PoolEntries] /\ nbpools \in 0..NBPOOLS
      /\ allocated \in 0..NBUFS /\ n \in Nat /\ NBPOOLS \in Nat /\ NBUFS \in Nat
  BY PoolAssumption DEF TInv, MInv, MsgTypes
<1>4. /\ SemTable(semtab') /\ OnlyChanges(semtab, semtab', s) /\ s \in SemIds /\ ~semtab[s].used
      /\ semtab'[s].used /\ semtab'[s].count = n
      /\ OnQueue(semtab', s) = {} /\ OnQueue(semtab, s) = {}
  BY <1>1, <1>3, CreateTable
<1>5. \A r \in SemIds : OnQueue(semtab', r) = OnQueue(semtab, r)
                          /\ (r # s => semtab'[r] = semtab[r])
  BY <1>4 DEF OnlyChanges, OnQueue
<1>6. l \in Seq(Bufs)
  <2>1. \A j \in 1..n : allocated + j \in Bufs
    BY <1>2, <1>3 DEF Bufs
  <2> QED BY <1>3, <2>1, IsASeq
<1> HIDE DEF l
<1>7. e \in PoolEntries /\ e.bpsem = s
  BY <1>4, <1>6 DEF PoolEntries
<1> HIDE DEF e
<1>8. /\ buftab' \in [PoolIds -> PoolEntries] /\ buftab'[k].bpsem = s
      /\ \A j \in PoolIds : j # k => buftab'[j] = buftab[j]
  BY <1>1, <1>3, <1>7 DEF e
<1>9. MsgTypes'
  BY <1>2, <1>3, <1>4, <1>8 DEF MsgTypes
<1>10. \A q \in Procs : Waiting(q)' => Waiting(q)
  BY <1>5, WaitingNext
<1>11. ASSUME NEW u \in Uses
       PROVE  /\ Live(u)' => isused(semtab', SemOf(u)')
              /\ Live(u)' /\ u # PoolUse(k) => GoesOn(u)
              /\ u = PoolUse(k) => Begins(u)
              /\ Live(u) => SemOf(u)' = SemOf(u) /\ isused(semtab', SemOf(u))
  <2>1. Live(u) => isused(semtab, SemOf(u)) /\ isused(semtab', SemOf(u))
    BY <1>3, <1>4, <1>5 DEF MInv, OwnInv, isused
  <2>2. ASSUME NEW i \in PortIds, u = SendUse(i) \/ u = RecvUse(i)
        PROVE  (Live(u)' <=> Live(u)) /\ SemOf(u)' = SemOf(u) /\ u # PoolUse(k)
    <3>1. /\ Live(SendUse(i))' <=> Live(SendUse(i))
          /\ Live(RecvUse(i))' <=> Live(RecvUse(i))
          /\ SemOf(SendUse(i))' = SemOf(SendUse(i)) /\ SemOf(RecvUse(i))' = SemOf(RecvUse(i))
      BY <1>2, UseFacts, UseFactsNext DEF SendLive, RecvLive, Keeps, Clearing
    <3> QED BY <2>2, <3>1, UseNames
  <2>3. ASSUME NEW j \in PoolIds, u = PoolUse(j), j # k
        PROVE  (Live(u)' <=> Live(u)) /\ SemOf(u)' = SemOf(u) /\ u # PoolUse(k)
    <3>1. j \in Int /\ k \in Int /\ nbpools' = k + 1 /\ nbpools = k
      BY <1>0, <1>2 DEF PoolIds
    <3>2. (Live(PoolUse(j))' <=> Live(PoolUse(j))) /\ SemOf(PoolUse(j))' = SemOf(PoolUse(j))
      BY <1>8, <2>3, <3>1, UseFacts, UseFactsNext
    <3> QED BY <2>3, <3>2, UseNames
  <2>4. ASSUME u = PoolUse(k)
        PROVE  /\ Begins(u) /\ isused(semtab', SemOf(u)') /\ ~Live(u)
    <3>1. SemOf(PoolUse(k))' = s
      BY <1>8, UseFactsNext
    <3>2. Begins(PoolUse(k)) /\ isused(semtab', SemOf(PoolUse(k))')
      BY <1>4, <3>1 DEF Begins, isused
    <3>3. ~Live(PoolUse(k))
      BY <1>0, UseFacts DEF PoolIds
    <3> QED BY <2>4, <3>2, <3>3
  <2>5. \/ \E i \in PortIds : u = SendUse(i) \/ u = RecvUse(i)
        \/ \E j \in PoolIds : u = PoolUse(j) /\ j # k
        \/ u = PoolUse(k)
    BY UseNames
  <2>6. CASE \E i \in PortIds : u = SendUse(i) \/ u = RecvUse(i)
    BY <2>1, <2>2, <2>6 DEF GoesOn
  <2>7. CASE \E j \in PoolIds : u = PoolUse(j) /\ j # k
    BY <2>1, <2>3, <2>7 DEF GoesOn
  <2>8. CASE u = PoolUse(k)
    BY <2>4, <2>8
  <2> QED BY <2>5, <2>6, <2>7, <2>8
<1>12. OwnInv'
  <2>1. \A u \in Uses : Live(u)' => isused(semtab', SemOf(u)') /\ (GoesOn(u) \/ Begins(u))
    BY <1>11
  <2>2. \A u, v \in Uses : Live(u)' /\ Live(v)' /\ Begins(u) /\ Begins(v)
                              /\ SemOf(u)' = SemOf(v)' => u = v
    <3>1. \A u \in Uses : Live(u)' /\ Begins(u) => u = PoolUse(k)
      BY <1>3, <1>11 DEF MInv, OwnInv, GoesOn, Begins
    <3> QED BY <3>1
  <2>3. \A q \in Procs : Waiting(q)' /\ Using(call[q]) =>
                            SemOf(UseOf(call[q]))' = SemOf(UseOf(call[q]))
    <3> SUFFICES ASSUME NEW q \in Procs, Waiting(q)', Using(call[q])
                 PROVE  SemOf(UseOf(call[q]))' = SemOf(UseOf(call[q]))
      OBVIOUS
    <3>1. PICK v \in Uses : v = UseOf(call[q])
      BY <1>3, UseOfInUses
    <3>2. UseOf(call[q])' = v
      BY <1>2, <3>1 DEF UseOf
    <3>3. SemOf(UseOf(call[q]))' = SemOf(v)'
      BY <3>2 DEF SemOf
    <3>4. SemOf(v)' = SemOf(v)
      <4>1. CASE call[q].op = "getbuf"
        <5>1. call[q].pool \in PoolIds /\ call[q].pool < nbpools
          BY <1>3, <4>1, CallKinds DEF GetCalls, MInv, OwnInv
        <5>2. Live(v)
          BY <3>1, <4>1, <5>1, UseFacts
        <5> QED BY <1>11, <5>2
      <4>2. CASE call[q].op # "getbuf"
        <5>1. v[1] # "getbuf"
          BY <3>1, <4>2 DEF UseOf
        <5> QED BY <1>2, <5>1 DEF SemOf, Uses, PoolUse, SendUse, RecvUse
      <4> QED BY <4>1, <4>2
    <3> QED BY <3>1, <3>3, <3>4
  <2>4. \A q \in Procs : call'[q].op = "getbuf" => call'[q].pool < nbpools'
    <3>1. ASSUME NEW q \in Procs, call[q].op = "getbuf" PROVE call[q].pool < nbpools + 1
      <4>1. call[q].pool \in Int /\ call[q].pool < nbpools
        BY <1>3, <3>1, CallKinds DEF GetCalls, PoolIds, MInv, OwnInv
      <4> QED BY <1>3, <4>1
    <3> QED BY <1>2, <3>1
  <2>5. /\ \A r \in SemIds : OnQueue(semtab', r) \subseteq OnQueue(semtab, r)
        /\ \A q \in Procs : Waiting(q)' => call'[q] = call[q]
    BY <1>2, <1>5
  <2>6. call' \in [Procs -> CallRecords]
    BY <1>2, <1>3
  <2> QED BY <1>3, <1>4, <2>1, <2>2, <2>3, <2>4, <2>5, <2>6, OwnKept
<1>13. ClearInv'
  BY <1>2, <1>3 DEF MInv, ClearInv, Clearing
<1>14. SeqInv'
  BY <1>2, <1>3 DEF MInv, SeqInv
<1>15. FreshInv'
  BY <1>2, <1>3 DEF MInv, FreshInv, Fresh
<1>16. WaitInv'
  BY <1>2, <1>3, <1>10 DEF MInv, WaitInv, Fresh, Clearing
<1>17. KnownInv'
  <2>1. Known \subseteq Known'
    <3> SUFFICES ASSUME NEW b \in Known PROVE b \in Known'
      OBVIOUS
    <3>1. b \in Bufs /\ bpid[b] \in Int /\ bpid[b] \in PoolIds /\ bpid[b] < nbpools
      BY DEF Known, PoolIds
    <3>2. bpid'[b] = bpid[b] /\ bpid[b] < nbpools'
      BY <1>2, <1>3, <3>1
    <3> QED BY <3>1, <3>2 DEF Known
  <2>2. /\ \A q \in Procs : held'[q] \subseteq held[q] \cup Known'
        /\ \A q \in Procs : call'[q] = call[q] \/ KnownCall(call[q])'
        /\ \A i \in PortIds : Range(porttab'[i].ptmsgs) \subseteq Range(porttab[i].ptmsgs) \cup Known'
    BY <1>2
  <2> QED BY <2>1, <2>2, KnownKept DEF TInv
<1> QED BY <1>9, <1>12, <1>13, <1>14, <1>15, <1>16, <1>17 DEF TInv, MInv

-----------------------------------------------------------------------------
(* Nobody waits in vain                                                    *)

LEMMA TInvInit == MsgInit => TInv
<1> SUFFICES ASSUME MsgInit PROVE TInv
  OBVIOUS
<1>1. /\ call = [p \in Procs |-> Idle] /\ panicked = FALSE /\ kills = 0
      /\ porttab = [i \in PortIds |->
           [ptstate |-> PT_FREE, ptssem |-> SYSERR, ptrsem |-> SYSERR,
            ptmaxcnt |-> 0, ptseq |-> 0, ptmsgs |-> <<>>]]
      /\ ptfree = PT_MSGS /\ ptnextid = 0
      /\ nbpools = 0 /\ buftab = [b \in PoolIds |-> [bpsem |-> SYSERR, bpnext |-> <<>>]]
      /\ bpid = [b \in Bufs |-> 0] /\ allocated = 0 /\ held = [p \in Procs |-> {}]
      /\ semtab = [s \in SemIds |-> Unused]
  BY DEF MsgInit, SemInit, CallInit, PortInit, PoolInit
<1>2. SemTable(semtab)
  BY InitTable DEF MsgInit
<1>3. <<>> \in Seq(Bufs) /\ Range(<<>>) = {}
  BY EmptySeq, ListEmpty DEF Lists
<1>4. /\ NPORTS \in Nat \ {0} /\ PT_MSGS \in Nat /\ NBPOOLS \in Nat /\ NBUFS \in Nat
  BY PortAssumption, PoolAssumption
<1>5. MsgTypes
  <2>1. porttab \in [PortIds -> PortEntries]
    BY <1>1, <1>3 DEF PortEntries
  <2>2. buftab \in [PoolIds -> PoolEntries]
    BY <1>1, <1>3 DEF PoolEntries
  <2>3. ptnextid \in PortIds /\ nbpools \in 0..NBPOOLS /\ allocated \in 0..NBUFS
    BY <1>1, <1>4 DEF PortIds
  <2>4. call \in [Procs -> CallRecords]
    BY <1>1 DEF CallRecords
  <2>5. bpid \in [Bufs -> Int] /\ held \in [Procs -> SUBSET Bufs]
    BY <1>1
  <2>6. ptfree \in Nat /\ kills \in Nat
    BY <1>1, <1>4
  <2>7. panicked \in BOOLEAN
    BY <1>1
  <2> QED BY <1>2, <2>1, <2>2, <2>3, <2>4, <2>5, <2>6, <2>7 DEF MsgTypes
<1>6. \A p \in Procs : call[p].op = "user"
  BY <1>1 DEF Idle
<1>7. \A i \in PortIds : porttab[i].ptstate = PT_FREE /\ porttab[i].ptmsgs = <<>>
  BY <1>1
<1>8. \A p \in Procs, i \in PortIds : ~Clearing(p, i)
  BY <1>6 DEF Clearing
<1>9. ClearInv
  BY <1>7, <1>8 DEF ClearInv
<1>10. SeqInv /\ FreshInv
  BY <1>6 DEF SeqInv, FreshInv
<1>11. \A s \in SemIds : OnQueue(semtab, s) = {}
  BY <1>1, UnusedEntry DEF OnQueue, Lists
<1>12. WaitInv
  BY <1>11, WaitingNext DEF WaitInv
<1>13. \A u \in Uses : ~Live(u)
  <2>1. \A i \in PortIds : ~SendLive(i) /\ ~RecvLive(i)
    BY <1>1 DEF SendLive, RecvLive
  <2>2. \A k \in PoolIds : ~(k < nbpools)
    BY <1>1 DEF PoolIds
  <2> QED BY <2>1, <2>2, UseNames, UseFacts
<1>14. OwnInv
  BY <1>6, <1>11, <1>13 DEF OwnInv
<1>15. KnownInv
  BY <1>1, <1>3, <1>6, <1>7 DEF KnownInv, KnownCall
<1> QED BY <1>5, <1>9, <1>10, <1>12, <1>14, <1>15 DEF TInv, MInv

LEMMA SteadyTInv == TInv /\ MsgTypes' /\ Steady /\ KnownInv' => TInv'
BY SteadyStep DEF TInv

LEMMA JoinTInv ==
  ASSUME TInv, MsgTypes', NEW p \in Procs, NEW u, Joins(p, u), KnownInv'
  PROVE  TInv'
BY JoinStep DEF TInv

LEMMA SendStep ==
  ASSUME TInv, NEW p \in Procs, NEW i \in PortIds, NEW b \in Bufs, send(p, i, b)
  PROVE  TInv'
<1>1. CASE ptsend_now(p, i, b) /\ gives(p, b)
  BY <1>1, SendNowSteady, SteadyTInv DEF send
<1>2. CASE ptsend_block(p, i, b) /\ UNCHANGED held
  <2>1. b \in held[p] /\ otherPool /\ blocked(p, "ptsend", i, b, porttab[i].ptssem)
    BY <1>2 DEF send, ptsend_block
  <2>2. MsgTypes' /\ Joins(p, <<"ptsend", i>>) /\ KnownInv'
    BY <1>2, <2>1, Blocking
  <2> QED BY <2>2, JoinTInv
<1> QED BY <1>1, <1>2 DEF send

LEMMA RecvStep ==
  ASSUME TInv, NEW p \in Procs, NEW i \in PortIds, recv(p, i)
  PROVE  TInv'
<1>1. CASE ptrecv_now(p, i) /\ takes(p, i)
  BY <1>1, RecvNowSteady, SteadyTInv DEF recv
<1>2. CASE ptrecv_block(p, i) /\ UNCHANGED held
  <2>1. otherPool /\ blocked(p, "ptrecv", i, 0, porttab[i].ptrsem)
    BY <1>2 DEF recv, ptrecv_block
  <2>2. MsgTypes' /\ Joins(p, <<"ptrecv", i>>) /\ KnownInv'
    BY <1>2, <2>1, Blocking
  <2> QED BY <2>2, JoinTInv
<1> QED BY <1>1, <1>2 DEF recv

LEMMA TInvStep ==
  ASSUME TInv, NEW p \in Procs, MsgStep(p)
  PROVE  TInv'
<1>1. CASE create(p)
  BY <1>1, CreateStep DEF create
<1>2. CASE clear(p)
  <2>1. CASE \E i \in PortIds : ptdelete(p, i) \/ ptreset(p, i)
    BY <1>2, <2>1, ClearStep DEF clear, ptdelete, ptreset
  <2>2. CASE ptclear_senders(p)
    BY <1>2, <2>2, SendersStep DEF clear
  <2>3. CASE ptclear_receivers(p)
    BY <1>2, <2>3, ReceiversStep DEF clear
  <2>4. CASE ptclear_end(p)
    BY <1>2, <2>4, EndStep DEF clear
  <2> QED BY <1>2, <2>1, <2>2, <2>3, <2>4 DEF clear
<1>3. CASE discard(p)
  BY <1>3, DiscardSteady, SteadyTInv
<1>4. ASSUME NEW i \in PortIds, recv(p, i) PROVE TInv'
  BY <1>4, RecvStep
<1>5. ASSUME NEW i \in PortIds, NEW b \in Bufs, send(p, i, b) PROVE TInv'
  BY <1>5, SendStep
<1>6. CASE resume(p)
  <2>1. CASE ptsend_resume(p) /\ gives(p, call[p].msg)
    BY <1>6, <2>1, SendResumeSteady, SteadyTInv DEF resume
  <2>2. CASE ptrecv_resume(p) /\ takes(p, call[p].port)
    BY <1>6, <2>2, RecvResumeSteady, SteadyTInv DEF resume
  <2>3. CASE pt_stale(p) /\ UNCHANGED held
    BY <1>6, <2>3, StaleSteady, SteadyTInv DEF resume
  <2> QED BY <1>6, <2>1, <2>2, <2>3 DEF resume
<1>7. CASE pool(p)
  <2>0. UNCHANGED portVars
    BY <1>7 DEF pool
  <2>1. ASSUME NEW n \in PoolSizes, mkbufpool(p, n) PROVE TInv'
    BY <2>0, <2>1, PoolStep
  <2>2. ASSUME NEW k \in PoolIds, getbuf_now(p, k) PROVE TInv'
    BY <2>0, <2>2, GetNowSteady, SteadyTInv
  <2>3. ASSUME NEW k \in PoolIds, getbuf_block(p, k) PROVE TInv'
    <3> DEFINE u == PoolUse(k)
    <3>1. MsgTypes' /\ Joins(p, u) /\ KnownInv'
      BY <2>0, <2>3, GetBlock
    <3> HIDE DEF u
    <3> QED BY <3>1, JoinTInv
  <2>4. CASE getbuf_resume(p)
    BY <2>0, <2>4, GetResumeSteady, SteadyTInv
  <2>5. ASSUME NEW b \in Bufs, freebuf(p, b) PROVE TInv'
    BY <2>0, <2>5, FreeSteady, SteadyTInv
  <2> QED BY <1>7, <2>1, <2>2, <2>3, <2>4, <2>5 DEF pool
<1>8. CASE kill(p)
  BY <1>8, KillSteady, SteadyTInv
<1> QED BY <1>1, <1>2, <1>3, <1>4, <1>5, <1>6, <1>7, <1>8 DEF MsgStep

LEMMA TInvSame == TInv /\ UNCHANGED msgVars => TInv'
<1> SUFFICES ASSUME TInv, UNCHANGED msgVars PROVE TInv'
  OBVIOUS
<1>1. UNCHANGED <<semtab, call, panicked, kills, porttab, ptfree, ptnextid,
                  nbpools, buftab, bpid, allocated, held>>
  BY DEF msgVars, portVars, poolVars, callVars
<1>2. MsgTypes'
  BY <1>1 DEF TInv, MInv, MsgTypes
<1>3. Steady
  BY <1>1 DEF Steady, SamePorts, SamePools, FairMessages, Eases, TInv, MInv, MsgTypes
<1>4. KnownInv'
  BY <1>1 DEF TInv, KnownInv, KnownCall, Known
<1> QED BY <1>2, <1>3, <1>4, SteadyTInv

LEMMA TInvNext == TInv /\ [MsgNext]_msgVars => TInv'
<1> SUFFICES ASSUME TInv, [MsgNext]_msgVars PROVE TInv'
  OBVIOUS
<1>1. CASE UNCHANGED msgVars
  BY <1>1, TInvSame
<1>2. CASE panic /\ UNCHANGED <<portVars, poolVars>>
  <2>1. UNCHANGED msgVars
    BY <1>2 DEF panic, msgVars
  <2> QED BY <2>1, TInvSame
<1>3. ASSUME NEW p \in Procs, MsgStep(p) PROVE TInv'
  BY <1>3, TInvStep
<1> QED BY <1>1, <1>2, <1>3 DEF MsgNext

\* All variables have their types, each use of a semaphore has one of its own, callers
\* wait for that one and for no other, and who clears a port finds it as it left it:
\* ptcreate(), _ptclear() and mkbufpool() never share a semaphore (ptcreate.c:35,
\* ptclear.c:40, mkbufpool.c:39).
THEOREM TInvCorrect == MsgSpec => []TInv
<1>1. MsgInit => TInv
  BY TInvInit
<1>2. TInv /\ [MsgNext]_msgVars => TInv'
  BY TInvNext
<1> QED BY <1>1, <1>2, PTL DEF MsgSpec

\* semdelete() and semreset() release every process, so that nobody goes on waiting
\* for a port that has been cleared, however often and by whomever (ptclear.c:40).
THEOREM NobodyWaitsInVainCorrect == MsgSpec => []NobodyWaitsInVain
<1>1. TInv => NobodyWaitsInVain
  BY DEF TInv, MInv, WaitInv, NobodyWaitsInVain
<1> QED BY <1>1, TInvCorrect, PTL

-----------------------------------------------------------------------------
(* Counts of semaphores against messages and buffers                       *)

\* The callers who a unit of use u is meant for, or will be: those that wait, and
\* those that have been released and go on with what they came for.
Serving(u) == {p \in UsersOf(u) : call[p].op = "getbuf" \/ Fresh(call[p])}

\* The units that are left, or promised.  Blocking and being released leave it alone.
Count(u) == semtab[SemOf(u)].count
Owing(u) == Count(u) + Cardinality(Serving(u))

\* Room with the messages, and messages that nobody has been promised.
Spare(i) == Owing(SendUse(i)) + Len(porttab[i].ptmsgs)
Surplus(i) == Len(porttab[i].ptmsgs) - Owing(RecvUse(i))

Exact == kills = 0 /\ ~panicked

\* ptcreate() does not check that its argument fits the table entry, which is shorter.
CountsFit == PortCounts \subseteq 0..U16MAX

PortSound(i) ==
  CountsFit /\ porttab[i].ptstate = PT_ALLOC /\ porttab[i].ptssem # SYSERR =>
    /\ Spare(i) <= porttab[i].ptmaxcnt
    /\ Exact => Spare(i) = porttab[i].ptmaxcnt
    /\ porttab[i].ptrsem # SYSERR => Surplus(i) >= 0 /\ (Exact => Surplus(i) = 0)

\* What ptreset() has reset stays so until the port is in use again.
ResetSound(p, i) ==
  Clearing(p, i) /\ call[p].newstate = PT_ALLOC =>
    /\ porttab[i].ptssem # SYSERR /\ call[p].op \in {"receivers", "newstate"} =>
         Count(SendUse(i)) = porttab[i].ptmaxcnt
    /\ porttab[i].ptrsem # SYSERR /\ call[p].op = "newstate" => Count(RecvUse(i)) = 0

PoolSound(k) ==
  k < nbpools =>
    /\ Owing(PoolUse(k)) <= Len(buftab[k].bpnext)
    /\ kills = 0 => Owing(PoolUse(k)) = Len(buftab[k].bpnext)

CountInv ==
  /\ \A i \in PortIds : PortSound(i)
  /\ \A p \in Procs, i \in PortIds : ResetSound(p, i)
  /\ \A k \in PoolIds : PoolSound(k)

CInv == TInv /\ CountInv

\* Use u is of a port that has not been cleared or created, or of a pool.
KeepsPort(u) ==
  u[1] # "getbuf" => /\ porttab'[u[2]].ptstate = porttab[u[2]].ptstate
                     /\ porttab'[u[2]].ptseq = porttab[u[2]].ptseq

LEMMA ServingTypes ==
  ASSUME NEW u
  PROVE  /\ IsFiniteSet(Serving(u)) /\ Cardinality(Serving(u)) \in Nat
         /\ IsFiniteSet(Serving(u)') /\ Cardinality(Serving(u)') \in Nat
<1>1. Serving(u) \in SUBSET Procs /\ Serving(u)' \in SUBSET Procs
  BY DEF Serving, UsersOf
<1> QED BY <1>1, CallAssumption, FS_Subset, FS_CardinalityType

LEMMA ServingKept ==
  ASSUME NEW p \in Procs, \A q \in Procs : q # p => call'[q] = call[q],
         NEW u, KeepsPort(u)
  PROVE  /\ (p \in Serving(u)' <=> p \in Serving(u)) => Serving(u)' = Serving(u)
         /\ p \in Serving(u) /\ p \notin Serving(u)' =>
              Cardinality(Serving(u)') = Cardinality(Serving(u)) - 1
         /\ p \notin Serving(u) /\ p \in Serving(u)' =>
              Cardinality(Serving(u)') = Cardinality(Serving(u)) + 1
<1>1. ASSUME NEW q \in Procs, q # p PROVE q \in Serving(u)' <=> q \in Serving(u)
  <2>1. call'[q] = call[q]
    BY <1>1
  <2>2. q \in UsersOf(u)' <=> q \in UsersOf(u)
    BY <2>1 DEF UsersOf, Using, UseOf
  <2>3. CASE call[q].op = "getbuf"
    BY <2>1, <2>2, <2>3 DEF Serving, UsersOf
  <2>4. CASE call[q].op # "getbuf"
    <3>1. CASE UseOf(call[q]) # u
      BY <2>1, <2>2, <3>1 DEF Serving, UsersOf
    <3>2. CASE UseOf(call[q]) = u
      <4>1. u[1] = call[q].op /\ u[2] = call[q].port
        BY <2>4, <3>2 DEF UseOf
      <4>2. porttab'[call[q].port].ptstate = porttab[call[q].port].ptstate
               /\ porttab'[call[q].port].ptseq = porttab[call[q].port].ptseq
        BY <4>1, <2>4 DEF KeepsPort
      <4>3. Fresh(call[q])' <=> Fresh(call[q])
        BY <2>1, <4>2 DEF Fresh
      <4> QED BY <2>1, <2>2, <4>3 DEF Serving, UsersOf
    <3> QED BY <3>1, <3>2
  <2> QED BY <2>3, <2>4
<1>2. Serving(u) \subseteq Procs /\ Serving(u)' \subseteq Procs
  BY DEF Serving, UsersOf
<1>3. IsFiniteSet(Serving(u)) /\ Cardinality(Serving(u)) \in Nat
  BY ServingTypes
<1>4. (p \in Serving(u)' <=> p \in Serving(u)) => Serving(u)' = Serving(u)
  BY <1>1, <1>2
<1>5. ASSUME p \in Serving(u), p \notin Serving(u)'
      PROVE  Cardinality(Serving(u)') = Cardinality(Serving(u)) - 1
  <2>1. Serving(u)' = Serving(u) \ {p}
    BY <1>1, <1>2, <1>5
  <2> QED BY <2>1, <1>3, <1>5, FS_RemoveElement
<1>6. ASSUME p \notin Serving(u), p \in Serving(u)'
      PROVE  Cardinality(Serving(u)') = Cardinality(Serving(u)) + 1
  <2>1. Serving(u)' = Serving(u) \cup {p}
    BY <1>1, <1>2, <1>6
  <2> QED BY <2>1, <1>3, <1>6, FS_AddElement
<1> QED BY <1>4, <1>5, <1>6

LEMMA CountTypes ==
  ASSUME TInv, NEW u \in Uses, Live(u)
  PROVE  Count(u) \in Int /\ Owing(u) \in Int /\ SemOf(u) \in SemIds /\ semtab[SemOf(u)].used
<1>1. isused(semtab, SemOf(u)) /\ SemTable(semtab)
  BY DEF TInv, MInv, OwnInv, MsgTypes
<1>2. Count(u) \in Int
  BY <1>1, SemQueue DEF isused, Count
<1> QED BY <1>1, <1>2, ServingTypes DEF Owing, isused

-----------------------------------------------------------------------------
(* Waiting and signalling, by use                                          *)

LEMMA SignalUse ==
  ASSUME TInv, NEW t, SemTable(t), \A s \in SemIds : t[s].used = semtab[s].used,
         NEW v \in Uses, SemOf(v) \in SemIds \cup {SYSERR}, SemOf(v) # SYSERR => Live(v),
         NEW u \in Uses, Live(u)
  PROVE  signal(t, SemOf(v))[SemOf(u)].count =
           IF u = v THEN t[SemOf(u)].count + 1 ELSE t[SemOf(u)].count
<1>1. SemOf(u) \in SemIds /\ semtab[SemOf(u)].used
  BY CountTypes
<1>2. SemOf(v) = SemOf(u) => v = u
  <2>1. SemOf(v) = SemOf(u) => Live(v)
    BY <1>1 DEF SemIds, SYSERR
  <2> QED BY <2>1 DEF TInv, MInv, OwnInv
<1>3. \A r \in SemIds :
        signal(t, SemOf(v))[r].count =
          IF r = SemOf(v) /\ isused(t, SemOf(v)) THEN t[r].count + 1 ELSE t[r].count
  BY SignalAny
<1>4. isused(t, SemOf(u))
  BY <1>1 DEF isused
<1> QED BY <1>1, <1>2, <1>3, <1>4

LEMMA WaitUse ==
  ASSUME TInv, NEW p \in Procs, ~Waiting(p), NEW v \in Uses, Live(v), Count(v) > 0
  PROVE  LET t == wait(semtab, SemOf(v), p)
         IN  /\ SemTable(t) /\ \A s \in SemIds : t[s].used = semtab[s].used
             /\ \A u \in Uses : Live(u) =>
                  t[SemOf(u)].count = IF u = v THEN Count(u) - 1 ELSE Count(u)
<1> DEFINE s == SemOf(v)
           t == wait(semtab, s, p)
<1>1. s \in SemIds /\ semtab[s].used /\ SemTable(semtab) /\ semtab[s].count > 0
  BY CountTypes DEF TInv, MInv, MsgTypes, Count
<1> HIDE DEF s
<1>2. /\ SemTable(t) /\ \A r \in SemIds : t[r].used = semtab[r].used
      /\ \A r \in SemIds : t[r].count = IF r = s THEN semtab[r].count - 1 ELSE semtab[r].count
  BY <1>1, WaitPositive DEF Waiting
<1> HIDE DEF t
<1>3. ASSUME NEW u \in Uses, Live(u)
      PROVE  t[SemOf(u)].count = IF u = v THEN Count(u) - 1 ELSE Count(u)
  <2>1. SemOf(u) \in SemIds /\ (SemOf(u) = s => u = v)
    BY <1>3, CountTypes DEF TInv, MInv, OwnInv, s
  <2>2. t[SemOf(u)].count = IF SemOf(u) = s THEN semtab[SemOf(u)].count - 1
                                            ELSE semtab[SemOf(u)].count
    BY <1>2, <2>1
  <2>3. SemOf(u) = s <=> u = v
    BY <2>1 DEF s
  <2> QED BY <2>2, <2>3 DEF Count
<1> QED BY <1>2, <1>3 DEF t, s

LEMMA CountTypesNext ==
  ASSUME TInv', NEW u \in Uses, Live(u)'
  PROVE  Count(u)' \in Int /\ Owing(u)' \in Int
<1>1. isused(semtab', SemOf(u)') /\ SemTable(semtab')
  BY DEF TInv, MInv, OwnInv, MsgTypes
<1>2. semtab'[SemOf(u)'].count \in Int
  BY <1>1, SemQueue DEF isused
<1>3. Count(u)' \in Int
  BY <1>2 DEF Count
<1>4. Cardinality(Serving(u))' = Cardinality(Serving(u)')
  OBVIOUS
<1>5. Cardinality(Serving(u)') \in Nat
  BY ServingTypes
<1> QED BY <1>3, <1>4, <1>5 DEF Owing

LEMMA ServingSteady ==
  ASSUME SamePorts, NEW p \in Procs, \A q \in Procs : q # p => call'[q] = call[q],
         ~Using(call'[p]), NEW u \in Uses
  PROVE  Cardinality(Serving(u)') =
           IF p \in Serving(u) THEN Cardinality(Serving(u)) - 1 ELSE Cardinality(Serving(u))
<1>1. KeepsPort(u)
  <2>1. u[1] # "getbuf" => u[2] \in PortIds
    BY DEF Uses, SendUse, RecvUse, PoolUse
  <2> QED BY <2>1 DEF KeepsPort, SamePorts
<1>2. p \notin Serving(u)'
  BY DEF Serving, UsersOf
<1> QED BY <1>1, <1>2, ServingKept

LEMMA ServingFixed ==
  ASSUME SamePorts, call' = call, NEW u \in Uses
  PROVE  Serving(u)' = Serving(u)
<1>1. u[1] # "getbuf" => u[2] \in PortIds
  BY DEF Uses, SendUse, RecvUse, PoolUse
<1>2. ASSUME NEW q \in Procs PROVE q \in Serving(u)' <=> q \in Serving(u)
  <2>1. q \in UsersOf(u)' <=> q \in UsersOf(u)
    BY DEF UsersOf, Using, UseOf
  <2>2. CASE call[q].op = "getbuf"
    BY <2>1, <2>2 DEF Serving, UsersOf
  <2>3. CASE call[q].op # "getbuf" /\ UseOf(call[q]) = u
    <3>1. call[q].port \in PortIds
      BY <1>1, <2>3 DEF UseOf
    <3>2. Fresh(call[q])' <=> Fresh(call[q])
      BY <3>1 DEF Fresh, SamePorts
    <3> QED BY <2>1, <3>2 DEF Serving, UsersOf
  <2>4. CASE UseOf(call[q]) # u
    BY <2>1, <2>4 DEF Serving, UsersOf
  <2> QED BY <2>2, <2>3, <2>4
<1> QED BY <1>2 DEF Serving, UsersOf

-----------------------------------------------------------------------------
(* Steps that neither create nor clear a port                              *)

\* Nothing is lost or gained but by the death of a process.
BalanceKept(i) ==
  porttab[i].ptstate = PT_ALLOC /\ porttab[i].ptssem # SYSERR =>
    /\ Spare(i)' <= Spare(i) /\ (Exact' => Spare(i)' = Spare(i))
    /\ porttab[i].ptrsem # SYSERR =>
         Surplus(i) <= Surplus(i)' /\ (Exact' => Surplus(i)' = Surplus(i))
LimboKept(i) ==
  porttab[i].ptstate = PT_LIMBO =>
    /\ SendLive(i) /\ Count(SendUse(i)) >= 0 => Count(SendUse(i))' = Count(SendUse(i))
    /\ RecvLive(i) /\ Count(RecvUse(i)) >= 0 => Count(RecvUse(i))' = Count(RecvUse(i))
StockKept(k) ==
  k < nbpools =>
    /\ Len(buftab[k].bpnext) - Owing(PoolUse(k)) <= Len(buftab'[k].bpnext) - Owing(PoolUse(k))'
    /\ kills' = 0 =>
         Len(buftab'[k].bpnext) - Owing(PoolUse(k))' = Len(buftab[k].bpnext) - Owing(PoolUse(k))
ClearsAlike ==
  \A q \in Procs, i \in PortIds : Clearing(q, i)' =>
    Clearing(q, i) /\ call'[q].op = call[q].op /\ call'[q].newstate = call[q].newstate

LEMMA PortTypesNow ==
  ASSUME TInv, NEW i \in PortIds, porttab[i].ptstate = PT_ALLOC, porttab[i].ptssem # SYSERR
  PROVE  /\ Spare(i) \in Int /\ Owing(SendUse(i)) \in Int
         /\ porttab[i].ptmaxcnt \in Nat /\ Len(porttab[i].ptmsgs) \in Nat
         /\ porttab[i].ptrsem # SYSERR => Surplus(i) \in Int /\ Owing(RecvUse(i)) \in Int
<1>1. porttab[i].ptmaxcnt \in Nat /\ porttab[i].ptmsgs \in Seq(Bufs)
  BY DEF TInv, MInv, MsgTypes, PortEntries
<1>2. Len(porttab[i].ptmsgs) \in Nat
  BY <1>1, LenProperties
<1>3. SendUse(i) \in Uses /\ RecvUse(i) \in Uses
  BY UseNames
<1>4. Live(SendUse(i)) /\ (porttab[i].ptrsem # SYSERR => Live(RecvUse(i)))
  BY UseFacts DEF SendLive, RecvLive
<1>5. Owing(SendUse(i)) \in Int /\ (porttab[i].ptrsem # SYSERR => Owing(RecvUse(i)) \in Int)
  BY <1>3, <1>4, CountTypes
<1>6. Spare(i) \in Int
  BY <1>2, <1>5 DEF Spare
<1>7. ASSUME porttab[i].ptrsem # SYSERR PROVE Surplus(i) \in Int
  BY <1>2, <1>5, <1>7 DEF Surplus
<1> QED BY <1>1, <1>2, <1>5, <1>6, <1>7

LEMMA PortTypesNext ==
  ASSUME TInv', NEW i \in PortIds, porttab'[i].ptstate = PT_ALLOC, porttab'[i].ptssem # SYSERR
  PROVE  /\ Spare(i)' \in Int /\ Owing(SendUse(i))' \in Int
         /\ porttab'[i].ptmaxcnt \in Nat /\ Len(porttab'[i].ptmsgs) \in Nat
         /\ porttab'[i].ptrsem # SYSERR => Surplus(i)' \in Int /\ Owing(RecvUse(i))' \in Int
<1>1. porttab'[i].ptmaxcnt \in Nat /\ porttab'[i].ptmsgs \in Seq(Bufs)
  BY DEF TInv, MInv, MsgTypes, PortEntries
<1>2. Len(porttab'[i].ptmsgs) \in Nat
  BY <1>1, LenProperties
<1>3. SendUse(i) \in Uses /\ RecvUse(i) \in Uses
  BY UseNames
<1>4. Live(SendUse(i))' /\ (porttab'[i].ptrsem # SYSERR => Live(RecvUse(i))')
  BY UseFactsNext DEF SendLive, RecvLive
<1>5. Owing(SendUse(i))' \in Int /\ (porttab'[i].ptrsem # SYSERR => Owing(RecvUse(i))' \in Int)
  BY <1>3, <1>4, CountTypesNext
<1>6. Spare(i)' \in Int
  BY <1>2, <1>5 DEF Spare
<1>7. ASSUME porttab'[i].ptrsem # SYSERR PROVE Surplus(i)' \in Int
  BY <1>2, <1>5, <1>7 DEF Surplus
<1> QED BY <1>1, <1>2, <1>5, <1>6, <1>7

LEMMA StockTypes ==
  ASSUME NEW k \in PoolIds
  PROVE  /\ TInv /\ k < nbpools => Owing(PoolUse(k)) \in Int /\ Len(buftab[k].bpnext) \in Nat
         /\ TInv' /\ k < nbpools' => Owing(PoolUse(k))' \in Int /\ Len(buftab'[k].bpnext) \in Nat
<1>1. PoolUse(k) \in Uses
  BY UseNames
<1>2. ASSUME TInv, k < nbpools
      PROVE  Owing(PoolUse(k)) \in Int /\ Len(buftab[k].bpnext) \in Nat
  <2>1. buftab[k].bpnext \in Seq(Bufs)
    BY <1>2 DEF TInv, MInv, MsgTypes, PoolEntries
  <2> QED BY <1>1, <1>2, <2>1, UseFacts, CountTypes, LenProperties
<1>3. ASSUME TInv', k < nbpools'
      PROVE  Owing(PoolUse(k))' \in Int /\ Len(buftab'[k].bpnext) \in Nat
  <2>1. buftab'[k].bpnext \in Seq(Bufs)
    BY <1>3 DEF TInv, MInv, MsgTypes, PoolEntries
  <2> QED BY <1>1, <1>3, <2>1, UseFactsNext, CountTypesNext, LenProperties
<1> QED BY <1>2, <1>3

LEMMA SteadyCounts ==
  ASSUME CInv, TInv', SamePorts, SamePools, ClearsAlike,
         Exact' => Exact, kills' = 0 => kills = 0,
         \A i \in PortIds : BalanceKept(i) /\ LimboKept(i),
         \A k \in PoolIds : StockKept(k)
  PROVE  CountInv'
<1>1. ASSUME NEW i \in PortIds PROVE PortSound(i)'
  <2> SUFFICES ASSUME CountsFit, porttab'[i].ptstate = PT_ALLOC, porttab'[i].ptssem # SYSERR
               PROVE  /\ Spare(i)' <= porttab'[i].ptmaxcnt
                      /\ Exact' => Spare(i)' = porttab'[i].ptmaxcnt
                      /\ porttab'[i].ptrsem # SYSERR =>
                           Surplus(i)' >= 0 /\ (Exact' => Surplus(i)' = 0)
    BY DEF PortSound
  <2>1. /\ porttab[i].ptstate = PT_ALLOC /\ porttab[i].ptssem # SYSERR
        /\ porttab'[i].ptmaxcnt = porttab[i].ptmaxcnt
        /\ porttab'[i].ptrsem # SYSERR => porttab[i].ptrsem # SYSERR
    BY DEF SamePorts
  <2>2. PortSound(i) /\ BalanceKept(i) /\ TInv
    BY DEF CInv, CountInv
  <2>3. /\ Spare(i) \in Int /\ porttab[i].ptmaxcnt \in Nat
        /\ porttab[i].ptrsem # SYSERR => Surplus(i) \in Int
    BY <2>1, <2>2, PortTypesNow
  <2>4. Spare(i)' \in Int /\ (porttab'[i].ptrsem # SYSERR => Surplus(i)' \in Int)
    BY PortTypesNext
  <2>5. /\ Spare(i) <= porttab[i].ptmaxcnt /\ (Exact => Spare(i) = porttab[i].ptmaxcnt)
        /\ porttab[i].ptrsem # SYSERR => Surplus(i) >= 0 /\ (Exact => Surplus(i) = 0)
    BY <2>1, <2>2 DEF PortSound
  <2>6. /\ Spare(i)' <= Spare(i) /\ (Exact' => Spare(i)' = Spare(i))
        /\ porttab[i].ptrsem # SYSERR =>
             Surplus(i) <= Surplus(i)' /\ (Exact' => Surplus(i)' = Surplus(i))
    BY <2>1, <2>2 DEF BalanceKept
  <2> QED BY <2>1, <2>3, <2>4, <2>5, <2>6
<1>2. ASSUME NEW q \in Procs, NEW i \in PortIds PROVE ResetSound(q, i)'
  <2> SUFFICES ASSUME Clearing(q, i)', call'[q].newstate = PT_ALLOC
               PROVE  /\ porttab'[i].ptssem # SYSERR /\ call'[q].op \in {"receivers", "newstate"} =>
                           Count(SendUse(i))' = porttab'[i].ptmaxcnt
                      /\ porttab'[i].ptrsem # SYSERR /\ call'[q].op = "newstate" =>
                           Count(RecvUse(i))' = 0
    BY DEF ResetSound
  <2>1. Clearing(q, i) /\ call'[q].op = call[q].op /\ call[q].newstate = PT_ALLOC
    BY DEF ClearsAlike
  <2>2. /\ porttab'[i].ptmaxcnt = porttab[i].ptmaxcnt
        /\ porttab'[i].ptssem = porttab[i].ptssem /\ porttab'[i].ptrsem = porttab[i].ptrsem
    BY DEF SamePorts
  <2>3. ResetSound(q, i) /\ LimboKept(i) /\ porttab[i].ptstate = PT_LIMBO
    BY <2>1 DEF CInv, CountInv, TInv, MInv, ClearInv
  <2>4. /\ porttab[i].ptssem # SYSERR => SendLive(i)
        /\ porttab[i].ptrsem # SYSERR => RecvLive(i)
    BY <2>1 DEF SendLive, RecvLive, Keeps
  <2>5. porttab[i].ptmaxcnt >= 0
    BY DEF CInv, TInv, MInv, MsgTypes, PortEntries
  <2> QED BY <2>1, <2>2, <2>3, <2>4, <2>5 DEF ResetSound, LimboKept
<1>3. ASSUME NEW k \in PoolIds PROVE PoolSound(k)'
  <2> SUFFICES ASSUME k < nbpools'
               PROVE  /\ Owing(PoolUse(k))' <= Len(buftab'[k].bpnext)
                      /\ kills' = 0 => Owing(PoolUse(k))' = Len(buftab'[k].bpnext)
    BY DEF PoolSound
  <2>1. k < nbpools /\ PoolSound(k) /\ StockKept(k) /\ TInv
    BY DEF SamePools, CInv, CountInv
  <2>2. Owing(PoolUse(k)) \in Int /\ Len(buftab[k].bpnext) \in Nat
    BY <2>1, StockTypes
  <2>3. Owing(PoolUse(k))' \in Int /\ Len(buftab'[k].bpnext) \in Nat
    BY StockTypes
  <2>4. /\ Owing(PoolUse(k)) <= Len(buftab[k].bpnext)
        /\ kills = 0 => Owing(PoolUse(k)) = Len(buftab[k].bpnext)
    BY <2>1 DEF PoolSound
  <2>5. /\ Len(buftab[k].bpnext) - Owing(PoolUse(k)) <= Len(buftab'[k].bpnext) - Owing(PoolUse(k))'
        /\ kills' = 0 =>
             Len(buftab'[k].bpnext) - Owing(PoolUse(k))' = Len(buftab[k].bpnext) - Owing(PoolUse(k))
    BY <2>1 DEF StockKept
  <2> QED BY <2>2, <2>3, <2>4, <2>5
<1> QED BY <1>1, <1>2, <1>3 DEF CountInv

\* The uses of port i, if it is in use and has its semaphores.
LEMMA LiveUses ==
  ASSUME NEW i \in PortIds
  PROVE  /\ SendUse(i) \in Uses /\ RecvUse(i) \in Uses
         /\ porttab[i].ptstate = PT_ALLOC /\ porttab[i].ptssem # SYSERR => Live(SendUse(i))
         /\ porttab[i].ptstate = PT_ALLOC /\ porttab[i].ptrsem # SYSERR => Live(RecvUse(i))
         /\ \A j \in PortIds : j # i =>
              /\ SendUse(j) \notin {SendUse(i), RecvUse(i)}
              /\ RecvUse(j) \notin {SendUse(i), RecvUse(i)}
         /\ \A k \in PoolIds : /\ PoolUse(k) \in Uses \ {SendUse(i), RecvUse(i)}
                               /\ k < nbpools => Live(PoolUse(k))
BY UseNames, UseFacts DEF SendLive, RecvLive

\* A change of port i that is in use, and of what is owed to its callers.
LEMMA PassCounts ==
  ASSUME CInv, TInv', NEW i \in PortIds, porttab[i].ptstate = PT_ALLOC,
         SamePorts, SamePools, ClearsAlike, kills' = kills, buftab' = buftab,
         Exact' => Exact,
         \A j \in PortIds : j # i => porttab'[j] = porttab[j],
         \A u \in Uses \ {SendUse(i), RecvUse(i)} : Live(u) =>
            Owing(u)' = Owing(u) /\ Count(u)' = Count(u),
         BalanceKept(i)
  PROVE  CountInv'
<1>0. TInv
  BY DEF CInv
<1>1. ASSUME NEW j \in PortIds PROVE BalanceKept(j)
  <2>1. CASE j = i
    BY <2>1
  <2>2. CASE j # i
    <3> SUFFICES ASSUME porttab[j].ptstate = PT_ALLOC, porttab[j].ptssem # SYSERR
                 PROVE  /\ Spare(j)' <= Spare(j) /\ (Exact' => Spare(j)' = Spare(j))
                        /\ porttab[j].ptrsem # SYSERR =>
                             Surplus(j) <= Surplus(j)' /\ (Exact' => Surplus(j)' = Surplus(j))
      BY DEF BalanceKept
    <3>1. porttab'[j] = porttab[j]
      BY <2>2
    <3>2. Owing(SendUse(j))' = Owing(SendUse(j))
      BY <2>2, LiveUses
    <3>3. porttab[j].ptrsem # SYSERR => Owing(RecvUse(j))' = Owing(RecvUse(j))
      BY <2>2, LiveUses
    <3>4. Spare(j)' = Spare(j) /\ (porttab[j].ptrsem # SYSERR => Surplus(j)' = Surplus(j))
      BY <3>1, <3>2, <3>3 DEF Spare, Surplus
    <3>5. Spare(j) \in Int /\ (porttab[j].ptrsem # SYSERR => Surplus(j) \in Int)
      BY <1>0, PortTypesNow
    <3> QED BY <3>4, <3>5
  <2> QED BY <2>1, <2>2
<1>2. ASSUME NEW j \in PortIds PROVE LimboKept(j)
  <2> SUFFICES ASSUME porttab[j].ptstate = PT_LIMBO
               PROVE  /\ SendLive(j) => Count(SendUse(j))' = Count(SendUse(j))
                      /\ RecvLive(j) => Count(RecvUse(j))' = Count(RecvUse(j))
    BY DEF LimboKept
  <2>1. j # i
    BY DEF PT_LIMBO, PT_ALLOC
  <2>2. /\ SendUse(j) \in Uses \ {SendUse(i), RecvUse(i)}
        /\ RecvUse(j) \in Uses \ {SendUse(i), RecvUse(i)}
    BY <2>1, UseNames
  <2> QED BY <2>2, UseFacts
<1>3. ASSUME NEW k \in PoolIds PROVE StockKept(k)
  <2> SUFFICES ASSUME k < nbpools
               PROVE  Len(buftab[k].bpnext) - Owing(PoolUse(k))
                        <= Len(buftab'[k].bpnext) - Owing(PoolUse(k))'
                      /\ (Len(buftab'[k].bpnext) - Owing(PoolUse(k))'
                            = Len(buftab[k].bpnext) - Owing(PoolUse(k)))
    BY DEF StockKept
  <2>1. Owing(PoolUse(k))' = Owing(PoolUse(k))
    BY LiveUses
  <2>2. Owing(PoolUse(k)) \in Int /\ Len(buftab[k].bpnext) \in Nat
    BY <1>0, StockTypes
  <2> QED BY <2>1, <2>2
<1> QED BY <1>1, <1>2, <1>3, SteadyCounts

\* ptsend() has left a message, or has found no node for it.
LEMMA SendCounts ==
  ASSUME CInv, TInv', NEW i \in PortIds, porttab[i].ptstate = PT_ALLOC,
         SamePorts, SamePools, ClearsAlike, kills' = kills, buftab' = buftab, ~panicked,
         \A j \in PortIds : j # i => porttab'[j] = porttab[j],
         \/ panicked' /\ porttab'[i].ptmsgs = porttab[i].ptmsgs
         \/ ~panicked' /\ Len(porttab'[i].ptmsgs) = Len(porttab[i].ptmsgs) + 1,
         \A u \in Uses : Live(u) =>
           /\ Owing(u)' = IF u = SendUse(i) THEN Owing(u) - 1
                          ELSE IF u = RecvUse(i) /\ ~panicked' THEN Owing(u) + 1 ELSE Owing(u)
           /\ u \notin {SendUse(i), RecvUse(i)} => Count(u)' = Count(u)
  PROVE  CountInv'
<1>1. TInv /\ (Exact' => Exact /\ ~panicked')
  BY DEF CInv, Exact
<1>2. BalanceKept(i)
  <2> SUFFICES ASSUME porttab[i].ptssem # SYSERR
               PROVE  /\ Spare(i)' <= Spare(i) /\ (Exact' => Spare(i)' = Spare(i))
                      /\ porttab[i].ptrsem # SYSERR =>
                           Surplus(i) <= Surplus(i)' /\ (Exact' => Surplus(i)' = Surplus(i))
    BY DEF BalanceKept
  <2>1. SendUse(i) # RecvUse(i)
    BY UseNames
  <2>2. Owing(SendUse(i))' = Owing(SendUse(i)) - 1
    BY LiveUses
  <2>3. porttab[i].ptrsem # SYSERR =>
          Owing(RecvUse(i))' = IF panicked' THEN Owing(RecvUse(i)) ELSE Owing(RecvUse(i)) + 1
    BY <2>1, LiveUses
  <2>4. /\ Owing(SendUse(i)) \in Int /\ Len(porttab[i].ptmsgs) \in Nat
        /\ porttab[i].ptrsem # SYSERR => Owing(RecvUse(i)) \in Int
    BY <1>1, PortTypesNow
  <2>5. CASE panicked' /\ porttab'[i].ptmsgs = porttab[i].ptmsgs
    BY <1>1, <2>2, <2>3, <2>4, <2>5 DEF Spare, Surplus
  <2>6. CASE ~panicked' /\ Len(porttab'[i].ptmsgs) = Len(porttab[i].ptmsgs) + 1
    <3> DEFINE S == Owing(SendUse(i))
               R == Owing(RecvUse(i))
               M == Len(porttab[i].ptmsgs)
    <3>1. S' = S - 1 /\ M' = M + 1 /\ (porttab[i].ptrsem # SYSERR => R' = R + 1)
      BY <2>2, <2>3, <2>6
    <3>2. Spare(i) = S + M /\ Spare(i)' = S' + M'
             /\ Surplus(i) = M - R /\ Surplus(i)' = M' - R'
      BY DEF Spare, Surplus
    <3>3. S \in Int /\ M \in Int /\ (porttab[i].ptrsem # SYSERR => R \in Int)
      BY <2>4
    <3> HIDE DEF S, R, M
    <3> QED BY <3>1, <3>2, <3>3
  <2> QED BY <2>5, <2>6
<1>3. \A u \in Uses \ {SendUse(i), RecvUse(i)} : Live(u) =>
            Owing(u)' = Owing(u) /\ Count(u)' = Count(u)
  OBVIOUS
<1> QED BY <1>1, <1>2, <1>3, PassCounts

\* ptrecv() has taken a message.
LEMMA RecvCounts ==
  ASSUME CInv, TInv', NEW i \in PortIds, porttab[i].ptstate = PT_ALLOC,
         SamePorts, SamePools, ClearsAlike, kills' = kills, buftab' = buftab,
         panicked' = panicked,
         \A j \in PortIds : j # i => porttab'[j] = porttab[j],
         Len(porttab'[i].ptmsgs) = Len(porttab[i].ptmsgs) - 1,
         \A u \in Uses : Live(u) =>
           /\ Owing(u)' = IF u = RecvUse(i) THEN Owing(u) - 1
                          ELSE IF u = SendUse(i) THEN Owing(u) + 1 ELSE Owing(u)
           /\ u \notin {SendUse(i), RecvUse(i)} => Count(u)' = Count(u)
  PROVE  CountInv'
<1>1. TInv /\ (Exact' => Exact)
  BY DEF CInv, Exact
<1>2. BalanceKept(i)
  <2> SUFFICES ASSUME porttab[i].ptssem # SYSERR
               PROVE  /\ Spare(i)' <= Spare(i) /\ (Exact' => Spare(i)' = Spare(i))
                      /\ porttab[i].ptrsem # SYSERR =>
                           Surplus(i) <= Surplus(i)' /\ (Exact' => Surplus(i)' = Surplus(i))
    BY DEF BalanceKept
  <2>1. SendUse(i) # RecvUse(i)
    BY UseNames
  <2>2. Owing(SendUse(i))' = Owing(SendUse(i)) + 1
    BY <2>1, LiveUses
  <2>3. porttab[i].ptrsem # SYSERR => Owing(RecvUse(i))' = Owing(RecvUse(i)) - 1
    BY LiveUses
  <2>4. /\ Owing(SendUse(i)) \in Int /\ Len(porttab[i].ptmsgs) \in Nat
        /\ porttab[i].ptrsem # SYSERR => Owing(RecvUse(i)) \in Int
    BY <1>1, PortTypesNow
  <2> DEFINE S == Owing(SendUse(i))
             R == Owing(RecvUse(i))
             M == Len(porttab[i].ptmsgs)
  <2>5. S' = S + 1 /\ M' = M - 1 /\ (porttab[i].ptrsem # SYSERR => R' = R - 1)
    BY <2>2, <2>3
  <2>6. Spare(i) = S + M /\ Spare(i)' = S' + M'
           /\ Surplus(i) = M - R /\ Surplus(i)' = M' - R'
    BY DEF Spare, Surplus
  <2>7. S \in Int /\ M \in Int /\ (porttab[i].ptrsem # SYSERR => R \in Int)
    BY <2>4
  <2> HIDE DEF S, R, M
  <2> QED BY <2>5, <2>6, <2>7
<1>3. \A u \in Uses \ {SendUse(i), RecvUse(i)} : Live(u) =>
            Owing(u)' = Owing(u) /\ Count(u)' = Count(u)
  OBVIOUS
<1> QED BY <1>1, <1>2, <1>3, PassCounts

-----------------------------------------------------------------------------
(* Sending and receiving                                                   *)

LEMMA SemOfKept ==
  ASSUME SamePorts, SamePools, NEW u \in Uses
  PROVE  SemOf(u)' = SemOf(u)
<1>1. CASE \E i \in PortIds : u = SendUse(i) \/ u = RecvUse(i)
  BY <1>1, UseFacts, UseFactsNext DEF SamePorts
<1>2. CASE \E k \in PoolIds : u = PoolUse(k)
  BY <1>2, UseFacts, UseFactsNext DEF SamePools
<1> QED BY <1>1, <1>2, UseNames

LEMMA SteadyClears == Steady => ClearsAlike
BY ClearingKept DEF Steady, ClearsAlike

LEMMA PortSems ==
  ASSUME TInv, NEW i \in PortIds
  PROVE  /\ SemOf(SendUse(i)) = porttab[i].ptssem /\ porttab[i].ptssem \in SemIds \cup {SYSERR}
         /\ SemOf(RecvUse(i)) = porttab[i].ptrsem /\ porttab[i].ptrsem \in SemIds \cup {SYSERR}
BY UseFacts DEF TInv, MInv, MsgTypes, PortEntries

LEMMA DepositCounts ==
  ASSUME TInv, ~panicked, NEW i \in PortIds, porttab[i].ptstate = PT_ALLOC,
         NEW t, SemTable(t), \A s \in SemIds : t[s].used = semtab[s].used,
         NEW m \in Bufs, deposit(t, i, m), SamePools
  PROVE  /\ \A j \in PortIds : j # i => porttab'[j] = porttab[j]
         /\ \/ panicked' /\ porttab'[i].ptmsgs = porttab[i].ptmsgs
            \/ ~panicked' /\ Len(porttab'[i].ptmsgs) = Len(porttab[i].ptmsgs) + 1
         /\ \A u \in Uses : Live(u) =>
              Count(u)' = IF u = RecvUse(i) /\ ~panicked' THEN t[SemOf(u)].count + 1
                          ELSE t[SemOf(u)].count
<1> DEFINE v == RecvUse(i)
<1>1. /\ porttab \in [PortIds -> PortEntries] /\ ptfree \in Nat /\ panicked \in BOOLEAN
      /\ porttab[i].ptmsgs \in Seq(Bufs)
  BY DEF TInv, MInv, MsgTypes, PortEntries
<1>2. /\ SamePorts
      /\ \A j \in PortIds : j # i => porttab'[j] = porttab[j]
      /\ \/ panicked' = TRUE /\ semtab' = t /\ porttab' = porttab
         \/ /\ panicked' = panicked /\ semtab' = signal(t, porttab[i].ptrsem)
            /\ porttab'[i].ptmsgs = Append(porttab[i].ptmsgs, m)
  BY <1>1, Deposit
<1>3. Len(Append(porttab[i].ptmsgs, m)) = Len(porttab[i].ptmsgs) + 1
  BY <1>1, AppendProperties
<1>4. /\ v \in Uses /\ SemOf(v) \in SemIds \cup {SYSERR} /\ SemOf(v) = porttab[i].ptrsem
      /\ SemOf(v) # SYSERR => Live(v)
  BY PortSems, LiveUses
<1> HIDE DEF v
<1>5. ASSUME NEW u \in Uses, Live(u)
      PROVE  Count(u)' = IF u = v /\ ~panicked' THEN t[SemOf(u)].count + 1
                         ELSE t[SemOf(u)].count
  <2>1. SemOf(u)' = SemOf(u)
    BY <1>2, SemOfKept
  <2>2. Count(u)' = semtab'[SemOf(u)].count
    BY <2>1 DEF Count
  <2>3. CASE panicked' = TRUE /\ semtab' = t
    BY <2>2, <2>3
  <2>4. CASE panicked' = panicked /\ semtab' = signal(t, SemOf(v))
    <3>1. semtab'[SemOf(u)].count = IF u = v THEN t[SemOf(u)].count + 1 ELSE t[SemOf(u)].count
      BY <1>4, <1>5, <2>4, SignalUse
    <3> QED BY <2>2, <2>4, <3>1
  <2> QED BY <1>2, <1>4, <2>3, <2>4
<1> QED BY <1>2, <1>3, <1>5 DEF v

LEMMA WithdrawalCounts ==
  ASSUME TInv, NEW i \in PortIds, porttab[i].ptstate = PT_ALLOC,
         NEW t, SemTable(t), \A s \in SemIds : t[s].used = semtab[s].used,
         withdrawal(t, i), SamePools
  PROVE  /\ \A j \in PortIds : j # i => porttab'[j] = porttab[j]
         /\ panicked' = panicked
         /\ Len(porttab'[i].ptmsgs) = Len(porttab[i].ptmsgs) - 1
         /\ \A u \in Uses : Live(u) =>
              Count(u)' = IF u = SendUse(i) THEN t[SemOf(u)].count + 1 ELSE t[SemOf(u)].count
<1> DEFINE v == SendUse(i)
<1>1. /\ porttab \in [PortIds -> PortEntries] /\ ptfree \in Nat
      /\ porttab[i].ptmsgs \in Seq(Bufs)
  BY DEF TInv, MInv, MsgTypes, PortEntries
<1>2. /\ SamePorts /\ panicked' = panicked
      /\ \A j \in PortIds : j # i => porttab'[j] = porttab[j]
      /\ semtab' = signal(t, porttab[i].ptssem)
      /\ porttab[i].ptmsgs # <<>> /\ porttab'[i].ptmsgs = Tail(porttab[i].ptmsgs)
  BY <1>1, Withdrawal
<1>3. Len(Tail(porttab[i].ptmsgs)) = Len(porttab[i].ptmsgs) - 1
  BY <1>1, <1>2, HeadTailProperties
<1>4. /\ v \in Uses /\ SemOf(v) \in SemIds \cup {SYSERR} /\ SemOf(v) = porttab[i].ptssem
      /\ SemOf(v) # SYSERR => Live(v)
  BY PortSems, LiveUses
<1> HIDE DEF v
<1>5. ASSUME NEW u \in Uses, Live(u)
      PROVE  Count(u)' = IF u = v THEN t[SemOf(u)].count + 1 ELSE t[SemOf(u)].count
  <2>1. SemOf(u)' = SemOf(u)
    BY <1>2, SemOfKept
  <2>2. Count(u)' = semtab'[SemOf(u)].count
    BY <2>1 DEF Count
  <2>3. signal(t, SemOf(v))[SemOf(u)].count =
          IF u = v THEN t[SemOf(u)].count + 1 ELSE t[SemOf(u)].count
    BY <1>4, <1>5, SignalUse
  <2> QED BY <1>2, <1>4, <2>2, <2>3
<1> QED BY <1>2, <1>3, <1>5 DEF v

LEMMA SendNowCounts ==
  ASSUME CInv, TInv', NEW p \in Procs, NEW i \in PortIds, NEW b \in held[p],
         ptsend_now(p, i, b), gives(p, b), otherPool
  PROVE  CountInv'
<1> DEFINE v == SendUse(i)
           t == wait(semtab, SemOf(v), p)
<1>0. TInv
  BY DEF CInv
<1>1. /\ ~Waiting(p) /\ ~panicked /\ porttab[i].ptstate = PT_ALLOC
      /\ isused(semtab, SemOf(v)) /\ Count(v) > 0
      /\ deposit(t, i, b)
      /\ UNCHANGED <<ptnextid, call, masked, kills>> /\ buftab' = buftab
  BY UseFacts DEF ptsend_now, InUser, Runs, Count, otherPool
<1>2. b \in Bufs
  BY <1>0 DEF TInv, MInv, MsgTypes
<1>3. MsgTypes' /\ Steady
  BY <1>0, SendNowSteady
<1>4. SamePorts /\ SamePools /\ ClearsAlike
  BY <1>3, SteadyClears DEF Steady
<1>5. v \in Uses /\ Live(v)
  BY <1>1, LiveUses, UseFacts DEF isused, SemIds, SYSERR
<1> HIDE DEF v
<1>6. /\ SemTable(t) /\ \A s \in SemIds : t[s].used = semtab[s].used
      /\ \A u \in Uses : Live(u) =>
            t[SemOf(u)].count = IF u = v THEN Count(u) - 1 ELSE Count(u)
  BY <1>0, <1>1, <1>5, WaitUse
<1> HIDE DEF t
<1>7. /\ \A j \in PortIds : j # i => porttab'[j] = porttab[j]
      /\ \/ panicked' /\ porttab'[i].ptmsgs = porttab[i].ptmsgs
         \/ ~panicked' /\ Len(porttab'[i].ptmsgs) = Len(porttab[i].ptmsgs) + 1
      /\ \A u \in Uses : Live(u) =>
           Count(u)' = IF u = RecvUse(i) /\ ~panicked' THEN t[SemOf(u)].count + 1
                       ELSE t[SemOf(u)].count
  BY <1>0, <1>1, <1>2, <1>4, <1>6, DepositCounts
<1>8. ASSUME NEW u \in Uses, Live(u)
      PROVE  /\ Owing(u)' = IF u = SendUse(i) THEN Owing(u) - 1
                            ELSE IF u = RecvUse(i) /\ ~panicked' THEN Owing(u) + 1 ELSE Owing(u)
             /\ u \notin {SendUse(i), RecvUse(i)} => Count(u)' = Count(u)
  <2>1. Serving(u)' = Serving(u)
    BY <1>1, <1>4, ServingFixed
  <2>2. Count(u) \in Int /\ Cardinality(Serving(u)) \in Nat
    BY <1>0, <1>8, CountTypes, ServingTypes
  <2>3. Count(u)' = IF u = SendUse(i) THEN Count(u) - 1
                    ELSE IF u = RecvUse(i) /\ ~panicked' THEN Count(u) + 1 ELSE Count(u)
    BY <1>6, <1>7, <1>8, UseNames DEF v
  <2>4. Owing(u) = Count(u) + Cardinality(Serving(u))
           /\ Owing(u)' = Count(u)' + Cardinality(Serving(u))
    BY <2>1 DEF Owing
  <2> QED BY <2>2, <2>3, <2>4
<1>9. kills' = kills
  BY <1>1
<1> QED BY <1>1, <1>4, <1>7, <1>8, <1>9, SendCounts

LEMMA RecvNowCounts ==
  ASSUME CInv, TInv', NEW p \in Procs, NEW i \in PortIds,
         ptrecv_now(p, i), takes(p, i), otherPool
  PROVE  CountInv'
<1> DEFINE v == RecvUse(i)
           t == wait(semtab, SemOf(v), p)
<1>0. TInv
  BY DEF CInv
<1>1. /\ ~Waiting(p) /\ porttab[i].ptstate = PT_ALLOC
      /\ isused(semtab, SemOf(v)) /\ Count(v) > 0
      /\ withdrawal(t, i)
      /\ UNCHANGED <<ptnextid, call, masked, kills>> /\ buftab' = buftab
  BY UseFacts DEF ptrecv_now, InUser, Runs, Count, otherPool
<1>3. MsgTypes' /\ Steady
  BY <1>0, RecvNowSteady
<1>4. SamePorts /\ SamePools /\ ClearsAlike
  BY <1>3, SteadyClears DEF Steady
<1>5. v \in Uses /\ Live(v)
  BY <1>1, LiveUses, UseFacts DEF isused, SemIds, SYSERR
<1> HIDE DEF v
<1>6. /\ SemTable(t) /\ \A s \in SemIds : t[s].used = semtab[s].used
      /\ \A u \in Uses : Live(u) =>
            t[SemOf(u)].count = IF u = v THEN Count(u) - 1 ELSE Count(u)
  BY <1>0, <1>1, <1>5, WaitUse
<1> HIDE DEF t
<1>7. /\ \A j \in PortIds : j # i => porttab'[j] = porttab[j]
      /\ panicked' = panicked
      /\ Len(porttab'[i].ptmsgs) = Len(porttab[i].ptmsgs) - 1
      /\ \A u \in Uses : Live(u) =>
           Count(u)' = IF u = SendUse(i) THEN t[SemOf(u)].count + 1 ELSE t[SemOf(u)].count
  BY <1>0, <1>1, <1>4, <1>6, WithdrawalCounts
<1>8. ASSUME NEW u \in Uses, Live(u)
      PROVE  /\ Owing(u)' = IF u = RecvUse(i) THEN Owing(u) - 1
                            ELSE IF u = SendUse(i) THEN Owing(u) + 1 ELSE Owing(u)
             /\ u \notin {SendUse(i), RecvUse(i)} => Count(u)' = Count(u)
  <2>1. Serving(u)' = Serving(u)
    BY <1>1, <1>4, ServingFixed
  <2>2. Count(u) \in Int /\ Cardinality(Serving(u)) \in Nat
    BY <1>0, <1>8, CountTypes, ServingTypes
  <2>3. Count(u)' = IF u = RecvUse(i) THEN Count(u) - 1
                    ELSE IF u = SendUse(i) THEN Count(u) + 1 ELSE Count(u)
    BY <1>6, <1>7, <1>8, UseNames DEF v
  <2>4. Owing(u) = Count(u) + Cardinality(Serving(u))
           /\ Owing(u)' = Count(u)' + Cardinality(Serving(u))
    BY <2>1 DEF Owing
  <2> QED BY <2>2, <2>3, <2>4
<1>9. kills' = kills
  BY <1>1
<1> QED BY <1>1, <1>4, <1>7, <1>8, <1>9, RecvCounts

\* Process p, which was meant to get a unit of use v, goes on with it.
LEMMA ResumeServing ==
  ASSUME TInv, NEW p \in Procs, Using(call[p]), Return(p), SamePorts,
         p \in Serving(UseOf(call[p])), NEW u \in Uses
  PROVE  Cardinality(Serving(u)') = IF u = UseOf(call[p]) THEN Cardinality(Serving(u)) - 1
                                    ELSE Cardinality(Serving(u))
<1>1. call \in [Procs -> CallRecords]
  BY DEF TInv, MInv, MsgTypes
<1>2. call'[p] = Idle /\ \A q \in Procs : q # p => call'[q] = call[q]
  BY <1>1 DEF Return
<1>3. ~Using(call'[p])
  BY <1>2 DEF Using, Idle
<1>4. p \in Serving(u) <=> u = UseOf(call[p])
  BY DEF Serving, UsersOf
<1> QED BY <1>2, <1>3, <1>4, ServingSteady

LEMMA SendResumeCounts ==
  ASSUME CInv, TInv', NEW p \in Procs,
         ptsend_resume(p), gives(p, call[p].msg), otherPool
  PROVE  CountInv'
<1> DEFINE i == call[p].port
<1>0. TInv /\ SemTable(semtab)
  BY DEF CInv, TInv, MInv, MsgTypes
<1>1. /\ ~panicked /\ call[p].op = "ptsend" /\ Fresh(call[p])
      /\ deposit(semtab, i, call[p].msg) /\ Return(p)
      /\ kills' = kills /\ buftab' = buftab
  BY DEF ptsend_resume, Resumes, Runs, otherPool
<1>2. i \in PortIds /\ call[p].msg \in Bufs /\ porttab[i].ptstate = PT_ALLOC
  BY <1>0, <1>1, CallKinds DEF SendCalls, TInv, MInv, MsgTypes, Fresh
<1>3. Steady
  BY <1>0, SendResumeSteady
<1>4. SamePorts /\ SamePools /\ ClearsAlike
  BY <1>3, SteadyClears DEF Steady
<1>5. UseOf(call[p]) = SendUse(i) /\ Using(call[p]) /\ p \in Serving(UseOf(call[p]))
  BY <1>1, UseFacts DEF Serving, UsersOf
<1> HIDE DEF i
<1>7. /\ \A j \in PortIds : j # i => porttab'[j] = porttab[j]
      /\ \/ panicked' /\ porttab'[i].ptmsgs = porttab[i].ptmsgs
         \/ ~panicked' /\ Len(porttab'[i].ptmsgs) = Len(porttab[i].ptmsgs) + 1
      /\ \A u \in Uses : Live(u) =>
           Count(u)' = IF u = RecvUse(i) /\ ~panicked' THEN semtab[SemOf(u)].count + 1
                       ELSE semtab[SemOf(u)].count
  BY <1>0, <1>1, <1>2, <1>4, DepositCounts
<1>8. ASSUME NEW u \in Uses, Live(u)
      PROVE  /\ Owing(u)' = IF u = SendUse(i) THEN Owing(u) - 1
                            ELSE IF u = RecvUse(i) /\ ~panicked' THEN Owing(u) + 1 ELSE Owing(u)
             /\ u \notin {SendUse(i), RecvUse(i)} => Count(u)' = Count(u)
  <2>1. Cardinality(Serving(u)') = IF u = SendUse(i) THEN Cardinality(Serving(u)) - 1
                                   ELSE Cardinality(Serving(u))
    BY <1>0, <1>1, <1>4, <1>5, ResumeServing
  <2>2. Count(u) \in Int /\ Cardinality(Serving(u)) \in Nat
    BY <1>0, <1>8, CountTypes, ServingTypes
  <2>3. Count(u)' = IF u = RecvUse(i) /\ ~panicked' THEN Count(u) + 1 ELSE Count(u)
    BY <1>7, <1>8 DEF Count
  <2>4. Owing(u) = Count(u) + Cardinality(Serving(u))
           /\ Owing(u)' = Count(u)' + Cardinality(Serving(u)')
    BY DEF Owing
  <2>5. SendUse(i) # RecvUse(i)
    BY UseNames
  <2> QED BY <2>1, <2>2, <2>3, <2>4, <2>5
<1> QED BY <1>1, <1>2, <1>4, <1>7, <1>8, SendCounts

LEMMA RecvResumeCounts ==
  ASSUME CInv, TInv', NEW p \in Procs,
         ptrecv_resume(p), takes(p, call[p].port), otherPool
  PROVE  CountInv'
<1> DEFINE i == call[p].port
<1>0. TInv /\ SemTable(semtab)
  BY DEF CInv, TInv, MInv, MsgTypes
<1>1. /\ call[p].op = "ptrecv" /\ Fresh(call[p])
      /\ withdrawal(semtab, i) /\ Return(p)
      /\ kills' = kills /\ buftab' = buftab
  BY DEF ptrecv_resume, Resumes, Runs, otherPool
<1>2. i \in PortIds /\ porttab[i].ptstate = PT_ALLOC
  BY <1>0, <1>1, CallKinds DEF RecvCalls, TInv, MInv, MsgTypes, Fresh
<1>3. Steady
  BY <1>0, RecvResumeSteady
<1>4. SamePorts /\ SamePools /\ ClearsAlike
  BY <1>3, SteadyClears DEF Steady
<1>5. UseOf(call[p]) = RecvUse(i) /\ Using(call[p]) /\ p \in Serving(UseOf(call[p]))
  BY <1>1, UseFacts DEF Serving, UsersOf
<1> HIDE DEF i
<1>7. /\ \A j \in PortIds : j # i => porttab'[j] = porttab[j]
      /\ panicked' = panicked
      /\ Len(porttab'[i].ptmsgs) = Len(porttab[i].ptmsgs) - 1
      /\ \A u \in Uses : Live(u) =>
           Count(u)' = IF u = SendUse(i) THEN semtab[SemOf(u)].count + 1
                       ELSE semtab[SemOf(u)].count
  BY <1>0, <1>1, <1>2, <1>4, WithdrawalCounts
<1>8. ASSUME NEW u \in Uses, Live(u)
      PROVE  /\ Owing(u)' = IF u = RecvUse(i) THEN Owing(u) - 1
                            ELSE IF u = SendUse(i) THEN Owing(u) + 1 ELSE Owing(u)
             /\ u \notin {SendUse(i), RecvUse(i)} => Count(u)' = Count(u)
  <2>1. Cardinality(Serving(u)') = IF u = RecvUse(i) THEN Cardinality(Serving(u)) - 1
                                   ELSE Cardinality(Serving(u))
    BY <1>0, <1>1, <1>4, <1>5, ResumeServing
  <2>2. Count(u) \in Int /\ Cardinality(Serving(u)) \in Nat
    BY <1>0, <1>8, CountTypes, ServingTypes
  <2>3. Count(u)' = IF u = SendUse(i) THEN Count(u) + 1 ELSE Count(u)
    BY <1>7, <1>8 DEF Count
  <2>4. Owing(u) = Count(u) + Cardinality(Serving(u))
           /\ Owing(u)' = Count(u)' + Cardinality(Serving(u)')
    BY DEF Owing
  <2>5. SendUse(i) # RecvUse(i)
    BY UseNames
  <2> QED BY <2>1, <2>2, <2>3, <2>4, <2>5
<1> QED BY <1>1, <1>2, <1>4, <1>7, <1>8, RecvCounts

-----------------------------------------------------------------------------
(* Steps that leave all ports alone                                        *)

\* Ports as before, and what is owed to their callers; pool k and what it owes change
\* by the same.
LEMMA PoolCounts ==
  ASSUME CInv, TInv', porttab' = porttab, SamePools, ClearsAlike,
         kills' = kills, panicked' = panicked,
         NEW k \in PoolIds, NEW d \in Int,
         \A j \in PoolIds : j # k => buftab'[j] = buftab[j],
         k < nbpools => Len(buftab'[k].bpnext) = Len(buftab[k].bpnext) + d,
         \A u \in Uses : Live(u) =>
           /\ Owing(u)' = IF u = PoolUse(k) THEN Owing(u) + d ELSE Owing(u)
           /\ \A j \in PortIds : porttab[j].ptstate = PT_LIMBO /\ u \in {SendUse(j), RecvUse(j)}
                => Count(u)' = Count(u)
  PROVE  CountInv'
<1>0. TInv /\ Exact' = Exact /\ SamePorts
  BY DEF CInv, Exact, SamePorts
<1>1. ASSUME NEW j \in PortIds PROVE BalanceKept(j)
  <2> SUFFICES ASSUME porttab[j].ptstate = PT_ALLOC, porttab[j].ptssem # SYSERR
               PROVE  /\ Spare(j)' <= Spare(j) /\ Spare(j)' = Spare(j)
                      /\ porttab[j].ptrsem # SYSERR =>
                           Surplus(j) <= Surplus(j)' /\ Surplus(j)' = Surplus(j)
    BY DEF BalanceKept
  <2>1. SendUse(j) # PoolUse(k) /\ RecvUse(j) # PoolUse(k)
    BY UseNames
  <2>2. Owing(SendUse(j))' = Owing(SendUse(j))
    BY <2>1, LiveUses
  <2>3. porttab[j].ptrsem # SYSERR => Owing(RecvUse(j))' = Owing(RecvUse(j))
    BY <2>1, LiveUses
  <2>4. Spare(j)' = Spare(j) /\ (porttab[j].ptrsem # SYSERR => Surplus(j)' = Surplus(j))
    BY <2>2, <2>3 DEF Spare, Surplus
  <2>5. Spare(j) \in Int /\ (porttab[j].ptrsem # SYSERR => Surplus(j) \in Int)
    BY <1>0, PortTypesNow
  <2> QED BY <2>4, <2>5
<1>2. ASSUME NEW j \in PortIds PROVE LimboKept(j)
  BY UseFacts, UseNames DEF LimboKept
<1>3. ASSUME NEW j \in PoolIds PROVE StockKept(j)
  <2> SUFFICES ASSUME j < nbpools
               PROVE  /\ Len(buftab[j].bpnext) - Owing(PoolUse(j))
                           <= Len(buftab'[j].bpnext) - Owing(PoolUse(j))'
                      /\ Len(buftab'[j].bpnext) - Owing(PoolUse(j))'
                           = Len(buftab[j].bpnext) - Owing(PoolUse(j))
    BY DEF StockKept
  <2>1. Owing(PoolUse(j)) \in Int /\ Len(buftab[j].bpnext) \in Nat
    BY <1>0, StockTypes
  <2>2. PoolUse(j) \in Uses /\ Live(PoolUse(j)) /\ (PoolUse(j) = PoolUse(k) => j = k)
    BY UseNames, UseFacts
  <2>3. CASE j = k
    <3>1. Owing(PoolUse(j))' = Owing(PoolUse(j)) + d
      BY <2>2, <2>3
    <3>2. Len(buftab'[j].bpnext) = Len(buftab[j].bpnext) + d
      BY <2>3
    <3> QED BY <2>1, <3>1, <3>2
  <2>4. CASE j # k
    <3>1. Owing(PoolUse(j))' = Owing(PoolUse(j)) /\ buftab'[j] = buftab[j]
      BY <2>2, <2>4
    <3> QED BY <2>1, <3>1
  <2> QED BY <2>3, <2>4
<1> QED BY <1>0, <1>1, <1>2, <1>3, SteadyCounts

\* Ports, pools and what is owed as before.
LEMMA SameCounts ==
  ASSUME CInv, TInv', ClearsAlike,
         porttab' = porttab, buftab' = buftab, nbpools' = nbpools,
         kills' = kills, panicked' = panicked,
         \A u \in Uses : Live(u) =>
           /\ Owing(u)' = Owing(u)
           /\ \A j \in PortIds : porttab[j].ptstate = PT_LIMBO /\ u \in {SendUse(j), RecvUse(j)}
                => Count(u)' = Count(u)
  PROVE  CountInv'
<1>0. TInv /\ Exact' = Exact /\ SamePorts /\ SamePools
  BY DEF CInv, Exact, SamePorts, SamePools
<1>1. ASSUME NEW j \in PortIds PROVE BalanceKept(j)
  <2> SUFFICES ASSUME porttab[j].ptstate = PT_ALLOC, porttab[j].ptssem # SYSERR
               PROVE  /\ Spare(j)' <= Spare(j) /\ Spare(j)' = Spare(j)
                      /\ porttab[j].ptrsem # SYSERR =>
                           Surplus(j) <= Surplus(j)' /\ Surplus(j)' = Surplus(j)
    BY DEF BalanceKept
  <2>1. Owing(SendUse(j))' = Owing(SendUse(j))
           /\ (porttab[j].ptrsem # SYSERR => Owing(RecvUse(j))' = Owing(RecvUse(j)))
    BY LiveUses
  <2>2. Spare(j)' = Spare(j) /\ (porttab[j].ptrsem # SYSERR => Surplus(j)' = Surplus(j))
    BY <2>1 DEF Spare, Surplus
  <2>3. Spare(j) \in Int /\ (porttab[j].ptrsem # SYSERR => Surplus(j) \in Int)
    BY <1>0, PortTypesNow
  <2> QED BY <2>2, <2>3
<1>2. \A j \in PortIds : LimboKept(j)
  BY UseFacts, UseNames DEF LimboKept
<1>3. ASSUME NEW k \in PoolIds PROVE StockKept(k)
  <2> SUFFICES ASSUME k < nbpools
               PROVE  /\ Len(buftab[k].bpnext) - Owing(PoolUse(k))
                           <= Len(buftab'[k].bpnext) - Owing(PoolUse(k))'
                      /\ Len(buftab'[k].bpnext) - Owing(PoolUse(k))'
                           = Len(buftab[k].bpnext) - Owing(PoolUse(k))
    BY DEF StockKept
  <2>1. Owing(PoolUse(k)) \in Int /\ Len(buftab[k].bpnext) \in Nat
    BY <1>0, StockTypes
  <2>2. Owing(PoolUse(k))' = Owing(PoolUse(k))
    BY UseNames, UseFacts
  <2> QED BY <2>1, <2>2
<1> QED BY <1>0, <1>1, <1>2, <1>3, SteadyCounts

LEMMA StaleCounts ==
  ASSUME CInv, TInv', NEW p \in Procs, pt_stale(p), UNCHANGED held, otherPool
  PROVE  CountInv'
<1>0. TInv
  BY DEF CInv
<1>1. /\ call[p].op \in {"ptsend", "ptrecv"} /\ ~Fresh(call[p]) /\ Return(p)
      /\ porttab' = porttab /\ semtab' = semtab /\ panicked' = panicked /\ kills' = kills
      /\ buftab' = buftab /\ nbpools' = nbpools
  BY DEF pt_stale, portVars, otherPool
<1>2. Steady
  BY <1>0, StaleSteady
<1>3. SamePorts /\ SamePools /\ ClearsAlike
  BY <1>2, SteadyClears DEF Steady
<1>4. call'[p] = Idle /\ \A q \in Procs : q # p => call'[q] = call[q]
  BY <1>0, <1>1 DEF Return, TInv, MInv, MsgTypes
<1>5. ~Using(call'[p])
  BY <1>4 DEF Using, Idle
<1>6. ASSUME NEW u \in Uses, Live(u)
      PROVE  Owing(u)' = Owing(u) /\ Count(u)' = Count(u)
  <2>1. p \notin Serving(u)
    BY <1>1 DEF Serving
  <2>2. Cardinality(Serving(u)') = Cardinality(Serving(u))
    BY <1>3, <1>4, <1>5, <2>1, ServingSteady
  <2>3. SemOf(u)' = SemOf(u)
    BY <1>3, SemOfKept
  <2> QED BY <1>1, <2>2, <2>3 DEF Owing, Count
<1> QED BY <1>1, <1>3, <1>6, SameCounts

\* What is owed does not change when a process begins to wait for it.
LEMMA JoinCounts ==
  ASSUME CInv, TInv', NEW p \in Procs, NEW v, Joins(p, v), kills' = kills, panicked' = panicked
  PROVE  CountInv'
<1>0. TInv /\ MInv
  BY DEF CInv, TInv
<1>1. /\ v \in Uses /\ Live(v) /\ Using(call'[p]) /\ UseOf(call'[p]) = v
      /\ call'[p].op \in {"ptsend", "ptrecv"} => Fresh(call'[p])
      /\ \A q \in Procs : q # p => call'[q] = call[q]
      /\ porttab' = porttab /\ buftab' = buftab /\ nbpools' = nbpools /\ call[p] = Idle
  BY DEF Joins
<1>2. SamePorts /\ SamePools
  BY <1>1 DEF SamePorts, SamePools
<1> DEFINE s == SemOf(v)
<1>3. /\ OnlyChanges(semtab, semtab', s) /\ s \in SemIds
      /\ semtab'[s].count = semtab[s].count - 1
  BY <1>0, JoinTable
<1>4. ClearsAlike
  <2>1. \A i \in PortIds : ~Clearing(p, i)'
    BY <1>1 DEF Clearing, Using
  <2>2. ASSUME NEW q \in Procs, NEW i \in PortIds, Clearing(q, i)'
        PROVE  Clearing(q, i) /\ call'[q].op = call[q].op /\ call'[q].newstate = call[q].newstate
    BY <1>1, <2>1, <2>2 DEF Clearing
  <2> QED BY <2>2 DEF ClearsAlike
<1>5. p \notin Serving(v) /\ p \in Serving(v)'
  <2>1. p \notin Serving(v)
    BY <1>1 DEF Serving, UsersOf, Using, Idle
  <2>2. p \in UsersOf(v)'
    BY <1>1 DEF UsersOf, Using, UseOf
  <2>3. call'[p].op = "getbuf" \/ Fresh(call[p])'
    BY <1>1 DEF Using, Fresh
  <2> QED BY <2>1, <2>2, <2>3 DEF Serving
<1>6. \A u \in Uses : u # v => p \notin Serving(u) /\ p \notin Serving(u)'
  <2>1. \A u : p \notin Serving(u)
    BY <1>1 DEF Serving, UsersOf, Using, Idle
  <2>2. ASSUME NEW u, p \in Serving(u)' PROVE u = v
    BY <1>1, <2>2 DEF Serving, UsersOf, UseOf
  <2> QED BY <2>1, <2>2
<1>7. ASSUME NEW u \in Uses PROVE KeepsPort(u)
  <2>1. u[1] # "getbuf" => u[2] \in PortIds
    BY DEF Uses, SendUse, RecvUse, PoolUse
  <2> QED BY <1>1, <2>1 DEF KeepsPort
<1>8. ASSUME NEW u \in Uses, Live(u)
      PROVE  Owing(u)' = Owing(u) /\ (u # v => Count(u)' = Count(u))
  <2>1. SemOf(u)' = SemOf(u) /\ SemOf(u) \in SemIds /\ Count(u) \in Int
           /\ Cardinality(Serving(u)) \in Nat
    BY <1>0, <1>2, <1>8, SemOfKept, CountTypes, ServingTypes
  <2>2. CASE u = v
    <3>1. Cardinality(Serving(u)') = Cardinality(Serving(u)) + 1
      BY <1>1, <1>5, <1>7, <2>2, ServingKept
    <3>2. Count(u)' = Count(u) - 1
      BY <1>3, <2>1, <2>2 DEF Count
    <3>3. Owing(u) = Count(u) + Cardinality(Serving(u))
             /\ Owing(u)' = Count(u)' + Cardinality(Serving(u)')
      BY DEF Owing
    <3> QED BY <2>1, <2>2, <3>1, <3>2, <3>3
  <2>3. CASE u # v
    <3>1. SemOf(u) # s
      BY <1>0, <1>1, <1>8, <2>3 DEF MInv, OwnInv
    <3>2. Count(u)' = Count(u)
      BY <1>3, <2>1, <3>1 DEF Count, OnlyChanges
    <3>3. Serving(u)' = Serving(u)
      BY <1>1, <1>6, <1>7, <2>3, ServingKept
    <3> QED BY <3>2, <3>3 DEF Owing
  <2> QED BY <2>2, <2>3
<1>9. \A j \in PortIds : porttab[j].ptstate = PT_LIMBO => v \notin {SendUse(j), RecvUse(j)}
  <2>1. ASSUME NEW j \in PortIds, v \in {SendUse(j), RecvUse(j)} PROVE porttab[j].ptstate = PT_ALLOC
    <3>1. call'[p].op \in {"ptsend", "ptrecv"} /\ call'[p].port = j
      BY <1>1, <2>1 DEF UseOf, SendUse, RecvUse, Using
    <3> QED BY <1>1, <3>1 DEF Fresh
  <2> QED BY <2>1 DEF PT_ALLOC, PT_LIMBO
<1> QED BY <1>1, <1>4, <1>8, <1>9, SameCounts

-----------------------------------------------------------------------------
(* Buffers                                                                 *)

LEMMA PoolSems ==
  ASSUME TInv, NEW k \in PoolIds
  PROVE  /\ PoolUse(k) \in Uses /\ SemOf(PoolUse(k)) = buftab[k].bpsem
         /\ Live(PoolUse(k)) <=> k < nbpools
         /\ buftab[k].bpsem \in SemIds \cup {SYSERR} /\ buftab[k].bpnext \in Seq(Bufs)
         /\ \A j \in PortIds : PoolUse(k) \notin {SendUse(j), RecvUse(j)}
BY UseFacts, UseNames DEF TInv, MInv, MsgTypes, PoolEntries

LEMMA GetNowCounts ==
  ASSUME CInv, TInv', NEW p \in Procs, NEW k \in PoolIds, getbuf_now(p, k), UNCHANGED portVars
  PROVE  CountInv'
<1> DEFINE v == PoolUse(k)
           t == wait(semtab, SemOf(v), p)
<1>0. TInv
  BY DEF CInv
<1>1. /\ ~Waiting(p) /\ k < nbpools /\ Count(v) > 0 /\ semtab' = t /\ unlink(p, k)
      /\ UNCHANGED <<call, masked, panicked, kills>>
  BY UseFacts DEF getbuf_now, InUser, Runs, Count
<1>2. Steady
  BY <1>0, GetNowSteady
<1>3. SamePorts /\ SamePools /\ ClearsAlike
  BY <1>2, SteadyClears DEF Steady
<1>4. v \in Uses /\ Live(v) /\ \A j \in PortIds : v \notin {SendUse(j), RecvUse(j)}
  BY <1>0, <1>1, PoolSems
<1>5. /\ buftab[k].bpnext # <<>> /\ buftab'[k].bpnext = Tail(buftab[k].bpnext)
      /\ \A j \in PoolIds : j # k => buftab'[j] = buftab[j]
  BY <1>0, <1>1, Unlinked
<1>6. Len(Tail(buftab[k].bpnext)) = Len(buftab[k].bpnext) - 1
         /\ Len(buftab[k].bpnext) \in Nat
  BY <1>0, <1>5, PoolSems, HeadTailProperties, LenProperties
<1> HIDE DEF v
<1>7. \A u \in Uses : Live(u) => t[SemOf(u)].count = IF u = v THEN Count(u) - 1 ELSE Count(u)
  BY <1>0, <1>1, <1>4, WaitUse
<1> HIDE DEF t
<1>8. ASSUME NEW u \in Uses, Live(u)
      PROVE  /\ Owing(u)' = IF u = v THEN Owing(u) + (-1) ELSE Owing(u)
             /\ u # v => Count(u)' = Count(u)
  <2>1. Serving(u)' = Serving(u) /\ SemOf(u)' = SemOf(u)
    BY <1>1, <1>3, ServingFixed, SemOfKept
  <2>2. Count(u) \in Int /\ Cardinality(Serving(u)) \in Nat
    BY <1>0, <1>8, CountTypes, ServingTypes
  <2>3. Count(u)' = IF u = v THEN Count(u) - 1 ELSE Count(u)
    BY <1>1, <1>7, <1>8, <2>1 DEF Count
  <2>4. Owing(u) = Count(u) + Cardinality(Serving(u))
           /\ Owing(u)' = Count(u)' + Cardinality(Serving(u))
    BY <2>1 DEF Owing
  <2> QED BY <2>2, <2>3, <2>4
<1>9. porttab' = porttab /\ kills' = kills /\ panicked' = panicked /\ -1 \in Int
  BY <1>1 DEF portVars
<1>10. k < nbpools => Len(buftab'[k].bpnext) = Len(buftab[k].bpnext) + (-1)
  BY <1>5, <1>6
<1>11. ASSUME NEW u \in Uses, Live(u)
       PROVE  /\ Owing(u)' = IF u = PoolUse(k) THEN Owing(u) + (-1) ELSE Owing(u)
              /\ \A j \in PortIds : porttab[j].ptstate = PT_LIMBO /\ u \in {SendUse(j), RecvUse(j)}
                   => Count(u)' = Count(u)
  BY <1>4, <1>8, <1>11 DEF v
<1> HIDE DEF PoolIds
<1> QED BY <1>3, <1>5, <1>9, <1>10, <1>11, PoolCounts

LEMMA GetResumeCounts ==
  ASSUME CInv, TInv', NEW p \in Procs, getbuf_resume(p), UNCHANGED portVars
  PROVE  CountInv'
<1> DEFINE k == call[p].pool
           v == PoolUse(k)
<1>0. TInv
  BY DEF CInv
<1>1. /\ call[p].op = "getbuf" /\ unlink(p, k) /\ Return(p)
      /\ UNCHANGED <<semtab, masked, panicked, kills>>
  BY DEF getbuf_resume, Resumes
<1>2. k \in PoolIds /\ k < nbpools
  BY <1>0, <1>1, CallKinds DEF GetCalls, TInv, MInv, MsgTypes, OwnInv
<1>3. Steady
  BY <1>0, GetResumeSteady
<1>4. SamePorts /\ SamePools /\ ClearsAlike
  BY <1>3, SteadyClears DEF Steady
<1>5. UseOf(call[p]) = v /\ Using(call[p]) /\ p \in Serving(UseOf(call[p]))
  BY <1>1, UseFacts DEF Serving, UsersOf
<1> HIDE DEF k
<1>6. /\ buftab[k].bpnext # <<>> /\ buftab'[k].bpnext = Tail(buftab[k].bpnext)
      /\ \A j \in PoolIds : j # k => buftab'[j] = buftab[j]
  BY <1>0, <1>1, <1>2, Unlinked
<1>7. Len(Tail(buftab[k].bpnext)) = Len(buftab[k].bpnext) - 1
         /\ Len(buftab[k].bpnext) \in Nat
  BY <1>0, <1>2, <1>6, PoolSems, HeadTailProperties, LenProperties
<1>8. ASSUME NEW u \in Uses, Live(u)
      PROVE  /\ Owing(u)' = IF u = PoolUse(k) THEN Owing(u) + (-1) ELSE Owing(u)
             /\ \A j \in PortIds : porttab[j].ptstate = PT_LIMBO /\ u \in {SendUse(j), RecvUse(j)}
                  => Count(u)' = Count(u)
  <2>1. SemOf(u)' = SemOf(u)
    BY <1>4, SemOfKept
  <2>2. Count(u) \in Int /\ Cardinality(Serving(u)) \in Nat
    BY <1>0, <1>8, CountTypes, ServingTypes
  <2>3. Count(u)' = Count(u)
    BY <1>1, <2>1 DEF Count
  <2>4. Cardinality(Serving(u)') = IF u = v THEN Cardinality(Serving(u)) - 1
                                   ELSE Cardinality(Serving(u))
    BY <1>0, <1>1, <1>4, <1>5, ResumeServing
  <2>5. Owing(u) = Count(u) + Cardinality(Serving(u))
           /\ Owing(u)' = Count(u)' + Cardinality(Serving(u)')
    BY DEF Owing
  <2> QED BY <2>2, <2>3, <2>4, <2>5
<1>9. porttab' = porttab /\ kills' = kills /\ panicked' = panicked /\ -1 \in Int
  BY <1>1 DEF portVars
<1>10. k < nbpools => Len(buftab'[k].bpnext) = Len(buftab[k].bpnext) + (-1)
  BY <1>6, <1>7
<1> QED BY <1>2, <1>4, <1>6, <1>8, <1>9, <1>10, PoolCounts

\* freebuf(), called by the owner or as the function that messages are disposed of with.
LEMMA ReleaseCounts ==
  ASSUME CInv, TInv', NEW b \in Known, release(b), Steady,
         porttab' = porttab, kills' = kills, panicked' = panicked,
         \A u \in Uses : Serving(u)' = Serving(u)
  PROVE  CountInv'
<1> DEFINE k == bpid[b]
<1>0. TInv /\ SemTable(semtab)
  BY DEF CInv, TInv, MInv, MsgTypes
<1>1. SamePorts /\ SamePools /\ ClearsAlike
  BY SteadyClears DEF Steady
<1>2. /\ k \in PoolIds /\ k < nbpools
      /\ semtab' = signal(semtab, buftab[k].bpsem)
      /\ buftab'[k].bpnext = <<b>> \o buftab[k].bpnext
      /\ \A j \in PoolIds : j # k => buftab'[j] = buftab[j]
  BY <1>0, Released
<1> HIDE DEF k
<1>3. /\ PoolUse(k) \in Uses /\ SemOf(PoolUse(k)) = buftab[k].bpsem /\ Live(PoolUse(k))
      /\ buftab[k].bpsem \in SemIds \cup {SYSERR} /\ buftab[k].bpnext \in Seq(Bufs)
      /\ \A j \in PortIds : PoolUse(k) \notin {SendUse(j), RecvUse(j)}
  BY <1>0, <1>2, PoolSems
<1>4. Len(buftab'[k].bpnext) = Len(buftab[k].bpnext) + 1
  <2> DEFINE l == buftab[k].bpnext
  <2>1. b \in Bufs /\ l \in Seq(Bufs)
    BY <1>3 DEF Known
  <2>2. <<b>> \in Seq(Bufs) /\ Len(<<b>>) = 1
    BY <2>1
  <2>3. Len(<<b>> \o l) = Len(<<b>>) + Len(l) /\ Len(l) \in Nat
    BY <2>1, <2>2, ConcatProperties, LenProperties
  <2> QED BY <1>2, <2>2, <2>3
<1>5. ASSUME NEW u \in Uses, Live(u)
      PROVE  /\ Owing(u)' = IF u = PoolUse(k) THEN Owing(u) + 1 ELSE Owing(u)
             /\ \A j \in PortIds : porttab[j].ptstate = PT_LIMBO /\ u \in {SendUse(j), RecvUse(j)}
                  => Count(u)' = Count(u)
  <2>1. SemOf(u)' = SemOf(u)
    BY <1>1, SemOfKept
  <2>2. Count(u) \in Int /\ Cardinality(Serving(u)) \in Nat
    BY <1>0, <1>5, CountTypes, ServingTypes
  <2> DEFINE v == PoolUse(k)
  <2>3. v \in Uses /\ SemOf(v) \in SemIds \cup {SYSERR} /\ Live(v) /\ SemOf(v) = buftab[k].bpsem
    BY <1>3
  <2> HIDE DEF v
  <2>4. signal(semtab, SemOf(v))[SemOf(u)].count =
          IF u = v THEN semtab[SemOf(u)].count + 1 ELSE semtab[SemOf(u)].count
    BY <1>0, <1>5, <2>3, SignalUse
  <2>5. Count(u)' = IF u = v THEN Count(u) + 1 ELSE Count(u)
    BY <1>2, <2>1, <2>3, <2>4 DEF Count
  <2>6. Owing(u) = Count(u) + Cardinality(Serving(u))
           /\ Owing(u)' = Count(u)' + Cardinality(Serving(u))
    BY DEF Owing
  <2>7. Owing(u)' = IF u = v THEN Owing(u) + 1 ELSE Owing(u)
    BY <2>2, <2>5, <2>6
  <2> QED BY <1>3, <2>5, <2>7 DEF v
<1> QED BY <1>1, <1>2, <1>4, <1>5, PoolCounts

LEMMA FreeCounts ==
  ASSUME CInv, TInv', NEW p \in Procs, NEW b \in Bufs, freebuf(p, b), UNCHANGED portVars
  PROVE  CountInv'
<1>0. TInv
  BY DEF CInv
<1>1. /\ b \in Known /\ release(b) /\ call' = call /\ porttab' = porttab
      /\ kills' = kills /\ panicked' = panicked
  BY <1>0 DEF freebuf, TInv, KnownInv, portVars
<1>2. Steady
  BY <1>0, FreeSteady
<1>3. \A u \in Uses : Serving(u)' = Serving(u)
  BY <1>1, <1>2, ServingFixed DEF Steady
<1> QED BY <1>1, <1>2, <1>3, ReleaseCounts

LEMMA DiscardCounts ==
  ASSUME CInv, TInv', NEW p \in Procs, discard(p)
  PROVE  CountInv'
<1> DEFINE b == Head(call[p].walk)
<1>0. TInv
  BY DEF CInv
<1>1. /\ call[p].op = "dispose" /\ call[p].walk # <<>>
      /\ call' = [call EXCEPT ![p].walk = Tail(@)]
      /\ release(b) /\ porttab' = porttab /\ kills' = kills /\ panicked' = panicked
  BY DEF discard, dispose, Resumes, portVars
<1>2. call \in [Procs -> CallRecords] /\ call[p].walk \in Seq(Bufs)
  BY <1>0, <1>1, CallKinds DEF TInv, MInv, MsgTypes, ClearCalls
<1>3. b \in Known
  <2>1. Range(call[p].walk) \subseteq Known
    BY <1>0, <1>1 DEF TInv, KnownInv, KnownCall
  <2>2. b \in Range(call[p].walk)
    BY <1>1, <1>2, MessageRanges
  <2> QED BY <2>1, <2>2
<1>4. Steady
  BY <1>0, DiscardSteady
<1>5. call'[p].op = "dispose" /\ \A q \in Procs : q # p => call'[q] = call[q]
  BY <1>1, <1>2, CallKinds DEF ClearCalls
<1>6. ~Using(call'[p]) /\ ~Using(call[p])
  BY <1>1, <1>5 DEF Using
<1>7. ASSUME NEW u \in Uses PROVE Serving(u)' = Serving(u)
  <2>1. KeepsPort(u)
    <3>1. u[1] # "getbuf" => u[2] \in PortIds
      BY DEF Uses, SendUse, RecvUse, PoolUse
    <3> QED BY <1>1, <3>1 DEF KeepsPort
  <2>2. p \notin Serving(u) /\ p \notin Serving(u)'
    BY <1>6 DEF Serving, UsersOf
  <2> QED BY <1>5, <2>1, <2>2, ServingKept
<1> QED BY <1>1, <1>3, <1>4, <1>7, ReleaseCounts

\* The death of a process leaves what it was meant for to nobody.
LEMMA KillCounts ==
  ASSUME CInv, TInv', NEW p \in Procs, kill(p)
  PROVE  CountInv'
<1>0. TInv /\ MInv /\ SemTable(semtab) /\ call \in [Procs -> CallRecords] /\ kills \in Nat
  BY DEF CInv, TInv, MInv, MsgTypes
<1>1. /\ semtab' = withdraw(semtab, p) /\ Return(p) /\ kills' = kills + 1
      /\ porttab' = porttab /\ buftab' = buftab
  BY DEF kill, killcaller, portVars, otherPool
<1>2. kills' # 0 /\ ~Exact'
  <2>1. kills' # 0
    BY <1>0, <1>1
  <2> QED BY <2>1 DEF Exact
<1>3. Steady
  BY <1>0, KillSteady
<1>4. SamePorts /\ SamePools /\ ClearsAlike
  BY <1>3, SteadyClears DEF Steady
<1>5. call'[p] = Idle /\ \A q \in Procs : q # p => call'[q] = call[q]
  BY <1>0, <1>1 DEF Return
<1>6. ~Using(call'[p])
  BY <1>5 DEF Using, Idle
<1>7. \A s \in SemIds :
        semtab'[s].count = IF p \in OnQueue(semtab, s) THEN semtab[s].count + 1
                           ELSE semtab[s].count
  BY <1>0, <1>1, WithdrawTable
<1>8. ASSUME NEW u \in Uses, Live(u)
      PROVE  /\ Count(u)' = IF p \in OnQueue(semtab, SemOf(u)) THEN Count(u) + 1 ELSE Count(u)
             /\ Count(u) >= 0 => Count(u)' = Count(u)
             /\ (p \in OnQueue(semtab, SemOf(u)) => p \in Serving(u)) => Owing(u)' <= Owing(u)
  <2>1. SemOf(u)' = SemOf(u) /\ SemOf(u) \in SemIds
           /\ Count(u) \in Int /\ Cardinality(Serving(u)) \in Nat
    BY <1>0, <1>4, <1>8, SemOfKept, CountTypes, ServingTypes
  <2>2. Count(u)' = IF p \in OnQueue(semtab, SemOf(u)) THEN Count(u) + 1 ELSE Count(u)
    BY <1>7, <2>1 DEF Count
  <2>3. Count(u) >= 0 => p \notin OnQueue(semtab, SemOf(u))
    BY <1>0, <2>1, SemQueue DEF Count
  <2>4. Cardinality(Serving(u)') = IF p \in Serving(u) THEN Cardinality(Serving(u)) - 1
                                   ELSE Cardinality(Serving(u))
    BY <1>4, <1>5, <1>6, ServingSteady
  <2>5. Owing(u) = Count(u) + Cardinality(Serving(u))
           /\ Owing(u)' = Count(u)' + Cardinality(Serving(u)')
    BY DEF Owing
  <2>6. (p \in OnQueue(semtab, SemOf(u)) => p \in Serving(u)) => Owing(u)' <= Owing(u)
    BY <2>1, <2>2, <2>4, <2>5
  <2> QED BY <2>2, <2>3, <2>6
<1>9. ASSUME NEW u \in Uses, Live(u), p \in OnQueue(semtab, SemOf(u)),
             u[1] # "getbuf" => porttab[u[2]].ptstate = PT_ALLOC
      PROVE  p \in Serving(u)
  <2>1. p \in UsersOf(u) /\ SemOf(u) \in SemIds
    BY <1>0, <1>9, CountTypes DEF MInv, OwnInv
  <2>2. Waiting(p)
    BY <1>9, <2>1, WaitingNext
  <2>3. CASE call[p].op = "getbuf"
    BY <2>1, <2>3 DEF Serving
  <2>4. CASE call[p].op # "getbuf"
    <3>1. UseOf(call[p]) = u /\ Using(call[p])
      BY <2>1 DEF UsersOf
    <3>2. u[1] = call[p].op /\ u[2] = call[p].port
      BY <2>4, <3>1 DEF UseOf
    <3>3. porttab[call[p].port].ptstate # PT_LIMBO
      BY <1>9, <2>4, <3>2 DEF PT_ALLOC, PT_LIMBO
    <3>4. call[p].op \in {"ptsend", "ptrecv"}
      BY <2>4, <3>1 DEF Using
    <3>5. Fresh(call[p])
      BY <1>0, <2>2, <3>3, <3>4 DEF MInv, WaitInv
    <3> QED BY <2>1, <3>5 DEF Serving
  <2> QED BY <2>3, <2>4
<1>10. ASSUME NEW j \in PortIds PROVE BalanceKept(j)
  <2> SUFFICES ASSUME porttab[j].ptstate = PT_ALLOC, porttab[j].ptssem # SYSERR
               PROVE  /\ Spare(j)' <= Spare(j)
                      /\ porttab[j].ptrsem # SYSERR => Surplus(j) <= Surplus(j)'
    BY <1>2 DEF BalanceKept
  <2>1. /\ SendUse(j) \in Uses /\ Live(SendUse(j))
        /\ RecvUse(j) \in Uses /\ (porttab[j].ptrsem # SYSERR => Live(RecvUse(j)))
    BY LiveUses
  <2>2. SendUse(j)[1] # "getbuf" /\ SendUse(j)[2] = j /\ RecvUse(j)[1] # "getbuf" /\ RecvUse(j)[2] = j
    BY DEF SendUse, RecvUse
  <2>3. Owing(SendUse(j))' <= Owing(SendUse(j))
    BY <1>8, <1>9, <2>1, <2>2
  <2>4. porttab[j].ptrsem # SYSERR => Owing(RecvUse(j))' <= Owing(RecvUse(j))
    BY <1>8, <1>9, <2>1, <2>2
  <2>5. /\ Owing(SendUse(j)) \in Int /\ Len(porttab[j].ptmsgs) \in Nat
        /\ porttab[j].ptrsem # SYSERR => Owing(RecvUse(j)) \in Int
    BY <1>0, PortTypesNow
  <2>6. porttab'[j].ptstate = PT_ALLOC /\ porttab'[j].ptssem # SYSERR
           /\ porttab'[j].ptrsem = porttab[j].ptrsem
    BY <1>1
  <2>7. /\ Owing(SendUse(j))' \in Int
        /\ porttab[j].ptrsem # SYSERR => Owing(RecvUse(j))' \in Int
    BY <2>6, PortTypesNext
  <2>8. Spare(j) = Owing(SendUse(j)) + Len(porttab[j].ptmsgs)
           /\ Spare(j)' = Owing(SendUse(j))' + Len(porttab[j].ptmsgs)
    BY <1>1 DEF Spare
  <2>9. Surplus(j) = Len(porttab[j].ptmsgs) - Owing(RecvUse(j))
           /\ Surplus(j)' = Len(porttab[j].ptmsgs) - Owing(RecvUse(j))'
    BY <1>1 DEF Surplus
  <2>10. PICK m \in Nat : m = Len(porttab[j].ptmsgs)
    BY <2>5
  <2>11. PICK a \in Int, b \in Int : a = Owing(SendUse(j)) /\ b = Owing(SendUse(j))'
    BY <2>5, <2>7
  <2>12. Spare(j) = a + m /\ Spare(j)' = b + m
    BY <2>8, <2>10, <2>11
  <2>13. Spare(j)' <= Spare(j)
    BY <2>3, <2>11, <2>12
  <2>14. ASSUME porttab[j].ptrsem # SYSERR PROVE Surplus(j) <= Surplus(j)'
    <3>1. PICK c \in Int, d \in Int : c = Owing(RecvUse(j)) /\ d = Owing(RecvUse(j))'
      BY <2>5, <2>7, <2>14
    <3>2. d <= c /\ Surplus(j) = m - c /\ Surplus(j)' = m - d
      BY <2>4, <2>9, <2>10, <2>14, <3>1
    <3> QED BY <3>1, <3>2
  <2> QED BY <2>13, <2>14
<1>11. ASSUME NEW j \in PortIds PROVE LimboKept(j)
  <2>1. /\ SendUse(j) \in Uses /\ (SendLive(j) => Live(SendUse(j)))
        /\ RecvUse(j) \in Uses /\ (RecvLive(j) => Live(RecvUse(j)))
    BY UseNames, UseFacts
  <2> QED BY <1>8, <2>1 DEF LimboKept
<1>12. ASSUME NEW k \in PoolIds PROVE StockKept(k)
  <2> SUFFICES ASSUME k < nbpools
               PROVE  Len(buftab[k].bpnext) - Owing(PoolUse(k))
                        <= Len(buftab'[k].bpnext) - Owing(PoolUse(k))'
    BY <1>2 DEF StockKept
  <2>1. PoolUse(k) \in Uses /\ Live(PoolUse(k)) /\ PoolUse(k)[1] = "getbuf"
    BY UseNames, UseFacts DEF PoolUse
  <2>2. Owing(PoolUse(k))' <= Owing(PoolUse(k))
    BY <1>8, <1>9, <2>1
  <2>3. nbpools' = nbpools
    BY <1>4 DEF SamePools
  <2>4. /\ Owing(PoolUse(k)) \in Int /\ Len(buftab[k].bpnext) \in Nat
        /\ Owing(PoolUse(k))' \in Int
    BY <1>0, <2>3, StockTypes
  <2> QED BY <1>1, <2>2, <2>4
<1> QED BY <1>2, <1>4, <1>10, <1>11, <1>12, SteadyCounts

-----------------------------------------------------------------------------
(* Creating and clearing                                                   *)

\* Process p creates or clears port i.
LEMMA TouchCounts ==
  ASSUME CInv, NEW p \in Procs, NEW i \in PortIds,
         \A j \in PortIds : j # i => porttab'[j] = porttab[j],
         \A q \in Procs : q # p => call'[q] = call[q],
         ~Using(call[p]), ~Using(call'[p]),
         \A j \in PortIds : j # i => ~Clearing(p, j)',
         buftab' = buftab, nbpools' = nbpools, kills' = kills, panicked' = panicked,
         \A u \in Uses \ {SendUse(i), RecvUse(i)} : Live(u) => Count(u)' = Count(u),
         PortSound(i)', \A q \in Procs : ResetSound(q, i)'
  PROVE  CountInv'
<1>0. TInv /\ Exact' = Exact
  BY DEF CInv, Exact
<1>1. ASSUME NEW u \in Uses \ {SendUse(i), RecvUse(i)}, Live(u) PROVE Owing(u)' = Owing(u)
  <2>1. KeepsPort(u)
    <3>1. CASE u[1] = "getbuf"
      BY <3>1 DEF KeepsPort
    <3>2. CASE u[1] # "getbuf"
      <4>1. PICK j \in PortIds : u = SendUse(j) \/ u = RecvUse(j)
        BY <3>2, UseNames DEF PoolUse
      <4>2. j # i /\ u[2] = j
        BY <1>1, <4>1 DEF SendUse, RecvUse
      <4> QED BY <4>2 DEF KeepsPort
    <3> QED BY <3>1, <3>2
  <2>2. p \notin Serving(u) /\ p \notin Serving(u)'
    BY DEF Serving, UsersOf
  <2>3. Serving(u)' = Serving(u)
    BY <2>1, <2>2, ServingKept
  <2> QED BY <1>1, <2>3 DEF Owing
<1>2. ASSUME NEW j \in PortIds PROVE PortSound(j)'
  <2>1. CASE j = i
    BY <2>1
  <2>2. CASE j # i
    <3> SUFFICES ASSUME CountsFit, porttab'[j].ptstate = PT_ALLOC, porttab'[j].ptssem # SYSERR
                 PROVE  /\ Spare(j)' <= porttab'[j].ptmaxcnt
                        /\ Exact' => Spare(j)' = porttab'[j].ptmaxcnt
                        /\ porttab'[j].ptrsem # SYSERR =>
                             Surplus(j)' >= 0 /\ (Exact' => Surplus(j)' = 0)
      BY DEF PortSound
    <3>1. porttab'[j] = porttab[j]
      BY <2>2
    <3>2. /\ SendUse(j) \in Uses \ {SendUse(i), RecvUse(i)} /\ Live(SendUse(j))
          /\ RecvUse(j) \in Uses \ {SendUse(i), RecvUse(i)}
          /\ porttab[j].ptrsem # SYSERR => Live(RecvUse(j))
      BY <2>2, <3>1, LiveUses
    <3>3. Spare(j)' = Spare(j) /\ (porttab[j].ptrsem # SYSERR => Surplus(j)' = Surplus(j))
      BY <1>1, <3>1, <3>2 DEF Spare, Surplus
    <3>4. PortSound(j)
      BY DEF CInv, CountInv
    <3> QED BY <1>0, <3>1, <3>3, <3>4 DEF PortSound
  <2> QED BY <2>1, <2>2
<1>3. ASSUME NEW q \in Procs, NEW j \in PortIds PROVE ResetSound(q, j)'
  <2>1. CASE j = i
    BY <2>1
  <2>2. CASE j # i
    <3> SUFFICES ASSUME Clearing(q, j)', call'[q].newstate = PT_ALLOC
                 PROVE  /\ porttab'[j].ptssem # SYSERR /\ call'[q].op \in {"receivers", "newstate"} =>
                             Count(SendUse(j))' = porttab'[j].ptmaxcnt
                        /\ porttab'[j].ptrsem # SYSERR /\ call'[q].op = "newstate" =>
                             Count(RecvUse(j))' = 0
      BY DEF ResetSound
    <3>1. q # p
      BY <2>2
    <3>2. call'[q] = call[q] /\ porttab'[j] = porttab[j]
      BY <2>2, <3>1
    <3>3. Clearing(q, j)
      BY <3>2 DEF Clearing
    <3>4. /\ porttab[j].ptssem # SYSERR => SendLive(j)
          /\ porttab[j].ptrsem # SYSERR => RecvLive(j)
      BY <3>2, <3>3 DEF SendLive, RecvLive, Keeps
    <3>5. /\ porttab[j].ptssem # SYSERR => Count(SendUse(j))' = Count(SendUse(j))
          /\ porttab[j].ptrsem # SYSERR => Count(RecvUse(j))' = Count(RecvUse(j))
      BY <2>2, <3>4, LiveUses, UseFacts
    <3>6. ResetSound(q, j)
      BY DEF CInv, CountInv
    <3> QED BY <3>2, <3>3, <3>5, <3>6 DEF ResetSound
  <2> QED BY <2>1, <2>2
<1>4. ASSUME NEW k \in PoolIds PROVE PoolSound(k)'
  <2> SUFFICES ASSUME k < nbpools'
               PROVE  /\ Owing(PoolUse(k))' <= Len(buftab'[k].bpnext)
                      /\ kills' = 0 => Owing(PoolUse(k))' = Len(buftab'[k].bpnext)
    BY DEF PoolSound
  <2>1. Owing(PoolUse(k))' = Owing(PoolUse(k))
    BY <1>1, LiveUses
  <2>2. PoolSound(k)
    BY DEF CInv, CountInv
  <2> QED BY <2>1, <2>2 DEF PoolSound
<1> QED BY <1>2, <1>3, <1>4 DEF CountInv

LEMMA ClearCounts ==
  ASSUME CInv, NEW p \in Procs, NEW i \in PortIds, NEW newstate \in {PT_FREE, PT_ALLOC},
         ptclear(p, i, newstate), UNCHANGED poolVars
  PROVE  CountInv'
<1>0. TInv /\ MsgTypes
  BY DEF CInv, TInv, MInv
<1>1. /\ call[p] = Idle
      /\ call' = [call EXCEPT ![p] = [op |-> "dispose", port |-> i, newstate |-> newstate,
                                      walk |-> porttab[i].ptmsgs]]
      /\ porttab' = [porttab EXCEPT ![i].ptstate = PT_LIMBO, ![i].ptseq = @ + 1]
      /\ semtab' = semtab /\ kills' = kills /\ panicked' = panicked
      /\ buftab' = buftab /\ nbpools' = nbpools /\ porttab[i].ptstate = PT_ALLOC
  BY DEF ptclear, InUser, poolVars
<1>2. /\ call'[p].op = "dispose" /\ call'[p].port = i
      /\ \A q \in Procs : q # p => call'[q] = call[q]
  BY <1>0, <1>1 DEF MsgTypes
<1>3. \A j \in PortIds : /\ porttab'[j].ptssem = porttab[j].ptssem
                         /\ porttab'[j].ptrsem = porttab[j].ptrsem
                         /\ j # i => porttab'[j] = porttab[j]
  BY <1>0, <1>1 DEF MsgTypes, PortEntries
<1>4. porttab'[i].ptstate = PT_LIMBO
  BY <1>0, <1>1 DEF MsgTypes, PortEntries
<1>5. ASSUME NEW u \in Uses PROVE Count(u)' = Count(u)
  <2>1. SemOf(u)' = SemOf(u)
    <3>1. CASE \E j \in PortIds : u = SendUse(j) \/ u = RecvUse(j)
      BY <1>3, <3>1, UseFacts, UseFactsNext
    <3>2. CASE \E k \in PoolIds : u = PoolUse(k)
      BY <1>1, <3>2, UseFacts, UseFactsNext
    <3> QED BY <3>1, <3>2, UseNames
  <2> QED BY <1>1, <2>1 DEF Count
<1>6. PortSound(i)'
  BY <1>4 DEF PortSound, PT_LIMBO, PT_ALLOC
<1>7. ASSUME NEW q \in Procs PROVE ResetSound(q, i)'
  <2>1. q # p => ~Clearing(q, i)'
    <3>1. ~Clearing(q, i)
      BY <1>0, <1>1 DEF TInv, MInv, ClearInv, PT_LIMBO, PT_ALLOC
    <3> QED BY <1>2, <3>1 DEF Clearing
  <2> QED BY <1>2, <2>1 DEF ResetSound
<1>8. ~Using(call[p]) /\ ~Using(call'[p])
  BY <1>1, <1>2 DEF Using, Idle
<1>9. \A j \in PortIds : j # i => ~Clearing(p, j)'
  BY <1>2 DEF Clearing
<1> QED BY <1>1, <1>2, <1>3, <1>5, <1>6, <1>7, <1>8, <1>9, TouchCounts

\* Process p is done with one of the two semaphores of the port it clears, that of use u.
LEMMA ClearedCounts ==
  ASSUME MInv, SamePorts, SamePools, NEW p, NEW u \in Uses, SemOf(u) \in SemIds \cup {SYSERR},
         SemOf(u) # SYSERR => Live(u), NEW count \in Nat,
         semtab' = clearsem(call[p], SemOf(u), count)
  PROVE  /\ \A w \in Uses : w # u /\ Live(w) => Count(w)' = Count(w)
         /\ SemOf(u) # SYSERR /\ call[p].newstate = PT_ALLOC => Count(u)' = count
<1>1. /\ \A s \in SemIds : s # SemOf(u) => semtab'[s] = semtab[s]
      /\ \A v \in Uses : v # u /\ Live(v) => SemOf(v) # SemOf(u)
      /\ SemOf(u) # SYSERR /\ call[p].newstate = PT_ALLOC => semtab'[SemOf(u)].count = count
  BY ClearSem
<1>2. \A w \in Uses : SemOf(w)' = SemOf(w)
  BY SemOfKept
<1>3. ASSUME NEW w \in Uses, w # u, Live(w) PROVE Count(w)' = Count(w)
  <2>1. SemOf(w) \in SemIds
    BY <1>3 DEF MInv, OwnInv, isused
  <2> QED BY <1>1, <1>2, <1>3, <2>1 DEF Count
<1> QED BY <1>1, <1>2, <1>3 DEF Count

LEMMA SendersCounts ==
  ASSUME CInv, NEW p \in Procs, ptclear_senders(p), UNCHANGED poolVars
  PROVE  CountInv'
<1>0. TInv /\ MInv
  BY DEF CInv, TInv
<1>1. PICK i \in PortIds : call[p].port = i
  BY <1>0, Clearer DEF ptclear_senders, Resumes
<1> DEFINE u == SendUse(i)
           n == porttab[i].ptmaxcnt
<1>2. /\ ~Waiting(p) /\ call[p].op = "dispose"
      /\ NewMessages(i, <<>>)
      /\ semtab' = clearsem(call[p], porttab[i].ptssem, n)
      /\ call' = [call EXCEPT ![p].op = "receivers"]
      /\ UNCHANGED <<panicked, kills, buftab, nbpools>>
  BY <1>1 DEF ptclear_senders, Resumes, Runs, NewMessages, poolVars
<1>3. porttab \in [PortIds -> PortEntries] /\ call[p] \in ClearCalls
         /\ Clearing(p, i) /\ porttab[i].ptstate = PT_LIMBO
         /\ \A q \in Procs : Clearing(q, i) => q = p
         /\ \A j \in PortIds : Clearing(p, j) => j = i
  BY <1>0, <1>1, <1>2, Clearer DEF MInv, MsgTypes
<1>4. /\ call'[p].op = "receivers" /\ call'[p].newstate = call[p].newstate
      /\ \A q \in Procs : q # p => call'[q] = call[q]
      /\ ~Using(call'[p]) /\ ~Using(call[p])
      /\ \A q \in Procs, j \in PortIds : Clearing(q, j)' <=> Clearing(q, j)
  BY <1>0, <1>2, Proceeds DEF Using
<1>5. /\ SamePorts /\ \A j \in PortIds : j # i => porttab'[j] = porttab[j]
  BY <1>2, <1>3, EmptySeq, MessagesChange
<1>6. SamePools
  BY <1>2 DEF SamePools
<1>7. /\ u \in Uses /\ SemOf(u) = porttab[i].ptssem /\ SemOf(u) \in SemIds \cup {SYSERR}
      /\ SemOf(u) # SYSERR => Live(u)
  BY <1>0, <1>2, <1>3, PortSems, LiveUses, UseFacts DEF SendLive, Keeps
<1>8. n \in Nat
  BY <1>3 DEF PortEntries
<1> HIDE DEF u, n
<1>9. /\ \A w \in Uses : w # u /\ Live(w) => Count(w)' = Count(w)
      /\ SemOf(u) # SYSERR /\ call[p].newstate = PT_ALLOC => Count(u)' = n
  BY <1>0, <1>2, <1>5, <1>6, <1>7, <1>8, ClearedCounts
<1>10. porttab'[i].ptstate = PT_LIMBO /\ porttab'[i].ptssem = porttab[i].ptssem
         /\ porttab'[i].ptmaxcnt = n
  BY <1>3, <1>5 DEF SamePorts, n
<1>11. PortSound(i)'
  BY <1>10 DEF PortSound, PT_LIMBO, PT_ALLOC
<1>12. ASSUME NEW q \in Procs PROVE ResetSound(q, i)'
  <2> SUFFICES ASSUME Clearing(q, i)', call'[q].newstate = PT_ALLOC
               PROVE  /\ porttab'[i].ptssem # SYSERR => Count(SendUse(i))' = porttab'[i].ptmaxcnt
                      /\ call'[q].op # "newstate"
    BY DEF ResetSound
  <2>1. q = p
    BY <1>3, <1>4
  <2> QED BY <1>4, <1>7, <1>9, <1>10, <2>1 DEF u
<1>13. \A j \in PortIds : j # i => ~Clearing(p, j)'
  BY <1>3, <1>4
<1>14. \A w \in Uses \ {SendUse(i), RecvUse(i)} : Live(w) => Count(w)' = Count(w)
  BY <1>9 DEF u
<1> QED BY <1>2, <1>4, <1>5, <1>11, <1>12, <1>13, <1>14, TouchCounts

LEMMA ReceiversCounts ==
  ASSUME CInv, NEW p \in Procs, ptclear_receivers(p), UNCHANGED poolVars
  PROVE  CountInv'
<1>0. TInv /\ MInv
  BY DEF CInv, TInv
<1>1. PICK i \in PortIds : call[p].port = i
  BY <1>0, Clearer DEF ptclear_receivers, Resumes
<1> DEFINE u == RecvUse(i)
<1>2. /\ ~Waiting(p) /\ call[p].op = "receivers"
      /\ semtab' = clearsem(call[p], porttab[i].ptrsem, 0)
      /\ call' = [call EXCEPT ![p].op = "newstate"]
      /\ UNCHANGED <<porttab, panicked, kills, buftab, nbpools>>
  BY <1>1 DEF ptclear_receivers, Resumes, Runs, poolVars, portVars
<1>3. porttab \in [PortIds -> PortEntries] /\ call[p] \in ClearCalls
         /\ Clearing(p, i) /\ porttab[i].ptstate = PT_LIMBO
         /\ \A q \in Procs : Clearing(q, i) => q = p
         /\ \A j \in PortIds : Clearing(p, j) => j = i
  BY <1>0, <1>1, <1>2, Clearer DEF MInv, MsgTypes
<1>4. /\ call'[p].op = "newstate" /\ call'[p].newstate = call[p].newstate
      /\ \A q \in Procs : q # p => call'[q] = call[q]
      /\ ~Using(call'[p]) /\ ~Using(call[p])
      /\ \A q \in Procs, j \in PortIds : Clearing(q, j)' <=> Clearing(q, j)
  BY <1>0, <1>2, Proceeds DEF Using
<1>5. SamePorts /\ SamePools
  BY <1>2 DEF SamePorts, SamePools
<1>6. /\ u \in Uses /\ SemOf(u) = porttab[i].ptrsem /\ SemOf(u) \in SemIds \cup {SYSERR}
      /\ SemOf(u) # SYSERR => Live(u)
      /\ SendUse(i) \in Uses /\ SendUse(i) # u
      /\ porttab[i].ptssem # SYSERR /\ call[p].newstate = PT_ALLOC => Live(SendUse(i))
  BY <1>0, <1>2, <1>3, PortSems, LiveUses, UseFacts, UseNames DEF SendLive, RecvLive, Keeps
<1> HIDE DEF u
<1>7. /\ \A w \in Uses : w # u /\ Live(w) => Count(w)' = Count(w)
      /\ SemOf(u) # SYSERR /\ call[p].newstate = PT_ALLOC => Count(u)' = 0
  BY <1>0, <1>2, <1>5, <1>6, ClearedCounts
<1>8. PortSound(i)'
  BY <1>2, <1>3 DEF PortSound, PT_LIMBO, PT_ALLOC
<1>9. ASSUME NEW q \in Procs PROVE ResetSound(q, i)'
  <2> SUFFICES ASSUME Clearing(q, i)', call'[q].newstate = PT_ALLOC
               PROVE  /\ porttab'[i].ptssem # SYSERR => Count(SendUse(i))' = porttab'[i].ptmaxcnt
                      /\ porttab'[i].ptrsem # SYSERR => Count(RecvUse(i))' = 0
    BY DEF ResetSound
  <2>1. q = p
    BY <1>3, <1>4
  <2>2. ResetSound(p, i)
    BY DEF CInv, CountInv
  <2>3. porttab[i].ptssem # SYSERR => Count(SendUse(i)) = porttab[i].ptmaxcnt
    BY <1>2, <1>3, <1>4, <2>1, <2>2 DEF ResetSound
  <2> QED BY <1>2, <1>4, <1>6, <1>7, <2>1, <2>3 DEF u
<1>10. \A j \in PortIds : j # i => ~Clearing(p, j)'
  BY <1>3, <1>4
<1>11. \A w \in Uses \ {SendUse(i), RecvUse(i)} : Live(w) => Count(w)' = Count(w)
  BY <1>7 DEF u
<1> QED BY <1>2, <1>4, <1>8, <1>9, <1>10, <1>11, TouchCounts

\* Nobody is meant for a unit of a port that has just been opened.
LEMMA OpenedServing ==
  ASSUME NEW p \in Procs, NEW i \in PortIds,
         \A q \in Procs : q # p => call'[q] = call[q], ~Using(call'[p]),
         \A q \in Procs : call[q].op \in {"ptsend", "ptrecv"} /\ call[q].port = i =>
            call[q].seq # porttab'[i].ptseq
  PROVE  Cardinality(Serving(SendUse(i)))' = 0 /\ Cardinality(Serving(RecvUse(i)))' = 0
<1>1. ASSUME NEW q \in Procs, NEW u \in {SendUse(i), RecvUse(i)}, q \in Serving(u)' PROVE FALSE
  <2>1. Using(call'[q]) /\ UseOf(call'[q]) = u
    BY <1>1 DEF Serving, UsersOf
  <2>2. q # p /\ call'[q] = call[q]
    BY <2>1
  <2>3. call[q].op \in {"ptsend", "ptrecv"} /\ call[q].port = i
    BY <2>1, <2>2 DEF UseOf, SendUse, RecvUse, Using
  <2>4. Fresh(call[q])'
    BY <1>1, <2>2, <2>3 DEF Serving
  <2>5. call[q].seq = porttab'[i].ptseq
    BY <2>2, <2>3, <2>4 DEF Fresh
  <2> QED BY <2>3, <2>5
<1>2. \A u \in {SendUse(i), RecvUse(i)} : Serving(u)' = {}
  BY <1>1 DEF Serving, UsersOf
<1> QED BY <1>2, FS_EmptySet

LEMMA EndCounts ==
  ASSUME CInv, NEW p \in Procs, ptclear_end(p), UNCHANGED poolVars
  PROVE  CountInv'
<1>0. TInv /\ MInv
  BY DEF CInv, TInv
<1>1. PICK i \in PortIds : call[p].port = i
  BY <1>0, Clearer DEF ptclear_end, Resumes
<1>2. /\ call[p].op = "newstate"
      /\ porttab' = [porttab EXCEPT ![i].ptstate = call[p].newstate]
      /\ Return(p)
      /\ UNCHANGED <<semtab, panicked, kills, buftab, nbpools>>
  BY <1>1 DEF ptclear_end, Resumes, poolVars
<1>3. /\ porttab \in [PortIds -> PortEntries] /\ call \in [Procs -> CallRecords]
      /\ Clearing(p, i) /\ porttab[i].ptmsgs = <<>>
      /\ \A q \in Procs : Clearing(q, i) => q = p
      /\ \A q \in Procs : call[q].op \in {"ptsend", "ptrecv"} /\ call[q].port = i =>
           call[q].seq < porttab[i].ptseq
  BY <1>0, <1>1, <1>2, Clearer DEF MInv, MsgTypes
<1>4. /\ call'[p] = Idle /\ \A q \in Procs : q # p => call'[q] = call[q]
  BY <1>2, <1>3 DEF Return
<1>5. /\ \A j \in PortIds : /\ porttab'[j].ptssem = porttab[j].ptssem
                            /\ porttab'[j].ptrsem = porttab[j].ptrsem
                            /\ j # i => porttab'[j] = porttab[j]
      /\ porttab'[i].ptstate = call[p].newstate /\ porttab'[i].ptmaxcnt = porttab[i].ptmaxcnt
      /\ porttab'[i].ptseq = porttab[i].ptseq /\ porttab'[i].ptmsgs = <<>>
      /\ porttab[i].ptmaxcnt \in Nat /\ porttab[i].ptseq \in Nat
  BY <1>2, <1>3 DEF PortEntries
<1>6. ~Using(call[p]) /\ ~Using(call'[p]) /\ \A j \in PortIds : ~Clearing(p, j)'
  BY <1>2, <1>4 DEF Using, Idle, Clearing
<1>7. ASSUME NEW u \in Uses PROVE Count(u)' = Count(u)
  <2>1. SemOf(u)' = SemOf(u)
    <3>1. CASE \E j \in PortIds : u = SendUse(j) \/ u = RecvUse(j)
      BY <1>5, <3>1, UseFacts, UseFactsNext
    <3>2. CASE \E k \in PoolIds : u = PoolUse(k)
      BY <1>2, <3>2, UseFacts, UseFactsNext
    <3> QED BY <3>1, <3>2, UseNames
  <2> QED BY <1>2, <2>1 DEF Count
<1>8. \A q \in Procs : ~Clearing(q, i)'
  BY <1>3, <1>4, <1>6 DEF Clearing
<1>9. PortSound(i)'
  <2> SUFFICES ASSUME porttab'[i].ptstate = PT_ALLOC, porttab'[i].ptssem # SYSERR
               PROVE  /\ Spare(i)' = porttab'[i].ptmaxcnt
                      /\ porttab'[i].ptrsem # SYSERR => Surplus(i)' = 0
    <3>1. porttab'[i].ptmaxcnt \in Int
      BY <1>5
    <3> QED BY <3>1 DEF PortSound
  <2>1. call[p].newstate = PT_ALLOC /\ porttab[i].ptssem # SYSERR
    BY <1>5
  <2>2. ResetSound(p, i)
    BY DEF CInv, CountInv
  <2>3. /\ Count(SendUse(i)) = porttab[i].ptmaxcnt
        /\ porttab[i].ptrsem # SYSERR => Count(RecvUse(i)) = 0
    BY <1>2, <1>3, <2>1, <2>2 DEF ResetSound
  <2>4. /\ Count(SendUse(i))' = porttab[i].ptmaxcnt
        /\ porttab[i].ptrsem # SYSERR => Count(RecvUse(i))' = 0
    BY <1>7, <2>3, LiveUses
  <2>5. \A q \in Procs : call[q].op \in {"ptsend", "ptrecv"} /\ call[q].port = i =>
            call[q].seq # porttab'[i].ptseq
    <3> SUFFICES ASSUME NEW q \in Procs, call[q].op \in {"ptsend", "ptrecv"}, call[q].port = i
                 PROVE  call[q].seq # porttab'[i].ptseq
      OBVIOUS
    <3>1. call[q].seq < porttab[i].ptseq
      BY <1>3
    <3> QED BY <1>5, <3>1
  <2>6. Cardinality(Serving(SendUse(i)))' = 0 /\ Cardinality(Serving(RecvUse(i)))' = 0
    BY <1>4, <1>6, <2>5, OpenedServing
  <2>7. Len(porttab'[i].ptmsgs) = 0
    BY <1>5, EmptySeq
  <2>8. Spare(i)' = Count(SendUse(i))' + Cardinality(Serving(SendUse(i)))' + Len(porttab'[i].ptmsgs)
           /\ Surplus(i)' = Len(porttab'[i].ptmsgs)
                              - (Count(RecvUse(i))' + Cardinality(Serving(RecvUse(i)))')
    BY DEF Spare, Surplus, Owing
  <2> QED BY <1>5, <2>4, <2>6, <2>7, <2>8
<1>10. \A q \in Procs : ResetSound(q, i)'
  BY <1>8 DEF ResetSound
<1> QED BY <1>2, <1>4, <1>5, <1>6, <1>7, <1>9, <1>10, TouchCounts

LEMMA CreateCounts ==
  ASSUME CInv, NEW p \in Procs, NEW count \in PortCounts, ptcreate(p, count), UNCHANGED poolVars
  PROVE  CountInv'
<1>0. PICK i \in PortIds : i = nextport /\ porttab[i].ptstate = PT_FREE
  BY NextPort DEF CInv, TInv, MInv, MsgTypes, ptcreate
<1>s. PICK s \in NewSem(semtab) : \E r \in NewSem(semcreate(semtab, s, count)) :
        /\ semtab' = semcreate(semcreate(semtab, s, count), r, 0)
        /\ porttab' = [porttab EXCEPT ![i] =
             [ptstate |-> PT_ALLOC, ptssem |-> s, ptrsem |-> r,
              ptmaxcnt |-> count % (U16MAX + 1), ptseq |-> @.ptseq + 1, ptmsgs |-> <<>>]]
  BY <1>0 DEF ptcreate
<1>1. PICK r \in NewSem(semcreate(semtab, s, count)) :
        /\ semtab' = semcreate(semcreate(semtab, s, count), r, 0)
        /\ porttab' = [porttab EXCEPT ![i] =
             [ptstate |-> PT_ALLOC, ptssem |-> s, ptrsem |-> r,
              ptmaxcnt |-> count % (U16MAX + 1), ptseq |-> @.ptseq + 1, ptmsgs |-> <<>>]]
  BY <1>s
<1> DEFINE t == semcreate(semtab, s, count)
<1>2. /\ call[p] = Idle /\ semtab' = semcreate(t, r, 0)
      /\ UNCHANGED <<call, panicked, kills, buftab, nbpools>>
  BY <1>0, <1>1 DEF ptcreate, InUser, poolVars
<1>3. /\ TInv /\ MInv /\ SemTable(semtab) /\ count \in Nat
      /\ porttab \in [PortIds -> PortEntries] /\ porttab[i].ptseq \in Nat
  BY PortAssumption DEF CInv, TInv, MInv, MsgTypes, PortEntries
<1>4. /\ SemTable(t) /\ s \in SemIds \cup {SYSERR}
      /\ s # SYSERR => s \in SemIds /\ ~semtab[s].used /\ t[s].used /\ t[s].count = count
      /\ \A x \in SemIds : x # s => t[x] = semtab[x]
  BY <1>3, CreateAny
<1>5. r \in NewSem(t)
  OBVIOUS
<1> HIDE DEF t
<1>6. /\ r \in SemIds \cup {SYSERR}
      /\ r # SYSERR => /\ r \in SemIds /\ ~t[r].used
                       /\ semtab'[r].used /\ semtab'[r].count = 0
      /\ \A x \in SemIds : x # r => semtab'[x] = t[x]
  BY <1>2, <1>4, <1>5, CreateAny
<1>7. /\ porttab'[i].ptstate = PT_ALLOC /\ porttab'[i].ptssem = s /\ porttab'[i].ptrsem = r
      /\ porttab'[i].ptmaxcnt = count % (U16MAX + 1)
      /\ porttab'[i].ptseq = porttab[i].ptseq + 1 /\ porttab'[i].ptmsgs = <<>>
      /\ \A j \in PortIds : j # i => porttab'[j] = porttab[j]
  BY <1>1, <1>3
<1>8. ASSUME NEW u \in Uses \ {SendUse(i), RecvUse(i)}, Live(u) PROVE Count(u)' = Count(u)
  <2>1. SemOf(u)' = SemOf(u)
    <3>1. CASE \E j \in PortIds : u = SendUse(j) \/ u = RecvUse(j)
      <4>1. PICK j \in PortIds : u = SendUse(j) \/ u = RecvUse(j)
        BY <3>1
      <4>2. j # i
        BY <4>1
      <4>3. porttab'[j] = porttab[j]
        BY <1>7, <4>2
      <4> QED BY <4>1, <4>3, UseFacts, UseFactsNext
    <3>2. CASE \E k \in PoolIds : u = PoolUse(k)
      BY <1>2, <3>2, UseFacts, UseFactsNext
    <3> QED BY <3>1, <3>2, UseNames
  <2>2. SemOf(u) \in SemIds /\ semtab[SemOf(u)].used
    BY <1>3, <1>8, CountTypes
  <2>3. SemOf(u) # s /\ SemOf(u) # r
    <3>1. SemOf(u) # s
      BY <1>4, <2>2 DEF SemIds, SYSERR
    <3>2. t[SemOf(u)].used
      BY <1>4, <2>2, <3>1
    <3> QED BY <1>6, <2>2, <3>1, <3>2 DEF SemIds, SYSERR
  <2>4. semtab'[SemOf(u)] = semtab[SemOf(u)]
    BY <1>4, <1>6, <2>2, <2>3
  <2> QED BY <2>1, <2>4 DEF Count
<1>9. ~Using(call[p]) /\ ~Using(call'[p]) /\ \A j \in PortIds : ~Clearing(p, j)'
  BY <1>2 DEF Using, Idle, Clearing
<1>10. \A q \in Procs : ~Clearing(q, i)'
  <2>1. \A q \in Procs : ~Clearing(q, i)
    BY <1>0, <1>3 DEF MInv, ClearInv, PT_FREE, PT_LIMBO
  <2> QED BY <1>2, <2>1 DEF Clearing
<1>11. \A q \in Procs : call[q].op \in {"ptsend", "ptrecv"} /\ call[q].port = i =>
            call[q].seq # porttab'[i].ptseq
  <2> SUFFICES ASSUME NEW q \in Procs, call[q].op \in {"ptsend", "ptrecv"}, call[q].port = i
               PROVE  call[q].seq # porttab'[i].ptseq
    OBVIOUS
  <2>1. call[q].seq \in Nat /\ call[q].seq <= porttab[i].ptseq
    BY <1>3, CallKinds DEF MInv, SeqInv, MsgTypes, SendCalls, RecvCalls
  <2> QED BY <1>3, <1>7, <2>1
<1>12. PortSound(i)'
  <2> SUFFICES ASSUME CountsFit, s # SYSERR
               PROVE  /\ Spare(i)' = porttab'[i].ptmaxcnt /\ porttab'[i].ptmaxcnt \in Int
                      /\ r # SYSERR => Surplus(i)' = 0
    BY <1>7 DEF PortSound
  <2>1. count \in 0..U16MAX /\ U16MAX \in Nat
    BY PortAssumption DEF CountsFit
  <2>2. porttab'[i].ptmaxcnt = count
    BY <1>7, <2>1
  <2>3. Count(SendUse(i))' = count /\ (r # SYSERR => Count(RecvUse(i))' = 0)
    <3>1. SemOf(SendUse(i))' = s /\ SemOf(RecvUse(i))' = r
      BY <1>7, UseFactsNext
    <3>2. s # r /\ semtab'[s].count = count
      BY <1>4, <1>6
    <3> QED BY <1>6, <3>1, <3>2 DEF Count
  <2>4. Cardinality(Serving(SendUse(i)))' = 0 /\ Cardinality(Serving(RecvUse(i)))' = 0
    BY <1>2, <1>9, <1>11, OpenedServing
  <2>5. Len(porttab'[i].ptmsgs) = 0
    BY <1>7, EmptySeq
  <2>6. Spare(i)' = Count(SendUse(i))' + Cardinality(Serving(SendUse(i)))' + Len(porttab'[i].ptmsgs)
           /\ Surplus(i)' = Len(porttab'[i].ptmsgs)
                              - (Count(RecvUse(i))' + Cardinality(Serving(RecvUse(i)))')
    BY DEF Spare, Surplus, Owing
  <2> QED BY <2>1, <2>2, <2>3, <2>4, <2>5, <2>6
<1>13. \A q \in Procs : ResetSound(q, i)'
  BY <1>10 DEF ResetSound
<1>14. \A q \in Procs : q # p => call'[q] = call[q]
  BY <1>2
<1> QED BY <1>2, <1>7, <1>8, <1>9, <1>12, <1>13, <1>14, TouchCounts

\* The new pool has as many buffers as its semaphore counts, and nobody waits for one.
LEMMA PoolMadeCounts ==
  ASSUME CInv, NEW p \in Procs, NEW n \in PoolSizes, mkbufpool(p, n), UNCHANGED portVars
  PROVE  CountInv'
<1>0. PICK k \in PoolIds : k = nbpools
  BY PoolAssumption DEF CInv, TInv, MInv, MsgTypes, mkbufpool, PoolIds
<1> DEFINE l == [j \in 1..n |-> allocated + j]
<1>1. PICK s \in FreeSems(semtab) :
        /\ semtab' = semcreate(semtab, s, n)
        /\ buftab' = [buftab EXCEPT ![k] = [bpsem |-> s, bpnext |-> l]]
  BY <1>0 DEF mkbufpool
<1>2. /\ nbpools' = nbpools + 1 /\ nbpools = k
      /\ UNCHANGED <<porttab, call, panicked, kills>>
  BY <1>0 DEF mkbufpool, portVars
<1>3. /\ TInv /\ MInv /\ SemTable(semtab) /\ buftab \in [PoolIds -> PoolEntries] /\ n \in Nat
      /\ Exact' = Exact /\ nbpools \in Nat
  BY <1>2, PoolAssumption DEF CInv, TInv, MInv, MsgTypes, Exact
<1>4. /\ OnlyChanges(semtab, semtab', s) /\ s \in SemIds /\ ~semtab[s].used
      /\ semtab'[s].count = n
  BY <1>1, <1>3, CreateTable
<1>5. Len(l) = n
  BY <1>3, LenProperties
<1> HIDE DEF l
<1>6. buftab'[k].bpsem = s /\ buftab'[k].bpnext = l /\ \A j \in PoolIds : j # k => buftab'[j] = buftab[j]
  BY <1>1, <1>3
<1>7. ASSUME NEW u \in Uses, Live(u)
      PROVE  Count(u)' = Count(u) /\ Serving(u)' = Serving(u)
  <2>1. SemOf(u)' = SemOf(u)
    <3>1. CASE \E j \in PortIds : u = SendUse(j) \/ u = RecvUse(j)
      BY <1>2, <3>1, UseFacts, UseFactsNext
    <3>2. CASE \E j \in PoolIds : u = PoolUse(j)
      <4>1. PICK j \in PoolIds : u = PoolUse(j)
        BY <3>2
      <4>2. j # k
        BY <1>2, <1>7, <4>1, UseFacts DEF PoolIds
      <4> QED BY <1>6, <4>1, <4>2, UseFacts, UseFactsNext
    <3> QED BY <3>1, <3>2, UseNames
  <2>2. SemOf(u) \in SemIds /\ SemOf(u) # s
    BY <1>3, <1>4, <1>7, CountTypes
  <2>3. Count(u)' = Count(u)
    BY <1>4, <2>1, <2>2 DEF Count, OnlyChanges
  <2>4. KeepsPort(u)
    BY <1>2 DEF KeepsPort
  <2>5. SamePorts
    BY <1>2 DEF SamePorts
  <2>6. Serving(u)' = Serving(u)
    BY <1>2, <2>5, ServingFixed
  <2> QED BY <2>3, <2>6
<1>8. ASSUME NEW i \in PortIds PROVE PortSound(i)'
  <2> SUFFICES ASSUME CountsFit, porttab[i].ptstate = PT_ALLOC, porttab[i].ptssem # SYSERR
               PROVE  /\ Spare(i)' <= porttab[i].ptmaxcnt
                      /\ Exact => Spare(i)' = porttab[i].ptmaxcnt
                      /\ porttab[i].ptrsem # SYSERR => Surplus(i)' >= 0 /\ (Exact => Surplus(i)' = 0)
    BY <1>2, <1>3 DEF PortSound
  <2>1. Owing(SendUse(i))' = Owing(SendUse(i))
           /\ (porttab[i].ptrsem # SYSERR => Owing(RecvUse(i))' = Owing(RecvUse(i)))
    BY <1>7, LiveUses DEF Owing
  <2>2. Spare(i)' = Spare(i) /\ (porttab[i].ptrsem # SYSERR => Surplus(i)' = Surplus(i))
    BY <1>2, <2>1 DEF Spare, Surplus
  <2>3. PortSound(i)
    BY DEF CInv, CountInv
  <2> QED BY <2>2, <2>3 DEF PortSound
<1>9. ASSUME NEW q \in Procs, NEW i \in PortIds PROVE ResetSound(q, i)'
  <2>1. ResetSound(q, i)
    BY DEF CInv, CountInv
  <2> SUFFICES ASSUME Clearing(q, i), call[q].newstate = PT_ALLOC
               PROVE  /\ porttab[i].ptssem # SYSERR /\ call[q].op \in {"receivers", "newstate"} =>
                           Count(SendUse(i))' = porttab[i].ptmaxcnt
                      /\ porttab[i].ptrsem # SYSERR /\ call[q].op = "newstate" =>
                           Count(RecvUse(i))' = 0
    BY <1>2 DEF ResetSound, Clearing
  <2>2. /\ porttab[i].ptssem # SYSERR => Live(SendUse(i))
        /\ porttab[i].ptrsem # SYSERR /\ call[q].op = "newstate" => Live(RecvUse(i))
        /\ SendUse(i) \in Uses /\ RecvUse(i) \in Uses
    BY UseFacts, UseNames DEF SendLive, RecvLive, Keeps
  <2> QED BY <1>7, <2>1, <2>2 DEF ResetSound
<1>10. ASSUME NEW j \in PoolIds PROVE PoolSound(j)'
  <2> SUFFICES ASSUME j < nbpools'
               PROVE  /\ Owing(PoolUse(j))' <= Len(buftab'[j].bpnext)
                      /\ kills = 0 => Owing(PoolUse(j))' = Len(buftab'[j].bpnext)
    BY <1>2 DEF PoolSound
  <2>1. PoolUse(j) \in Uses /\ (Live(PoolUse(j)) <=> j < nbpools)
    BY UseNames, UseFacts
  <2>2. CASE j = k
    <3>1. Count(PoolUse(j))' = n
      BY <1>4, <1>6, <2>2, UseFactsNext DEF Count
    <3>2. Serving(PoolUse(j))' = {}
      <4>1. \A q \in Procs : call[q].op = "getbuf" => call[q].pool < nbpools
        BY <1>3 DEF MInv, OwnInv
      <4>2. ASSUME NEW q \in Procs, q \in Serving(PoolUse(j))' PROVE FALSE
        <5>1. Using(call[q]) /\ UseOf(call[q]) = PoolUse(j)
          BY <1>2, <4>2 DEF Serving, UsersOf, Using, UseOf
        <5>2. call[q].op = "getbuf" /\ call[q].pool = j
          BY <5>1 DEF UseOf, PoolUse
        <5> QED BY <1>2, <2>2, <4>1, <5>2 DEF PoolIds
      <4> QED BY <4>2 DEF Serving, UsersOf
    <3>3. Owing(PoolUse(j))' = n
      BY <1>3, <3>1, <3>2, FS_EmptySet DEF Owing
    <3> QED BY <1>3, <1>5, <1>6, <2>2, <3>3
  <2>3. CASE j # k
    <3>1. j < nbpools
      BY <1>2, <2>3 DEF PoolIds
    <3>2. Owing(PoolUse(j))' = Owing(PoolUse(j))
      BY <1>7, <2>1, <3>1 DEF Owing
    <3>3. PoolSound(j)
      BY DEF CInv, CountInv
    <3> QED BY <1>6, <2>3, <3>1, <3>2, <3>3 DEF PoolSound
  <2> QED BY <2>2, <2>3
<1> QED BY <1>8, <1>9, <1>10 DEF CountInv

-----------------------------------------------------------------------------
(* Theorems about counts                                                   *)

LEMMA CInvInit == MsgInit => CInv
<1> SUFFICES ASSUME MsgInit PROVE CInv
  OBVIOUS
<1>1. TInv
  BY TInvInit
<1>2. \A i \in PortIds : porttab[i].ptstate = PT_FREE
  BY DEF MsgInit, PortInit
<1>3. \A p \in Procs : call[p] = Idle
  BY DEF MsgInit, CallInit
<1>4. \A i \in PortIds : PortSound(i)
  BY <1>2 DEF PortSound, PT_FREE, PT_ALLOC
<1>5. \A p \in Procs, i \in PortIds : ResetSound(p, i)
  BY <1>3 DEF ResetSound, Clearing, Idle
<1>6. \A k \in PoolIds : PoolSound(k)
  BY DEF PoolSound, MsgInit, PoolInit, PoolIds
<1> QED BY <1>1, <1>4, <1>5, <1>6 DEF CInv, CountInv

LEMMA CInvStep ==
  ASSUME CInv, NEW p \in Procs, MsgStep(p)
  PROVE  CInv'
<1>0. TInv /\ TInv'
  BY TInvStep DEF CInv
<1> SUFFICES CountInv'
  BY <1>0 DEF CInv
<1>1. CASE create(p)
  BY <1>1, CreateCounts DEF create
<1>2. CASE clear(p)
  <2>1. CASE \E i \in PortIds : ptdelete(p, i) \/ ptreset(p, i)
    BY <1>2, <2>1, ClearCounts DEF clear, ptdelete, ptreset
  <2>2. CASE ptclear_senders(p)
    BY <1>2, <2>2, SendersCounts DEF clear
  <2>3. CASE ptclear_receivers(p)
    BY <1>2, <2>3, ReceiversCounts DEF clear
  <2>4. CASE ptclear_end(p)
    BY <1>2, <2>4, EndCounts DEF clear
  <2> QED BY <1>2, <2>1, <2>2, <2>3, <2>4 DEF clear
<1>3. CASE discard(p)
  BY <1>0, <1>3, DiscardCounts
<1>4. ASSUME NEW i \in PortIds, recv(p, i) PROVE CountInv'
  <2>1. CASE ptrecv_now(p, i) /\ takes(p, i)
    BY <1>0, <1>4, <2>1, RecvNowCounts DEF recv
  <2>2. CASE ptrecv_block(p, i) /\ UNCHANGED held
    <3>1. otherPool /\ blocked(p, "ptrecv", i, 0, porttab[i].ptrsem)
      BY <1>4, <2>2 DEF recv, ptrecv_block
    <3>2. Joins(p, <<"ptrecv", i>>)
      BY <1>0, <2>2, <3>1, Blocking
    <3>3. kills' = kills /\ panicked' = panicked
      BY <3>1 DEF blocked
    <3> QED BY <1>0, <3>2, <3>3, JoinCounts
  <2> QED BY <1>4, <2>1, <2>2 DEF recv
<1>5. ASSUME NEW i \in PortIds, NEW b \in Bufs, send(p, i, b) PROVE CountInv'
  <2>0. b \in held[p] /\ otherPool
    BY <1>5 DEF send
  <2>1. CASE ptsend_now(p, i, b) /\ gives(p, b)
    BY <1>0, <2>0, <2>1, SendNowCounts
  <2>2. CASE ptsend_block(p, i, b) /\ UNCHANGED held
    <3>1. blocked(p, "ptsend", i, b, porttab[i].ptssem)
      BY <2>2 DEF ptsend_block
    <3>2. Joins(p, <<"ptsend", i>>)
      BY <1>0, <2>0, <2>2, <3>1, Blocking
    <3>3. kills' = kills /\ panicked' = panicked
      BY <3>1 DEF blocked
    <3> QED BY <1>0, <3>2, <3>3, JoinCounts
  <2> QED BY <1>5, <2>1, <2>2 DEF send
<1>6. CASE resume(p)
  <2>1. CASE ptsend_resume(p) /\ gives(p, call[p].msg)
    BY <1>0, <1>6, <2>1, SendResumeCounts DEF resume
  <2>2. CASE ptrecv_resume(p) /\ takes(p, call[p].port)
    BY <1>0, <1>6, <2>2, RecvResumeCounts DEF resume
  <2>3. CASE pt_stale(p) /\ UNCHANGED held
    BY <1>0, <1>6, <2>3, StaleCounts DEF resume
  <2> QED BY <1>6, <2>1, <2>2, <2>3 DEF resume
<1>7. CASE pool(p)
  <2>0. UNCHANGED portVars
    BY <1>7 DEF pool
  <2>1. ASSUME NEW n \in PoolSizes, mkbufpool(p, n) PROVE CountInv'
    BY <2>0, <2>1, PoolMadeCounts
  <2>2. ASSUME NEW k \in PoolIds, getbuf_now(p, k) PROVE CountInv'
    BY <1>0, <2>0, <2>2, GetNowCounts
  <2>3. ASSUME NEW k \in PoolIds, getbuf_block(p, k) PROVE CountInv'
    <3> DEFINE u == PoolUse(k)
    <3>1. Joins(p, u)
      BY <1>0, <2>0, <2>3, GetBlock
    <3>2. kills' = kills /\ panicked' = panicked
      BY <2>3 DEF getbuf_block
    <3> HIDE DEF u
    <3> QED BY <1>0, <3>1, <3>2, JoinCounts
  <2>4. CASE getbuf_resume(p)
    BY <1>0, <2>0, <2>4, GetResumeCounts
  <2>5. ASSUME NEW b \in Bufs, freebuf(p, b) PROVE CountInv'
    BY <1>0, <2>0, <2>5, FreeCounts
  <2> QED BY <1>7, <2>1, <2>2, <2>3, <2>4, <2>5 DEF pool
<1>8. CASE kill(p)
  BY <1>0, <1>8, KillCounts
<1> QED BY <1>1, <1>2, <1>3, <1>4, <1>5, <1>6, <1>7, <1>8 DEF MsgStep

LEMMA CInvSame == CInv /\ UNCHANGED msgVars => CInv'
<1> SUFFICES ASSUME CInv, UNCHANGED msgVars PROVE CInv'
  OBVIOUS
<1>1. UNCHANGED <<semtab, call, panicked, kills, porttab, nbpools, buftab>>
  BY DEF msgVars, portVars, poolVars, callVars
<1>2. TInv'
  BY TInvSame DEF CInv
<1>3. SamePorts /\ SamePools /\ ClearsAlike
  BY <1>1 DEF SamePorts, SamePools, ClearsAlike, Clearing
<1>4. ASSUME NEW u \in Uses PROVE Owing(u)' = Owing(u) /\ Count(u)' = Count(u)
  <2>1. Serving(u)' = Serving(u) /\ SemOf(u)' = SemOf(u)
    BY <1>1, <1>3, ServingFixed, SemOfKept
  <2>2. Count(u)' = Count(u)
    BY <1>1, <2>1 DEF Count
  <2> QED BY <2>1, <2>2 DEF Owing
<1>5. CountInv'
  BY <1>1, <1>2, <1>3, <1>4, SameCounts
<1> QED BY <1>2, <1>5 DEF CInv

LEMMA CInvNext == CInv /\ [MsgNext]_msgVars => CInv'
<1> SUFFICES ASSUME CInv, [MsgNext]_msgVars PROVE CInv'
  OBVIOUS
<1>1. CASE UNCHANGED msgVars
  BY <1>1, CInvSame
<1>2. CASE panic /\ UNCHANGED <<portVars, poolVars>>
  <2>1. UNCHANGED msgVars
    BY <1>2 DEF panic, msgVars
  <2> QED BY <2>1, CInvSame
<1>3. ASSUME NEW p \in Procs, MsgStep(p) PROVE CInv'
  BY <1>3, CInvStep
<1> QED BY <1>1, <1>2, <1>3 DEF MsgNext

LEMMA CInvCorrect == MsgSpec => []CInv
<1>1. MsgInit => CInv
  BY CInvInit
<1>2. CInv /\ [MsgNext]_msgVars => CInv'
  BY CInvNext
<1> QED BY <1>1, <1>2, PTL DEF MsgSpec

\* Who is meant for a unit and does not wait has been promised one.
LEMMA Promised ==
  ASSUME TInv, NEW u \in Uses, Live(u), OnQueue(semtab, SemOf(u)) \subseteq Serving(u)
  PROVE  /\ Pos(Count(u)) + Cardinality({p \in Serving(u) : ~Waiting(p)}) = Owing(u)
         /\ Cardinality(OnQueue(semtab, SemOf(u))) = WaitCount(Count(u))
         /\ {p \in Serving(u) : Waiting(p)} = OnQueue(semtab, SemOf(u))
<1> DEFINE s == SemOf(u)
<1>1. s \in SemIds /\ SemTable(semtab) /\ Count(u) \in Int
  BY CountTypes DEF TInv, MInv, MsgTypes
<1>2. ASSUME NEW p \in Serving(u) PROVE Waiting(p) <=> p \in OnQueue(semtab, s)
  <2>1. p \in Procs /\ Using(call[p]) /\ UseOf(call[p]) = u
    BY <1>2 DEF Serving, UsersOf
  <2>2. \A r \in SemIds : p \in OnQueue(semtab, r) => r = s
    BY <2>1 DEF TInv, MInv, OwnInv
  <2> QED BY <1>1, <2>2, WaitingNext
<1>3. {p \in Serving(u) : ~Waiting(p)} = Serving(u) \ OnQueue(semtab, s)
  BY <1>2
<1>4. {p \in Serving(u) : Waiting(p)} = OnQueue(semtab, s)
  BY <1>2
<1>5. IsFiniteSet(Serving(u))
  BY ServingTypes
<1> HIDE DEF s
<1>6. OnQueue(semtab, s) \subseteq Serving(u)
  BY DEF s
<1>7. (IF semtab[s].count > 0 THEN semtab[s].count ELSE 0)
         + Cardinality(Serving(u) \ OnQueue(semtab, s)) = semtab[s].count + Cardinality(Serving(u))
  BY <1>1, <1>5, <1>6, Owed
<1>8. Cardinality(OnQueue(semtab, s)) = WaitCount(semtab[s].count)
  BY <1>1, SemWaiters
<1>9. Count(u) = semtab[s].count
  BY DEF Count, s
<1>10. Owing(u) = semtab[s].count + Cardinality(Serving(u))
         /\ Pos(Count(u)) = IF semtab[s].count > 0 THEN semtab[s].count ELSE 0
  BY <1>9 DEF Owing, Pos
<1>11. Pos(Count(u)) + Cardinality({p \in Serving(u) : ~Waiting(p)}) = Owing(u)
  BY <1>3, <1>7, <1>10
<1>12. Cardinality(OnQueue(semtab, s)) = WaitCount(Count(u))
  BY <1>8, <1>9
<1> QED BY <1>4, <1>11, <1>12 DEF s

\* Callers wait for the present incarnation of a port that is in use.
LEMMA PortWaiters ==
  ASSUME TInv, NEW i \in PortIds, porttab[i].ptstate = PT_ALLOC,
         NEW u \in {SendUse(i), RecvUse(i)}, Live(u)
  PROVE  OnQueue(semtab, SemOf(u)) \subseteq Serving(u)
<1> SUFFICES ASSUME NEW p \in OnQueue(semtab, SemOf(u)) PROVE p \in Serving(u)
  OBVIOUS
<1>1. u \in Uses
  BY UseNames
<1>2. p \in UsersOf(u) /\ SemOf(u) \in SemIds
  BY <1>1, CountTypes DEF TInv, MInv, OwnInv
<1>3. Waiting(p)
  BY <1>2, WaitingNext
<1>4. call[p].op \in {"ptsend", "ptrecv"} /\ call[p].port = i /\ p \in Procs
  BY <1>2 DEF UsersOf, Using, UseOf, SendUse, RecvUse
<1>5. Fresh(call[p])
  BY <1>3, <1>4 DEF TInv, MInv, WaitInv, PT_ALLOC, PT_LIMBO
<1> QED BY <1>2, <1>5 DEF Serving

LEMMA PoolWaiters ==
  ASSUME TInv, NEW k \in PoolIds, k < nbpools
  PROVE  /\ OnQueue(semtab, SemOf(PoolUse(k))) \subseteq Serving(PoolUse(k))
         /\ Serving(PoolUse(k)) = {p \in Procs : call[p].op = "getbuf" /\ call[p].pool = k}
<1> DEFINE u == PoolUse(k)
<1>1. u \in Uses /\ Live(u)
  BY UseNames, UseFacts
<1>2. OnQueue(semtab, SemOf(u)) \subseteq UsersOf(u)
  BY <1>1 DEF TInv, MInv, OwnInv
<1>3. \A p \in UsersOf(u) : call[p].op = "getbuf"
  BY DEF UsersOf, UseOf, PoolUse
<1>4. Serving(u) = UsersOf(u)
  BY <1>3 DEF Serving
<1>5. UsersOf(u) = {p \in Procs : call[p].op = "getbuf" /\ call[p].pool = k}
  BY DEF UsersOf, UseOf, PoolUse, Using
<1> QED BY <1>2, <1>4, <1>5

\* getbuf() finds a buffer whenever its wait() returns (getbuf.c:30), and as long as
\* nobody is killed in a call, every buffer on the list is counted or promised.
THEOREM BuffersCoveredCorrect == MsgSpec => []BuffersCovered
<1>1. CInv => BuffersCovered
  <2> SUFFICES ASSUME CInv, NEW k \in 0..(nbpools - 1)
               PROVE  LET owed == Pos(semtab[buftab[k].bpsem].count)
                            + Cardinality({p \in Procs : /\ ~Waiting(p) /\ call[p].op = "getbuf"
                                                         /\ call[p].pool = k})
                      IN  /\ owed <= Len(buftab[k].bpnext)
                          /\ kills = 0 => owed = Len(buftab[k].bpnext)
    BY DEF BuffersCovered
  <2>1. TInv /\ k \in PoolIds /\ k < nbpools /\ PoolSound(k)
    BY PoolAssumption DEF CInv, CountInv, TInv, MInv, MsgTypes, PoolIds
  <2>2. PoolUse(k) \in Uses /\ Live(PoolUse(k)) /\ Count(PoolUse(k)) = semtab[buftab[k].bpsem].count
    BY <2>1, UseNames, UseFacts DEF Count
  <2>3. /\ OnQueue(semtab, SemOf(PoolUse(k))) \subseteq Serving(PoolUse(k))
        /\ Serving(PoolUse(k)) = {p \in Procs : call[p].op = "getbuf" /\ call[p].pool = k}
    BY <2>1, PoolWaiters
  <2>4. Pos(Count(PoolUse(k))) + Cardinality({p \in Serving(PoolUse(k)) : ~Waiting(p)})
          = Owing(PoolUse(k))
    BY <2>1, <2>2, <2>3, Promised
  <2>5. {p \in Serving(PoolUse(k)) : ~Waiting(p)}
          = {p \in Procs : /\ ~Waiting(p) /\ call[p].op = "getbuf" /\ call[p].pool = k}
    BY <2>3
  <2> QED BY <2>1, <2>2, <2>4, <2>5 DEF PoolSound
<1> QED BY <1>1, CInvCorrect, PTL

\* A port's semaphores say how much room it has and how many messages nobody has been
\* promised, through sends, receives, resets and calls that resume too late; room and
\* messages are lost to the death of a process only, and ptcount() returns what is so
\* (ptsend.c:31, ptrecv.c:36, ptclear.c:40, ptcount.c:31).
THEOREM PortsAccountedCorrect ==
  ASSUME PortCounts \subseteq 0..U16MAX
  PROVE  MsgSpec => []PortsAccounted
<1>1. ASSUME CInv, NEW i \in PortIds, Working(i)
      PROVE  LET e == porttab[i]
                 messages == Len(e.ptmsgs)
                 owed == Pos(semtab[e.ptrsem].count) + Cardinality(Granted("ptrecv", i))
                 room == Pos(semtab[e.ptssem].count) + Cardinality(Granted("ptsend", i))
                 receivers == Cardinality(Blocked("ptrecv", i))
             IN  /\ owed <= messages /\ room + messages <= e.ptmaxcnt
                 /\ kills = 0 =>
                      /\ owed = messages /\ room + messages = e.ptmaxcnt
                      /\ ptcount(i) =
                           IF receivers > 0 THEN -receivers
                           ELSE messages - Cardinality(Granted("ptrecv", i))
                                + Cardinality(Blocked("ptsend", i))
  <2> DEFINE su == SendUse(i)
             ru == RecvUse(i)
             sent == Count(su)
             received == Count(ru)
             messages == Len(porttab[i].ptmsgs)
             gs == Cardinality(Granted("ptsend", i))
             gr == Cardinality(Granted("ptrecv", i))
             bs == Cardinality(Blocked("ptsend", i))
             br == Cardinality(Blocked("ptrecv", i))
  <2>1. TInv /\ PortSound(i) /\ CountsFit
    BY <1>1 DEF CInv, CountInv, CountsFit
  <2>2. /\ ~panicked /\ porttab[i].ptstate = PT_ALLOC
        /\ porttab[i].ptssem # SYSERR /\ porttab[i].ptrsem # SYSERR
    BY <1>1 DEF Working
  <2>3. su \in Uses /\ Live(su) /\ ru \in Uses /\ Live(ru)
    BY <2>2, LiveUses
  <2>4. sent = semtab[porttab[i].ptssem].count /\ received = semtab[porttab[i].ptrsem].count
    BY UseFacts DEF Count
  <2>5. \A p \in Procs : /\ p \in Serving(su) <=>
                              call[p].op = "ptsend" /\ call[p].port = i /\ Fresh(call[p])
                         /\ p \in Serving(ru) <=>
                              call[p].op = "ptrecv" /\ call[p].port = i /\ Fresh(call[p])
    BY DEF Serving, UsersOf, UseOf, Using, SendUse, RecvUse
  <2>6. /\ OnQueue(semtab, SemOf(su)) \subseteq Serving(su)
        /\ OnQueue(semtab, SemOf(ru)) \subseteq Serving(ru)
    BY <2>1, <2>2, <2>3, PortWaiters
  <2>7. Granted("ptsend", i) = {p \in Serving(su) : ~Waiting(p)}
           /\ Granted("ptrecv", i) = {p \in Serving(ru) : ~Waiting(p)}
    <3>1. Serving(su) \subseteq Procs /\ Serving(ru) \subseteq Procs
      BY DEF Serving, UsersOf
    <3> HIDE DEF su, ru
    <3> QED BY <2>5, <3>1 DEF Granted
  <2>8. Blocked("ptsend", i) = OnQueue(semtab, SemOf(su))
           /\ Blocked("ptrecv", i) = OnQueue(semtab, SemOf(ru))
    <3>1. \A p \in Procs : Waiting(p) /\ call[p].op \in {"ptsend", "ptrecv"} /\ call[p].port = i
            => Fresh(call[p])
      BY <2>1, <2>2 DEF TInv, MInv, WaitInv, PT_ALLOC, PT_LIMBO
    <3>2. Serving(su) \subseteq Procs /\ Serving(ru) \subseteq Procs
      BY DEF Serving, UsersOf
    <3>3. {p \in Serving(su) : Waiting(p)} = OnQueue(semtab, SemOf(su))
             /\ {p \in Serving(ru) : Waiting(p)} = OnQueue(semtab, SemOf(ru))
      BY <2>1, <2>3, <2>6, Promised
    <3> HIDE DEF su, ru
    <3>4. Blocked("ptsend", i) = {p \in Serving(su) : Waiting(p)}
      BY <2>5, <3>1, <3>2 DEF Blocked
    <3>5. Blocked("ptrecv", i) = {p \in Serving(ru) : Waiting(p)}
      BY <2>5, <3>1, <3>2 DEF Blocked
    <3> QED BY <3>3, <3>4, <3>5
  <2>9. Pos(sent) + gs = Owing(su) /\ Pos(received) + gr = Owing(ru)
           /\ bs = WaitCount(sent) /\ br = WaitCount(received)
    BY <2>1, <2>3, <2>6, <2>7, <2>8, Promised
  <2>10. sent \in Int /\ received \in Int /\ messages \in Nat /\ gs \in Nat /\ gr \in Nat
            /\ porttab[i].ptmaxcnt \in Nat
    <3>1. IsFiniteSet(Serving(su)) /\ IsFiniteSet(Serving(ru))
      BY ServingTypes
    <3>2. Granted("ptsend", i) \in SUBSET Serving(su) /\ Granted("ptrecv", i) \in SUBSET Serving(ru)
      BY <2>7
    <3>3. gs \in Nat /\ gr \in Nat
      BY <3>1, <3>2, FS_Subset, FS_CardinalityType
    <3> QED BY <2>1, <2>2, <2>3, <3>3, CountTypes, PortTypesNow
  <2>11. /\ Owing(su) + messages <= porttab[i].ptmaxcnt /\ Owing(ru) <= messages
         /\ kills = 0 => Owing(su) + messages = porttab[i].ptmaxcnt /\ Owing(ru) = messages
    <3>1. Owing(su) \in Int /\ Owing(ru) \in Int
      BY <2>1, <2>3, CountTypes
    <3> QED BY <2>1, <2>2, <2>10, <3>1 DEF PortSound, Spare, Surplus, Exact
  <2>12. ptcount(i) = IF received >= 0 /\ sent < 0 THEN received - sent ELSE received
    BY <2>4 DEF ptcount
  <2> HIDE DEF sent, received, messages, gs, gr, bs, br
  <2>13. kills = 0 => ptcount(i) = IF br > 0 THEN -br ELSE messages - gr + bs
    BY <2>9, <2>10, <2>11, <2>12 DEF Pos, WaitCount
  <2>14. /\ Pos(received) + gr <= messages /\ Pos(sent) + gs + messages <= porttab[i].ptmaxcnt
         /\ kills = 0 => /\ Pos(received) + gr = messages
                         /\ Pos(sent) + gs + messages = porttab[i].ptmaxcnt
    BY <2>9, <2>11
  <2> USE DEF gs, gr, bs, br, messages
  <2> QED BY <2>4, <2>13, <2>14
<1>2. CInv => PortsAccounted
  BY <1>1 DEF PortsAccounted
<1> QED BY <1>2, CInvCorrect, PTL

-----------------------------------------------------------------------------
(* Ports are channels                                                      *)

\* The channel that a port is.
ChannelOf(e) == [open |-> e.ptstate = PT_ALLOC, inc |-> e.ptseq,
                 size |-> e.ptmaxcnt, items |-> e.ptmsgs]
Channels == [i \in PortIds |-> ChannelOf(porttab[i])]
Sending(i) == [op |-> "send", chan |-> i, inc |-> porttab[i].ptseq]
Receiving(i) == [op |-> "recv", chan |-> i, inc |-> porttab[i].ptseq]
Nothing == [op |-> "none"]

\* Process p is in abstract call c after the step, and the others in theirs.
Now(p, c) ==
  /\ AbstractCall(call'[p]) = c
  /\ \A q \in Procs : q # p => call'[q] = call[q]

LEMMA ChannelItems ==
  ASSUME NEW e, NEW f,
         f.ptstate = e.ptstate, f.ptseq = e.ptseq, f.ptmaxcnt = e.ptmaxcnt
  PROVE  ChannelOf(f) = [ChannelOf(e) EXCEPT !.items = f.ptmsgs]
BY DEF ChannelOf

LEMMA ChannelClosed ==
  ASSUME NEW e, NEW f, f.ptstate = PT_LIMBO, f.ptseq = e.ptseq + 1,
         f.ptmaxcnt = e.ptmaxcnt, f.ptmsgs = e.ptmsgs
  PROVE  ChannelOf(f) = [ChannelOf(e) EXCEPT !.open = FALSE, !.inc = ChannelOf(e).inc + 1]
<1>1. ~(f.ptstate = PT_ALLOC)
  BY DEF PT_ALLOC, PT_LIMBO
<1>2. ChannelOf(f)
        = [open |-> FALSE, inc |-> e.ptseq + 1, size |-> e.ptmaxcnt, items |-> e.ptmsgs]
  BY <1>1, Zenon DEF ChannelOf
<1>3. ChannelOf(e).inc = e.ptseq
  BY Zenon DEF ChannelOf
<1>4. PICK r, o, n, s, q, m :
        /\ r = ChannelOf(e) /\ o = (e.ptstate = PT_ALLOC) /\ n = e.ptseq /\ s = e.ptmaxcnt
        /\ q = e.ptmsgs /\ m = n + 1
  OBVIOUS
<1>5. r = [open |-> o, inc |-> n, size |-> s, items |-> q]
  BY <1>4, Zenon DEF ChannelOf
<1>6. PICK y, c : y = FALSE /\ c = [r EXCEPT !.open = y]
  OBVIOUS
<1>7. c = [open |-> y, inc |-> n, size |-> s, items |-> q]
  BY ONLY <1>5, <1>6
<1>8. [c EXCEPT !.inc = m] = [open |-> y, inc |-> m, size |-> s, items |-> q]
  BY ONLY <1>7
<1>9. [r EXCEPT !.open = y, !.inc = m] = [c EXCEPT !.inc = m]
  BY ONLY <1>6
<1>10. ChannelOf(f) = [open |-> y, inc |-> m, size |-> s, items |-> q]
  BY <1>2, <1>4, <1>6, Zenon
<1> QED BY <1>3, <1>4, <1>6, <1>8, <1>9, <1>10, Zenon

LEMMA AbsPut ==
  ASSUME porttab \in [PortIds -> PortEntries], NEW p \in Procs, NEW i \in PortIds, NEW m \in Bufs,
         porttab[i].ptstate = PT_ALLOC, Len(porttab[i].ptmsgs) < porttab[i].ptmaxcnt,
         porttab' = [porttab EXCEPT ![i].ptmsgs = Append(@, m)],
         AbstractCall(call[p]) \in {Nothing, Sending(i)}, Now(p, Nothing)
  PROVE  Channel!Put(p, i, m)
<1>1. porttab' = [porttab EXCEPT ![i] = [porttab[i] EXCEPT !.ptmsgs = Append(porttab[i].ptmsgs, m)]]
         /\ ChannelOf(porttab[i]).items = porttab[i].ptmsgs
  BY DEF ChannelOf
<1>2. Channel!Takes(p, "send", i)
  BY DEF Channel!Takes, Channel!Waits, Channel!NoCall, Nothing, Sending, Now
<1>3. \A j \in PortIds : ChannelOf(porttab'[j]) =
        IF j = i THEN [ChannelOf(porttab[i]) EXCEPT !.items = Append(ChannelOf(porttab[i]).items, m)]
        ELSE ChannelOf(porttab[j])
  <2>1. ASSUME NEW j \in PortIds, j # i PROVE porttab'[j] = porttab[j]
    BY <1>1, <2>1
  <2>2. porttab'[i].ptstate = porttab[i].ptstate /\ porttab'[i].ptseq = porttab[i].ptseq
           /\ porttab'[i].ptmaxcnt = porttab[i].ptmaxcnt
           /\ porttab'[i].ptmsgs = Append(porttab[i].ptmsgs, m)
    BY <1>1 DEF PortEntries
  <2>3. ChannelOf(porttab'[i])
          = [ChannelOf(porttab[i]) EXCEPT !.items = porttab'[i].ptmsgs]
    BY ONLY <2>2, ChannelItems
  <2>4. ChannelOf(porttab'[i])
          = [ChannelOf(porttab[i]) EXCEPT !.items = Append(ChannelOf(porttab[i]).items, m)]
    BY <1>1, <2>2, <2>3, Zenon
  <2>5. ASSUME NEW j \in PortIds, j = i
        PROVE  ChannelOf(porttab'[j])
                 = [ChannelOf(porttab[i]) EXCEPT !.items = Append(ChannelOf(porttab[i]).items, m)]
    BY <2>4, <2>5, Zenon
  <2>6. ASSUME NEW j \in PortIds, j # i PROVE ChannelOf(porttab'[j]) = ChannelOf(porttab[j])
    BY <2>1, <2>6, Zenon
  <2> QED BY <2>5, <2>6
<1>4. Channels' = [Channels EXCEPT ![i].items = Append(@, m)]
  BY <1>3 DEF Channels
<1>5. Channels[i].open /\ Len(Channels[i].items) < Channels[i].size
  BY <1>1 DEF Channels, ChannelOf
<1> QED BY <1>2, <1>4, <1>5, Zenon DEF Channel!Put, Channels, ChannelOf

LEMMA AbsGet ==
  ASSUME porttab \in [PortIds -> PortEntries], NEW p \in Procs, NEW i \in PortIds,
         porttab[i].ptstate = PT_ALLOC, porttab[i].ptmsgs # <<>>,
         porttab' = [porttab EXCEPT ![i].ptmsgs = Tail(@)],
         AbstractCall(call[p]) \in {Nothing, Receiving(i)}, Now(p, Nothing)
  PROVE  Channel!Get(p, i)
<1>1. porttab' = [porttab EXCEPT ![i] = [porttab[i] EXCEPT !.ptmsgs = Tail(porttab[i].ptmsgs)]]
         /\ ChannelOf(porttab[i]).items = porttab[i].ptmsgs
  BY DEF ChannelOf
<1>2. Channel!Takes(p, "recv", i)
  BY DEF Channel!Takes, Channel!Waits, Channel!NoCall, Nothing, Receiving, Now
<1>3. \A j \in PortIds : ChannelOf(porttab'[j]) =
        IF j = i THEN [ChannelOf(porttab[i]) EXCEPT !.items = Tail(ChannelOf(porttab[i]).items)]
        ELSE ChannelOf(porttab[j])
  <2>1. ASSUME NEW j \in PortIds, j # i PROVE porttab'[j] = porttab[j]
    BY <1>1, <2>1
  <2>2. porttab'[i].ptstate = porttab[i].ptstate /\ porttab'[i].ptseq = porttab[i].ptseq
           /\ porttab'[i].ptmaxcnt = porttab[i].ptmaxcnt
           /\ porttab'[i].ptmsgs = Tail(porttab[i].ptmsgs)
    BY <1>1 DEF PortEntries
  <2>3. ChannelOf(porttab'[i])
          = [ChannelOf(porttab[i]) EXCEPT !.items = porttab'[i].ptmsgs]
    BY ONLY <2>2, ChannelItems
  <2>4. ChannelOf(porttab'[i])
          = [ChannelOf(porttab[i]) EXCEPT !.items = Tail(ChannelOf(porttab[i]).items)]
    BY <1>1, <2>2, <2>3, Zenon
  <2>5. ASSUME NEW j \in PortIds, j = i
        PROVE  ChannelOf(porttab'[j])
                 = [ChannelOf(porttab[i]) EXCEPT !.items = Tail(ChannelOf(porttab[i]).items)]
    BY <2>4, <2>5, Zenon
  <2>6. ASSUME NEW j \in PortIds, j # i PROVE ChannelOf(porttab'[j]) = ChannelOf(porttab[j])
    BY <2>1, <2>6, Zenon
  <2> QED BY <2>5, <2>6
<1>4. Channels' = [Channels EXCEPT ![i].items = Tail(@)]
  BY <1>3 DEF Channels
<1>5. Channels[i].items # <<>>
  BY <1>1 DEF Channels
<1> QED BY <1>2, <1>4, <1>5, Zenon DEF Channel!Get, Channels, ChannelOf

LEMMA AbsBegin ==
  ASSUME porttab \in [PortIds -> PortEntries], NEW p \in Procs, NEW i \in PortIds,
         porttab[i].ptstate = PT_ALLOC, porttab' = porttab,
         AbstractCall(call[p]) = Nothing, NEW op \in {"send", "recv"},
         Now(p, [op |-> op, chan |-> i, inc |-> porttab[i].ptseq])
  PROVE  Channel!Begin(p, op, i)
BY DEF Channel!Begin, Channel!Waits, Channel!NoCall, Nothing, Now

LEMMA AbsGiveUp ==
  ASSUME NEW p \in Procs, porttab' = porttab, Now(p, Nothing)
  PROVE  Channel!GiveUp(p)
BY DEF Channel!GiveUp, Channel!NoCall, Nothing, Now

\* No call begins or ends, as channels see it.
SameCalls == \A q \in Procs : AbstractCall(call'[q]) = AbstractCall(call[q])

LEMMA AbsClose ==
  ASSUME porttab \in [PortIds -> PortEntries], NEW i \in PortIds,
         porttab[i].ptstate = PT_ALLOC,
         porttab' = [porttab EXCEPT ![i].ptstate = PT_LIMBO, ![i].ptseq = @ + 1],
         SameCalls
  PROVE  Channel!Close(i)
<1>1. \A j \in PortIds : porttab'[j] =
        IF j = i THEN [porttab[i] EXCEPT !.ptstate = PT_LIMBO, !.ptseq = porttab[i].ptseq + 1]
        ELSE porttab[j]
  OBVIOUS
<1>2. \A j \in PortIds : ChannelOf(porttab'[j]) =
        IF j = i THEN [ChannelOf(porttab[i]) EXCEPT !.open = FALSE,
                                                    !.inc = ChannelOf(porttab[i]).inc + 1]
        ELSE ChannelOf(porttab[j])
  <2>1. PICK e : e = porttab[i]
    OBVIOUS
  <2>2. e \in PortEntries /\ porttab'[i] = [e EXCEPT !.ptstate = PT_LIMBO, !.ptseq = e.ptseq + 1]
    BY <1>1, <2>1
  <2>3. /\ porttab'[i].ptstate = PT_LIMBO /\ porttab'[i].ptseq = e.ptseq + 1
        /\ porttab'[i].ptmaxcnt = e.ptmaxcnt /\ porttab'[i].ptmsgs = e.ptmsgs
    BY <2>2 DEF PortEntries
  <2>4. ChannelOf(porttab'[i]) = [ChannelOf(e) EXCEPT !.open = FALSE, !.inc = ChannelOf(e).inc + 1]
    BY ONLY <2>3, ChannelClosed
  <2>5. ChannelOf(porttab'[i]) = [ChannelOf(porttab[i]) EXCEPT !.open = FALSE,
                                                !.inc = ChannelOf(porttab[i]).inc + 1]
    BY <2>1, <2>4, Zenon
  <2>6. \A j \in PortIds : j # i => porttab'[j] = porttab[j]
    BY <1>1
  <2>7. ASSUME NEW j \in PortIds, j = i
        PROVE  ChannelOf(porttab'[j]) = [ChannelOf(porttab[i]) EXCEPT !.open = FALSE,
                                                !.inc = ChannelOf(porttab[i]).inc + 1]
    BY <2>5, <2>7, Zenon
  <2>8. ASSUME NEW j \in PortIds, j # i PROVE ChannelOf(porttab'[j]) = ChannelOf(porttab[j])
    BY <2>6, <2>8, Zenon
  <2> QED BY <2>7, <2>8
<1>3. Channels' = [Channels EXCEPT ![i].open = FALSE, ![i].inc = @ + 1]
  BY <1>2 DEF Channels
<1>4. Channels[i].open
  BY DEF Channels, ChannelOf
<1> QED BY <1>3, <1>4, Zenon DEF Channel!Close, Channels, ChannelOf, SameCalls

LEMMA AbsEmpty ==
  ASSUME porttab \in [PortIds -> PortEntries], NEW i \in PortIds,
         porttab[i].ptstate # PT_ALLOC, porttab' = [porttab EXCEPT ![i].ptmsgs = <<>>],
         SameCalls
  PROVE  Channel!Empty(i)
<1>1. \A j \in PortIds : porttab'[j] =
        IF j = i THEN [porttab[i] EXCEPT !.ptmsgs = <<>>] ELSE porttab[j]
  OBVIOUS
<1>2. \A j \in PortIds : ChannelOf(porttab'[j]) =
        IF j = i THEN [ChannelOf(porttab[i]) EXCEPT !.items = <<>>] ELSE ChannelOf(porttab[j])
  BY <1>1 DEF ChannelOf, PortEntries
<1> QED BY <1>2 DEF Channel!Empty, ChannelOf, SameCalls

LEMMA AbsReopen ==
  ASSUME porttab \in [PortIds -> PortEntries], NEW i \in PortIds,
         porttab[i].ptmsgs = <<>>, porttab' = [porttab EXCEPT ![i].ptstate = PT_ALLOC],
         SameCalls
  PROVE  Channel!Reopen(i)
<1>1. \A j \in PortIds : porttab'[j] =
        IF j = i THEN [porttab[i] EXCEPT !.ptstate = PT_ALLOC] ELSE porttab[j]
  OBVIOUS
<1>2. \A j \in PortIds : ChannelOf(porttab'[j]) =
        IF j = i THEN [ChannelOf(porttab[i]) EXCEPT !.open = TRUE] ELSE ChannelOf(porttab[j])
  <2>1. ASSUME NEW j \in PortIds, j # i PROVE porttab'[j] = porttab[j]
    BY <1>1, <2>1
  <2>2. porttab'[i].ptstate = PT_ALLOC /\ porttab'[i].ptseq = porttab[i].ptseq
           /\ porttab'[i].ptmaxcnt = porttab[i].ptmaxcnt /\ porttab'[i].ptmsgs = porttab[i].ptmsgs
    BY <1>1 DEF PortEntries
  <2>3. ChannelOf(porttab'[i]) = [ChannelOf(porttab[i]) EXCEPT !.open = TRUE]
    <3> DEFINE o == porttab[i].ptstate = PT_ALLOC
               r == ChannelOf(porttab[i])
    <3>1. PICK x : x = TRUE
      OBVIOUS
    <3>2. ChannelOf(porttab'[i]) = [open |-> x, inc |-> porttab[i].ptseq,
                                    size |-> porttab[i].ptmaxcnt, items |-> porttab[i].ptmsgs]
      BY <2>2, <3>1 DEF ChannelOf
    <3>3. r = [open |-> o, inc |-> porttab[i].ptseq,
               size |-> porttab[i].ptmaxcnt, items |-> porttab[i].ptmsgs]
      BY DEF ChannelOf
    <3> HIDE DEF o, r
    <3>4. ChannelOf(porttab'[i]) = [r EXCEPT !.open = x]
      BY <3>2, <3>3
    <3> USE DEF r
    <3> QED BY <3>1, <3>4, Zenon
  <2> QED BY <2>1, <2>3
<1> QED BY <1>2 DEF Channel!Reopen, ChannelOf, SameCalls

LEMMA AbsCreate ==
  ASSUME porttab \in [PortIds -> PortEntries], NEW i \in PortIds,
         porttab[i].ptstate # PT_ALLOC,
         \A j \in PortIds : j # i => porttab'[j] = porttab[j],
         porttab'[i].ptstate = PT_ALLOC, porttab'[i].ptseq = porttab[i].ptseq + 1,
         porttab'[i].ptmsgs = <<>>, SameCalls
  PROVE  Channel!Create(i)
<1>1. \A j \in PortIds : ChannelOf(porttab'[j]) =
        IF j = i THEN [open |-> TRUE, inc |-> porttab[i].ptseq + 1,
                       size |-> porttab'[i].ptmaxcnt, items |-> <<>>]
        ELSE ChannelOf(porttab[j])
  BY DEF ChannelOf
<1> QED BY <1>1 DEF Channel!Create, ChannelOf, SameCalls

\* What there is to see of ports as channels, and of the calls on them.
Seen == <<[i \in PortIds |-> [open |-> porttab[i].ptstate = PT_ALLOC, inc |-> porttab[i].ptseq,
                             size |-> porttab[i].ptmaxcnt, items |-> porttab[i].ptmsgs]],
          [p \in Procs |-> AbstractCall(call[p])]>>

LEMMA AbsStutter ==
  ASSUME porttab \in [PortIds -> PortEntries],
         \A j \in PortIds : ChannelOf(porttab'[j]) = ChannelOf(porttab[j]), SameCalls
  PROVE  UNCHANGED Seen
BY DEF ChannelOf, SameCalls, Seen

LEMMA AbstractCalls ==
  ASSUME NEW c \in CallRecords
  PROVE  /\ c.op = "ptsend" => AbstractCall(c) = [op |-> "send", chan |-> c.port, inc |-> c.seq]
         /\ c.op = "ptrecv" => AbstractCall(c) = [op |-> "recv", chan |-> c.port, inc |-> c.seq]
         /\ c.op \notin {"ptsend", "ptrecv"} => AbstractCall(c) = Nothing
         /\ AbstractCall(Idle) = Nothing
BY DEF AbstractCall, Nothing, Idle

\* A port has room for the message of a sender who need not wait, or who waits no more.
LEMMA RoomNow ==
  ASSUME CInv, CountsFit, NEW i \in PortIds,
         porttab[i].ptstate = PT_ALLOC, porttab[i].ptssem # SYSERR, Owing(SendUse(i)) > 0
  PROVE  Len(porttab[i].ptmsgs) < porttab[i].ptmaxcnt
<1>1. Owing(SendUse(i)) \in Int /\ porttab[i].ptmaxcnt \in Nat /\ Len(porttab[i].ptmsgs) \in Nat
  BY PortTypesNow DEF CInv
<1>2. Owing(SendUse(i)) + Len(porttab[i].ptmsgs) <= porttab[i].ptmaxcnt
  BY DEF CInv, CountInv, PortSound, Spare
<1> QED BY <1>1, <1>2

LEMMA DepositChannel ==
  ASSUME porttab \in [PortIds -> PortEntries], NEW p \in Procs, NEW i \in PortIds, NEW m \in Bufs,
         NEW t, deposit(t, i, m),
         porttab[i].ptstate = PT_ALLOC, Len(porttab[i].ptmsgs) < porttab[i].ptmaxcnt,
         AbstractCall(call[p]) \in {Nothing, Sending(i)}, Now(p, Nothing)
  PROVE  Channel!Put(p, i, m) \/ Channel!GiveUp(p)
<1>1. CASE porttab' = porttab
  BY <1>1, AbsGiveUp
<1>2. CASE porttab' = [porttab EXCEPT ![i].ptmsgs = Append(@, m)]
  BY <1>2, AbsPut
<1> QED BY <1>1, <1>2 DEF deposit

\* A message that is sent has room.
LEMMA SendNowRoom ==
  ASSUME CInv, CountsFit, NEW p \in Procs, NEW i \in PortIds, NEW m \in Bufs, ptsend_now(p, i, m)
  PROVE  porttab[i].ptstate = PT_ALLOC /\ Len(porttab[i].ptmsgs) < porttab[i].ptmaxcnt
<1>1. TInv
  BY DEF CInv
<1> DEFINE s == porttab[i].ptssem
<1>2. porttab[i].ptstate = PT_ALLOC /\ isused(semtab, s) /\ semtab[s].count > 0
  BY DEF ptsend_now
<1>3. s # SYSERR
  BY <1>2 DEF isused, SemIds, SYSERR
<1>4. SendUse(i) \in Uses /\ Live(SendUse(i))
  BY <1>2, <1>3, LiveUses
<1>5. Owing(SendUse(i)) > 0
  <2>1. Count(SendUse(i)) \in Int /\ Count(SendUse(i)) > 0
    BY <1>1, <1>2, <1>4, CountTypes, UseFacts DEF Count
  <2> QED BY <2>1, ServingTypes DEF Owing
<1>6. Len(porttab[i].ptmsgs) < porttab[i].ptmaxcnt
  BY <1>2, <1>3, <1>5, RoomNow
<1> QED BY <1>2, <1>6

LEMMA SendResumeRoom ==
  ASSUME CInv, CountsFit, NEW p \in Procs, NEW i \in PortIds, i = call[p].port, ptsend_resume(p)
  PROVE  porttab[i].ptstate = PT_ALLOC /\ Len(porttab[i].ptmsgs) < porttab[i].ptmaxcnt
<1>1. TInv
  BY DEF CInv
<1>2. call[p].op = "ptsend" /\ Fresh(call[p]) /\ ~Waiting(p)
  BY DEF ptsend_resume, Resumes, Runs
<1>3. porttab[i].ptstate = PT_ALLOC
  BY <1>2 DEF Fresh
<1>4. porttab[i].ptssem # SYSERR
  BY <1>1, <1>2 DEF TInv, MInv, FreshInv
<1>5. SendUse(i) \in Uses /\ Live(SendUse(i))
  BY <1>3, <1>4, LiveUses
<1>6. Owing(SendUse(i)) > 0
  <2> DEFINE S == {q \in Serving(SendUse(i)) : ~Waiting(q)}
  <2>1. OnQueue(semtab, SemOf(SendUse(i))) \subseteq Serving(SendUse(i))
    BY <1>1, <1>3, <1>5, PortWaiters
  <2>2. Pos(Count(SendUse(i))) + Cardinality(S) = Owing(SendUse(i))
    BY <1>1, <1>5, <2>1, Promised
  <2>3. p \in S
    BY <1>2, UseFacts DEF Serving, UsersOf
  <2>4. IsFiniteSet(S) /\ Cardinality(S) \in Nat
    BY ServingTypes, FS_Subset, FS_CardinalityType
  <2>5. Cardinality(S) # 0
    BY <2>3, <2>4, FS_EmptySet
  <2>6. Count(SendUse(i)) \in Int
    BY <1>1, <1>5, CountTypes
  <2> HIDE DEF S
  <2> DEFINE c == Count(SendUse(i))
             o == Owing(SendUse(i))
             n == Cardinality(S)
  <2>7. Pos(c) + n = o /\ n \in Nat /\ n # 0 /\ c \in Int
    BY <2>2, <2>4, <2>5, <2>6
  <2> HIDE DEF c, o, n
  <2>8. o > 0
    BY <2>7 DEF Pos
  <2> QED BY <2>8 DEF o
<1>7. Len(porttab[i].ptmsgs) < porttab[i].ptmaxcnt
  BY <1>3, <1>4, <1>6, RoomNow
<1> QED BY <1>3, <1>7

LEMMA SendNowChannel ==
  ASSUME CInv, CountsFit, NEW p \in Procs, NEW i \in PortIds, NEW m \in Bufs, ptsend_now(p, i, m)
  PROVE  Channel!Put(p, i, m) \/ Channel!GiveUp(p)
<1>1. TInv /\ porttab \in [PortIds -> PortEntries] /\ call \in [Procs -> CallRecords]
  BY DEF CInv, TInv, MInv, MsgTypes
<1>2. PICK t : t = wait(semtab, porttab[i].ptssem, p)
  OBVIOUS
<1>3. call[p] = Idle /\ call' = call /\ deposit(t, i, m)
  BY <1>2 DEF ptsend_now, InUser
<1>4. porttab[i].ptstate = PT_ALLOC /\ Len(porttab[i].ptmsgs) < porttab[i].ptmaxcnt
  BY SendNowRoom
<1>5. AbstractCall(call[p]) = Nothing /\ Now(p, Nothing)
  BY <1>1, <1>3, AbstractCalls DEF Now
<1> QED BY <1>1, <1>3, <1>4, <1>5, DepositChannel

LEMMA SendResumeChannel ==
  ASSUME CInv, CountsFit, NEW p \in Procs, ptsend_resume(p)
  PROVE  \E i \in PortIds, m \in Bufs : Channel!Put(p, i, m) \/ Channel!GiveUp(p)
<1>1. TInv /\ porttab \in [PortIds -> PortEntries] /\ call \in [Procs -> CallRecords]
  BY DEF CInv, TInv, MInv, MsgTypes
<1>0. PICK i \in PortIds, m \in Bufs : i = call[p].port /\ m = call[p].msg
  BY <1>1, CallKinds DEF SendCalls, ptsend_resume, Resumes
<1>t. PICK t : t = semtab
  OBVIOUS
<1>2. call[p].op = "ptsend" /\ Fresh(call[p]) /\ deposit(t, i, m) /\ Return(p)
  BY <1>0, <1>t DEF ptsend_resume, Resumes
<1>3. porttab[i].ptstate = PT_ALLOC /\ Len(porttab[i].ptmsgs) < porttab[i].ptmaxcnt
  BY <1>0, SendResumeRoom
<1>4. call[p].seq = porttab[i].ptseq
  BY <1>0, <1>2 DEF Fresh
<1>5. AbstractCall(call[p]) = Sending(i) /\ Now(p, Nothing)
  BY <1>0, <1>1, <1>2, <1>3, <1>4, AbstractCalls DEF Now, Return, Sending
<1>6. Channel!Put(p, i, m) \/ Channel!GiveUp(p)
  BY <1>1, <1>2, <1>3, <1>5, DepositChannel
<1> QED BY <1>6

LEMMA ReceiveChannel ==
  ASSUME CInv, NEW p \in Procs, NEW i \in PortIds, ptrecv_now(p, i) \/ (ptrecv_resume(p) /\ call[p].port = i)
  PROVE  Channel!Get(p, i)
<1>1. porttab \in [PortIds -> PortEntries] /\ call \in [Procs -> CallRecords]
  BY DEF CInv, TInv, MInv, MsgTypes
<1>2. CASE ptrecv_now(p, i)
  <2>1. /\ porttab[i].ptstate = PT_ALLOC /\ porttab[i].ptmsgs # <<>>
        /\ porttab' = [porttab EXCEPT ![i].ptmsgs = Tail(@)]
        /\ call[p] = Idle /\ call' = call
    BY <1>2 DEF ptrecv_now, withdrawal, InUser
  <2>2. AbstractCall(call[p]) = Nothing /\ Now(p, Nothing)
    BY <1>1, <2>1, AbstractCalls DEF Now
  <2> QED BY <1>1, <2>1, <2>2, AbsGet
<1>3. CASE ptrecv_resume(p) /\ call[p].port = i
  <2>1. /\ call[p].op = "ptrecv" /\ Fresh(call[p]) /\ Return(p)
        /\ porttab[i].ptmsgs # <<>> /\ porttab' = [porttab EXCEPT ![i].ptmsgs = Tail(@)]
    BY <1>3 DEF ptrecv_resume, withdrawal, Resumes
  <2>2. porttab[i].ptstate = PT_ALLOC /\ call[p].seq = porttab[i].ptseq
    BY <1>3, <2>1 DEF Fresh
  <2>3. AbstractCall(call[p]) = Receiving(i) /\ Now(p, Nothing)
    BY <1>1, <1>3, <2>1, <2>2, AbstractCalls DEF Now, Return, Receiving
  <2> QED BY <1>1, <2>1, <2>2, <2>3, AbsGet
<1> QED BY <1>2, <1>3

LEMMA BlockChannel ==
  ASSUME CInv, NEW p \in Procs, NEW i \in PortIds, NEW m \in Bufs \cup {0}, NEW s,
         NEW op \in {"ptsend", "ptrecv"}, blocked(p, op, i, m, s)
  PROVE  \E o \in {"send", "recv"} : Channel!Begin(p, o, i)
<1>1. porttab \in [PortIds -> PortEntries] /\ call \in [Procs -> CallRecords]
  BY DEF CInv, TInv, MInv, MsgTypes
<1>2. /\ call[p] = Idle /\ porttab[i].ptstate = PT_ALLOC /\ porttab' = porttab
      /\ call' = [call EXCEPT ![p] = [op |-> op, port |-> i, seq |-> porttab[i].ptseq, msg |-> m]]
  BY DEF blocked, InUser, portVars
<1>3. PICK o \in {"send", "recv"} :
        AbstractCall([op |-> op, port |-> i, seq |-> porttab[i].ptseq, msg |-> m])
          = [op |-> o, chan |-> i, inc |-> porttab[i].ptseq]
  BY DEF AbstractCall
<1>4. Now(p, [op |-> o, chan |-> i, inc |-> porttab[i].ptseq])
  BY <1>1, <1>2, <1>3 DEF Now
<1> QED BY <1>1, <1>2, <1>4, AbstractCalls, AbsBegin

LEMMA StaleChannel ==
  ASSUME CInv, NEW p \in Procs, porttab' = porttab, Return(p)
  PROVE  Channel!GiveUp(p)
<1>1. call \in [Procs -> CallRecords]
  BY DEF CInv, TInv, MInv, MsgTypes
<1>2. Now(p, Nothing)
  BY <1>1, AbstractCalls DEF Now, Return
<1> QED BY <1>2, AbsGiveUp

LEMMA ClearChannel ==
  ASSUME CInv, NEW p \in Procs, NEW i \in PortIds, NEW newstate, ptclear(p, i, newstate)
  PROVE  Channel!Close(i)
<1>1. porttab \in [PortIds -> PortEntries] /\ call \in [Procs -> CallRecords]
  BY DEF CInv, TInv, MInv, MsgTypes
<1>2. /\ call[p] = Idle /\ porttab[i].ptstate = PT_ALLOC
      /\ porttab' = [porttab EXCEPT ![i].ptstate = PT_LIMBO, ![i].ptseq = @ + 1]
      /\ call' = [call EXCEPT ![p] = [op |-> "dispose", port |-> i, newstate |-> newstate,
                                     walk |-> porttab[i].ptmsgs]]
  BY DEF ptclear, InUser
<1>3. SameCalls
  BY <1>1, <1>2 DEF SameCalls, AbstractCall, Idle
<1> QED BY <1>1, <1>2, <1>3, AbsClose

LEMMA SendersChannel ==
  ASSUME CInv, NEW p \in Procs, ptclear_senders(p)
  PROVE  \E i \in PortIds : Channel!Empty(i)
<1>1. MInv /\ porttab \in [PortIds -> PortEntries] /\ call \in [Procs -> CallRecords]
  BY DEF CInv, TInv, MInv, MsgTypes
<1>2. call[p].op = "dispose"
  BY DEF ptclear_senders, Resumes
<1>3. PICK i \in PortIds : i = call[p].port /\ porttab[i].ptstate = PT_LIMBO
  BY <1>1, <1>2, Clearer
<1>4. porttab' = [porttab EXCEPT ![i].ptmsgs = <<>>] /\ call' = [call EXCEPT ![p].op = "receivers"]
  BY <1>3 DEF ptclear_senders
<1>5. call[p] \in ClearCalls
  BY <1>1, <1>2, Clearer
<1>6. SameCalls
  <2>1. \A q \in Procs : q # p => call'[q] = call[q]
    BY <1>1, <1>4
  <2>2. call'[p].op = "receivers"
    BY <1>1, <1>4, <1>5 DEF ClearCalls
  <2>3. AbstractCall(call'[p]) = Nothing /\ AbstractCall(call[p]) = Nothing
    BY <1>2, <2>2 DEF AbstractCall, Nothing
  <2> QED BY <2>1, <2>3 DEF SameCalls
<1> QED BY <1>1, <1>3, <1>4, <1>6, AbsEmpty DEF PT_LIMBO, PT_ALLOC

LEMMA EndChannel ==
  ASSUME CInv, NEW p \in Procs, ptclear_end(p)
  PROVE  (\E i \in PortIds : Channel!Reopen(i)) \/ UNCHANGED Seen
<1>1. MInv /\ porttab \in [PortIds -> PortEntries] /\ call \in [Procs -> CallRecords]
  BY DEF CInv, TInv, MInv, MsgTypes
<1>2. call[p].op = "newstate"
  BY DEF ptclear_end, Resumes
<1>3. PICK i \in PortIds : /\ i = call[p].port /\ porttab[i].ptstate = PT_LIMBO
                          /\ porttab[i].ptmsgs = <<>> /\ call[p].newstate \in {PT_FREE, PT_ALLOC}
  BY <1>1, <1>2, Clearer DEF ClearCalls
<1>4. porttab' = [porttab EXCEPT ![i].ptstate = call[p].newstate] /\ Return(p)
  BY <1>3 DEF ptclear_end
<1>5. SameCalls
  BY <1>1, <1>2, <1>4 DEF SameCalls, AbstractCall, Return, Idle
<1>6. CASE call[p].newstate = PT_ALLOC
  BY <1>1, <1>3, <1>4, <1>5, <1>6, AbsReopen
<1>7. CASE call[p].newstate = PT_FREE
  <2>1. \A j \in PortIds : /\ porttab'[j].ptstate = PT_ALLOC <=> porttab[j].ptstate = PT_ALLOC
                           /\ porttab'[j].ptseq = porttab[j].ptseq
                           /\ porttab'[j].ptmaxcnt = porttab[j].ptmaxcnt
                           /\ porttab'[j].ptmsgs = porttab[j].ptmsgs
    BY <1>1, <1>3, <1>4, <1>7 DEF PortEntries, PT_FREE, PT_LIMBO, PT_ALLOC
  <2>2. \A j \in PortIds : ChannelOf(porttab'[j]) = ChannelOf(porttab[j])
    BY <2>1 DEF ChannelOf
  <2> QED BY <1>1, <1>5, <2>2, AbsStutter
<1> QED BY <1>3, <1>6, <1>7

LEMMA CreateChannel ==
  ASSUME CInv, NEW p \in Procs, NEW count \in PortCounts, ptcreate(p, count)
  PROVE  \E i \in PortIds : Channel!Create(i)
<1>1. porttab \in [PortIds -> PortEntries] /\ call' = call
  BY DEF CInv, TInv, MInv, MsgTypes, ptcreate
<1>2. PICK i \in PortIds : i = nextport /\ porttab[i].ptstate = PT_FREE
  BY NextPort DEF CInv, TInv, MInv, MsgTypes, ptcreate
<1>3. \E s, r : porttab' = [porttab EXCEPT ![i] =
             [ptstate |-> PT_ALLOC, ptssem |-> s, ptrsem |-> r,
              ptmaxcnt |-> count % (U16MAX + 1), ptseq |-> @.ptseq + 1, ptmsgs |-> <<>>]]
  BY <1>2 DEF ptcreate
<1>4. /\ \A j \in PortIds : j # i => porttab'[j] = porttab[j]
      /\ porttab'[i].ptstate = PT_ALLOC /\ porttab'[i].ptseq = porttab[i].ptseq + 1
      /\ porttab'[i].ptmsgs = <<>>
  BY <1>1, <1>3
<1>5. SameCalls
  BY <1>1 DEF SameCalls
<1> QED BY <1>1, <1>2, <1>4, <1>5, AbsCreate DEF PT_FREE, PT_ALLOC

\* Steps that do not touch the port table are no steps of a channel, unless they end
\* a call on a port.
LEMMA QuietChannel ==
  ASSUME CInv, porttab' = porttab, SameCalls
  PROVE  UNCHANGED Seen
<1>1. porttab \in [PortIds -> PortEntries]
  BY DEF CInv, TInv, MInv, MsgTypes
<1> QED BY <1>1, AbsStutter

LEMMA PoolChannel ==
  ASSUME CInv, NEW p \in Procs, pool(p)
  PROVE  UNCHANGED Seen
<1>1. call \in [Procs -> CallRecords] /\ porttab' = porttab
  BY DEF CInv, TInv, MInv, MsgTypes, pool, portVars
<1>2. SameCalls
  <2>1. CASE call' = call
    BY <2>1 DEF SameCalls
  <2>2. ASSUME NEW k \in PoolIds, getbuf_block(p, k) PROVE SameCalls
    <3>1. call[p] = Idle /\ call' = [call EXCEPT ![p] = [op |-> "getbuf", pool |-> k]]
      BY <2>2 DEF getbuf_block, InUser
    <3> QED BY <1>1, <3>1 DEF SameCalls, AbstractCall, Idle
  <2>3. CASE getbuf_resume(p)
    <3>1. call[p].op = "getbuf" /\ Return(p)
      BY <2>3 DEF getbuf_resume, Resumes
    <3> QED BY <1>1, <3>1 DEF SameCalls, AbstractCall, Idle, Return
  <2>4. call' = call \/ (\E k \in PoolIds : getbuf_block(p, k)) \/ getbuf_resume(p)
    BY DEF pool, mkbufpool, getbuf_now, freebuf
  <2> QED BY <2>1, <2>2, <2>3, <2>4
<1> QED BY <1>1, <1>2, QuietChannel

LEMMA DisposeChannel ==
  ASSUME CInv, NEW p \in Procs, dispose(p) \/ ptclear_receivers(p)
  PROVE  UNCHANGED Seen
<1>1. MInv /\ call \in [Procs -> CallRecords] /\ porttab' = porttab
  BY DEF CInv, TInv, MInv, MsgTypes, dispose, ptclear_receivers, portVars
<1>2. call[p].op \in {"dispose", "receivers"}
  BY DEF dispose, ptclear_receivers, Resumes
<1>3. call[p] \in ClearCalls
  BY <1>1, <1>2, Clearer
<1>4. \/ call' = [call EXCEPT ![p].walk = Tail(@)]
      \/ call' = [call EXCEPT ![p].op = "newstate"]
  BY DEF dispose, ptclear_receivers
<1>5. /\ \A q \in Procs : q # p => call'[q] = call[q]
      /\ call'[p].op \in {"dispose", "receivers", "newstate"}
  BY <1>1, <1>2, <1>3, <1>4 DEF ClearCalls
<1>6. AbstractCall(call'[p]) = Nothing /\ AbstractCall(call[p]) = Nothing
  BY <1>2, <1>5 DEF AbstractCall, Nothing
<1>7. SameCalls
  BY <1>5, <1>6 DEF SameCalls
<1> QED BY <1>1, <1>7, QuietChannel

LEMMA StepChannel ==
  ASSUME CInv, CountsFit, NEW p \in Procs, MsgStep(p)
  PROVE  Channel!ChanNext \/ UNCHANGED Seen
<1>0. call \in [Procs -> CallRecords]
  BY DEF CInv, TInv, MInv, MsgTypes
<1>1. CASE create(p)
  BY <1>1, CreateChannel DEF create, Channel!ChanNext
<1>2. CASE clear(p)
  <2>1. CASE \E i \in PortIds : ptdelete(p, i) \/ ptreset(p, i)
    BY <2>1, ClearChannel DEF ptdelete, ptreset, Channel!ChanNext
  <2>2. CASE ptclear_senders(p)
    BY <2>2, SendersChannel DEF Channel!ChanNext
  <2>3. CASE ptclear_receivers(p)
    BY <2>3, DisposeChannel
  <2>4. CASE ptclear_end(p)
    BY <2>4, EndChannel DEF Channel!ChanNext
  <2> QED BY <1>2, <2>1, <2>2, <2>3, <2>4 DEF clear
<1>3. CASE discard(p)
  BY <1>3, DisposeChannel DEF discard
<1>4. ASSUME NEW i \in PortIds, recv(p, i) PROVE Channel!ChanNext
  <2>1. CASE ptrecv_now(p, i)
    BY <2>1, ReceiveChannel DEF Channel!ChanNext
  <2>2. CASE ptrecv_block(p, i)
    <3>1. blocked(p, "ptrecv", i, 0, porttab[i].ptrsem)
      BY <2>2 DEF ptrecv_block
    <3>2. PICK s : blocked(p, "ptrecv", i, 0, s)
      BY <3>1
    <3> QED BY <3>2, BlockChannel DEF Channel!ChanNext
  <2> QED BY <1>4, <2>1, <2>2 DEF recv
<1>5. ASSUME NEW i \in PortIds, NEW b \in Bufs, send(p, i, b) PROVE Channel!ChanNext
  <2>1. CASE ptsend_now(p, i, b)
    BY <2>1, SendNowChannel DEF Channel!ChanNext
  <2>2. CASE ptsend_block(p, i, b)
    <3>1. PICK s : blocked(p, "ptsend", i, b, s)
      BY <2>2 DEF ptsend_block
    <3> QED BY <3>1, BlockChannel DEF Channel!ChanNext
  <2> QED BY <1>5, <2>1, <2>2 DEF send
<1>6. CASE resume(p)
  <2>1. CASE ptsend_resume(p)
    BY <2>1, SendResumeChannel DEF Channel!ChanNext
  <2>2. CASE ptrecv_resume(p)
    <3>1. PICK i \in PortIds : call[p].port = i
      BY <1>0, <2>2, CallKinds DEF RecvCalls, ptrecv_resume, Resumes
    <3> QED BY <2>2, <3>1, ReceiveChannel DEF Channel!ChanNext
  <2>3. CASE pt_stale(p)
    BY <2>3, StaleChannel DEF pt_stale, portVars, Channel!ChanNext
  <2> QED BY <1>6, <2>1, <2>2, <2>3 DEF resume
<1>7. CASE pool(p)
  BY <1>7, PoolChannel
<1>8. CASE kill(p)
  BY <1>8, StaleChannel DEF kill, killcaller, portVars, Channel!ChanNext
<1> QED BY <1>1, <1>2, <1>3, <1>4, <1>5, <1>6, <1>7, <1>8 DEF MsgStep

\* Every port is a bounded FIFO channel, through resets, deletions and creations, and
\* for senders and receivers that resume too late (ptsend.c:33, ptrecv.c:30).  A step
\* of _ptclear() closes, empties or opens a channel, or is not seen.
THEOREM PortsAreChannelsCorrect ==
  ASSUME PortCounts \subseteq 0..U16MAX
  PROVE  MsgSpec => PortsAreChannels
<1>1. MsgInit => Channel!ChanInit
  <2> SUFFICES ASSUME MsgInit PROVE Channel!ChanInit
    OBVIOUS
  <2> DEFINE start == [open |-> FALSE, inc |-> 0, size |-> 0, items |-> <<>>]
  <2>1. \A i \in PortIds : /\ porttab[i].ptstate # PT_ALLOC /\ porttab[i].ptseq = 0
                           /\ porttab[i].ptmaxcnt = 0 /\ porttab[i].ptmsgs = <<>>
    BY DEF MsgInit, PortInit, PT_FREE, PT_ALLOC
  <2>2. \A i \in PortIds : ChannelOf(porttab[i]) = start
    BY <2>1 DEF ChannelOf
  <2>3. \A p \in Procs : AbstractCall(call[p]) = [op |-> "none"]
    BY DEF MsgInit, CallInit, AbstractCall, Idle
  <2> QED BY <2>2, <2>3, Zenon DEF Channel!ChanInit, Channel!NoCall, ChannelOf
<1>2. CInv /\ [MsgNext]_msgVars => Channel!ChanNext \/ UNCHANGED Seen
  <2> SUFFICES ASSUME CInv, [MsgNext]_msgVars PROVE Channel!ChanNext \/ UNCHANGED Seen
    OBVIOUS
  <2>1. CASE UNCHANGED <<porttab, call>>
    BY <2>1, QuietChannel DEF SameCalls
  <2>2. ASSUME NEW p \in Procs, MsgStep(p) PROVE Channel!ChanNext \/ UNCHANGED Seen
    BY <2>2, StepChannel DEF CountsFit
  <2> QED BY <2>1, <2>2 DEF MsgNext, panic, msgVars, portVars, callVars
<1>3. CInv /\ [MsgNext]_msgVars
        => [Channel!ChanNext]_<<[i \in PortIds |-> [open  |-> porttab[i].ptstate = PT_ALLOC,
                                                    inc   |-> porttab[i].ptseq,
                                                    size  |-> porttab[i].ptmaxcnt,
                                                    items |-> porttab[i].ptmsgs]],
                               [p \in Procs |-> AbstractCall(call[p])]>>
  BY <1>2 DEF Seen
<1> QED BY <1>1, <1>3, CInvCorrect, PTL DEF MsgSpec, PortsAreChannels, Channel!ChanSpec

-----------------------------------------------------------------------------
(* Where the buffers are                                                   *)

\* A buffer is on the list of a pool, a message of a port, in the hands of a process,
\* or on the list of those that a process has still to dispose of.
InPool(k) == <<"pool", k>>
InPort(i) == <<"port", i>>
InHands(p) == <<"held", p>>
OnWalk(p) == <<"walk", p>>
Places == {"pool"} \X PoolIds \cup {"port"} \X PortIds \cup {"held", "walk"} \X Procs

Contents(x) ==
  CASE x[1] = "pool" -> Range(buftab[x[2]].bpnext)
    [] x[1] = "port" -> IF porttab[x[2]].ptstate = PT_ALLOC THEN Range(porttab[x[2]].ptmsgs) ELSE {}
    [] x[1] = "held" -> held[x[2]]
    [] OTHER -> IF call[x[2]].op = "dispose" THEN Range(call[x[2]].walk) ELSE {}

\* No list has a buffer twice, pools that have not been made have none, and a process
\* that sends a message holds it until it is sent.
ListedOnce ==
  /\ \A k \in PoolIds : IsInjective(buftab[k].bpnext) /\ (k >= nbpools => buftab[k].bpnext = <<>>)
  /\ \A i \in PortIds : IsInjective(porttab[i].ptmsgs)
  /\ \A p \in Procs : /\ call[p].op = "dispose" => IsInjective(call[p].walk)
                      /\ call[p].op = "ptsend" => call[p].msg \in held[p]

Disjoint == \A x, y \in Places : x # y => Contents(x) \cap Contents(y) = {}
Allocated == \A x \in Places : Contents(x) \subseteq 1..allocated
Covered == kills = 0 => \A b \in 1..allocated : \E x \in Places : b \in Contents(x)

PlaceInv == Disjoint /\ Allocated /\ Covered
BufInv == TInv /\ ListedOnce /\ PlaceInv

LEMMA PlaceNames ==
  /\ \A x \in Places : \/ \E k \in PoolIds : x = InPool(k)
                       \/ \E i \in PortIds : x = InPort(i)
                       \/ \E p \in Procs : x = InHands(p) \/ x = OnWalk(p)
  /\ \A k \in PoolIds : InPool(k) \in Places
  /\ \A i \in PortIds : InPort(i) \in Places
  /\ \A p \in Procs : InHands(p) \in Places /\ OnWalk(p) \in Places
  /\ \A k, j : InPool(k) = InPool(j) => k = j
  /\ \A k, j : InPort(k) = InPort(j) => k = j
  /\ \A k, j : InHands(k) = InHands(j) => k = j
  /\ \A k, j : OnWalk(k) = OnWalk(j) => k = j
  /\ \A k, j : /\ InPool(k) # InPort(j) /\ InPool(k) # InHands(j) /\ InPool(k) # OnWalk(j)
               /\ InPort(k) # InHands(j) /\ InPort(k) # OnWalk(j) /\ InHands(k) # OnWalk(j)
BY DEF Places, InPool, InPort, InHands, OnWalk

LEMMA PlaceContents ==
  /\ \A k : Contents(InPool(k)) = Range(buftab[k].bpnext)
  /\ \A i : Contents(InPort(i)) =
              IF porttab[i].ptstate = PT_ALLOC THEN Range(porttab[i].ptmsgs) ELSE {}
  /\ \A p : Contents(InHands(p)) = held[p]
  /\ \A p : Contents(OnWalk(p)) = IF call[p].op = "dispose" THEN Range(call[p].walk) ELSE {}
BY DEF Contents, InPool, InPort, InHands, OnWalk

LEMMA PlaceContentsNext ==
  /\ \A k : Contents(InPool(k))' = Range(buftab'[k].bpnext)
  /\ \A i : Contents(InPort(i))' =
              IF porttab'[i].ptstate = PT_ALLOC THEN Range(porttab'[i].ptmsgs) ELSE {}
  /\ \A p : Contents(InHands(p))' = held'[p]
  /\ \A p : Contents(OnWalk(p))' = IF call'[p].op = "dispose" THEN Range(call'[p].walk) ELSE {}
BY DEF Contents, InPool, InPort, InHands, OnWalk

\* Buffers move from one place to another.
LEMMA Moved ==
  ASSUME PlaceInv, NEW from \in Places, NEW to \in Places, from # to,
         NEW M \in SUBSET Contents(from),
         Contents(from)' = Contents(from) \ M, Contents(to)' = Contents(to) \cup M,
         \A x \in Places \ {from, to} : Contents(x)' = Contents(x),
         allocated' = allocated, kills' = kills
  PROVE  PlaceInv'
<1>1. Disjoint'
  <2> SUFFICES ASSUME NEW x \in Places, NEW y \in Places, x # y,
                      NEW b, b \in Contents(x)', b \in Contents(y)'
               PROVE  FALSE
    BY DEF Disjoint
  <2>1. \A z \in Places \ {from, to} : b \in M => b \notin Contents(z)
    BY DEF PlaceInv, Disjoint
  <2>2. \A z \in Places : b \in Contents(z)' =>
          (b \in M /\ z = to) \/ (b \notin M /\ b \in Contents(z))
    BY <2>1
  <2> QED BY <2>2 DEF PlaceInv, Disjoint
<1>2. Allocated'
  <2>1. ASSUME NEW x \in Places PROVE Contents(x)' \subseteq 1..allocated
    BY DEF PlaceInv, Allocated
  <2> QED BY <2>1 DEF Allocated
<1>3. Covered'
  <2> SUFFICES ASSUME kills = 0, NEW b \in 1..allocated
               PROVE  \E x \in Places : b \in Contents(x)'
    BY DEF Covered
  <2>1. PICK x \in Places : b \in Contents(x)
    BY DEF PlaceInv, Covered
  <2> QED BY <2>1
<1> QED BY <1>1, <1>2, <1>3 DEF PlaceInv

\* Nothing moves, or some are lost to the death of a process.
LEMMA Stayed ==
  ASSUME PlaceInv, \A x \in Places : Contents(x)' \subseteq Contents(x),
         allocated' = allocated,
         kills' # 0 \/ (kills' = kills /\ \A x \in Places : Contents(x)' = Contents(x))
  PROVE  PlaceInv'
<1>1. Disjoint' /\ Allocated'
  BY DEF PlaceInv, Disjoint, Allocated
<1>2. Covered'
  BY DEF PlaceInv, Covered
<1> QED BY <1>1, <1>2 DEF PlaceInv

\* Memory is taken for the buffers of a pool.
LEMMA Filled ==
  ASSUME PlaceInv, NEW new \in Places, NEW n \in Nat, allocated \in Nat,
         Contents(new) = {}, Contents(new)' = (allocated + 1)..(allocated + n),
         \A x \in Places \ {new} : Contents(x)' = Contents(x),
         allocated' = allocated + n, kills' = kills
  PROVE  PlaceInv'
<1> DEFINE N == (allocated + 1)..(allocated + n)
<1>1. 1..(allocated + n) = 1..allocated \cup N /\ 1..allocated \cap N = {}
  OBVIOUS
<1>2. \A x \in Places : x # new => Contents(x)' \subseteq 1..allocated
  BY DEF PlaceInv, Allocated
<1> HIDE DEF N
<1>3. Contents(new)' = N /\ 1..allocated' = 1..allocated \cup N
  BY <1>1 DEF N
<1>4. Disjoint'
  BY <1>1, <1>2, <1>3 DEF PlaceInv, Disjoint
<1>5. Allocated'
  BY <1>2, <1>3 DEF Allocated
<1>6. Covered'
  BY <1>3 DEF PlaceInv, Covered
<1> QED BY <1>4, <1>5, <1>6 DEF PlaceInv

-----------------------------------------------------------------------------
(* Steps that move buffers                                                 *)

LEMMA BufTypes ==
  ASSUME BufInv
  PROVE  /\ porttab \in [PortIds -> PortEntries] /\ call \in [Procs -> CallRecords]
         /\ buftab \in [PoolIds -> PoolEntries] /\ held \in [Procs -> SUBSET Bufs]
         /\ nbpools \in 0..NBPOOLS /\ allocated \in Nat /\ kills \in Nat /\ bpid \in [Bufs -> Int]
         /\ \A k \in PoolIds : Lists(buftab[k].bpnext, Bufs, Contents(InPool(k)))
         /\ \A i \in PortIds : Lists(porttab[i].ptmsgs, Bufs, Range(porttab[i].ptmsgs))
         /\ \A p \in Procs : call[p].op = "dispose" =>
              Lists(call[p].walk, Bufs, Contents(OnWalk(p)))
<1>1. /\ porttab \in [PortIds -> PortEntries] /\ call \in [Procs -> CallRecords]
      /\ buftab \in [PoolIds -> PoolEntries] /\ held \in [Procs -> SUBSET Bufs]
      /\ nbpools \in 0..NBPOOLS /\ allocated \in 0..NBUFS /\ kills \in Nat /\ bpid \in [Bufs -> Int]
  BY DEF BufInv, TInv, MInv, MsgTypes
<1>2. allocated \in Nat
  BY <1>1, PoolAssumption
<1>3. \A k \in PoolIds : buftab[k].bpnext \in Seq(Bufs)
  BY <1>1 DEF PoolEntries
<1>4. \A i \in PortIds : porttab[i].ptmsgs \in Seq(Bufs)
  BY <1>1 DEF PortEntries
<1>5. \A p \in Procs : call[p].op = "dispose" => call[p].walk \in Seq(Bufs)
  BY <1>1, CallKinds DEF ClearCalls
<1> QED BY <1>1, <1>2, <1>3, <1>4, <1>5, PlaceContents DEF BufInv, ListedOnce, Lists

\* What the calls of a step leave of the walks and of the messages to be sent.
CallsKept(p) ==
  \A q \in Procs : q # p => call'[q] = call[q]
HandsKept(p) == \A q \in Procs : q # p => held'[q] = held[q]
PoolsKept(k) == nbpools' = nbpools /\ \A j \in PoolIds : j # k => buftab'[j] = buftab[j]
PortsKept(i) == \A j \in PortIds : j # i => porttab'[j] = porttab[j]

LEMMA ListedKept ==
  ASSUME BufInv, NEW p, NEW k, NEW i,
         CallsKept(p), HandsKept(p), PoolsKept(k), PortsKept(i),
         p \in Procs => /\ call'[p].op = "dispose" => IsInjective(call'[p].walk)
                        /\ call'[p].op = "ptsend" => call'[p].msg \in held'[p],
         k \in PoolIds => IsInjective(buftab'[k].bpnext)
                            /\ (k >= nbpools => buftab'[k].bpnext = <<>>),
         i \in PortIds => IsInjective(porttab'[i].ptmsgs)
  PROVE  ListedOnce'
<1>1. \A j \in PoolIds : IsInjective(buftab'[j].bpnext)
                           /\ (j >= nbpools' => buftab'[j].bpnext = <<>>)
  BY DEF BufInv, ListedOnce, PoolsKept
<1>2. \A j \in PortIds : IsInjective(porttab'[j].ptmsgs)
  BY DEF BufInv, ListedOnce, PortsKept
<1>3. \A q \in Procs : /\ call'[q].op = "dispose" => IsInjective(call'[q].walk)
                       /\ call'[q].op = "ptsend" => call'[q].msg \in held'[q]
  BY DEF BufInv, ListedOnce, CallsKept, HandsKept
<1> QED BY <1>1, <1>2, <1>3 DEF ListedOnce

LEMMA PlacesKept ==
  ASSUME NEW p, NEW k, NEW i, CallsKept(p), HandsKept(p), PoolsKept(k), PortsKept(i),
         NEW x \in Places \ {InPool(k), InPort(i), InHands(p), OnWalk(p)}
  PROVE  Contents(x)' = Contents(x)
<1>1. CASE \E j \in PoolIds : x = InPool(j)
  BY <1>1, PlaceContents, PlaceContentsNext DEF PoolsKept
<1>2. CASE \E j \in PortIds : x = InPort(j)
  <2>1. PICK j \in PortIds : x = InPort(j) /\ j # i
    BY <1>2
  <2>2. porttab'[j] = porttab[j]
    BY <2>1 DEF PortsKept
  <2> QED BY <2>1, <2>2, PlaceContents, PlaceContentsNext
<1>3. CASE \E q \in Procs : x = InHands(q)
  BY <1>3, PlaceContents, PlaceContentsNext DEF HandsKept
<1>4. CASE \E q \in Procs : x = OnWalk(q)
  <2>1. PICK q \in Procs : x = OnWalk(q) /\ q # p
    BY <1>4
  <2>2. call'[q] = call[q]
    BY <2>1 DEF CallsKept
  <2> QED BY <2>1, <2>2, PlaceContents, PlaceContentsNext
<1> QED BY <1>1, <1>2, <1>3, <1>4, PlaceNames

LEMMA DepositPlaces ==
  ASSUME BufInv, NEW p \in Procs, NEW i \in PortIds, NEW b \in held[p],
         NEW t, deposit(t, i, b), gives(p, b), ~panicked,
         porttab[i].ptstate = PT_ALLOC, call[p].op # "dispose",
         CallsKept(p), call'[p] = Idle,
         UNCHANGED <<buftab, nbpools, allocated, kills>>
  PROVE  ListedOnce' /\ PlaceInv'
<1>0. /\ porttab \in [PortIds -> PortEntries] /\ held \in [Procs -> SUBSET Bufs]
      /\ Lists(porttab[i].ptmsgs, Bufs, Range(porttab[i].ptmsgs))
  BY BufTypes
<1>1. Idle.op = "user" /\ PoolsKept(NBPOOLS) /\ NBPOOLS \notin PoolIds
  BY PoolAssumption DEF Idle, PoolsKept, PoolIds
<1>2. PortsKept(i) /\ HandsKept(p)
  BY <1>0 DEF deposit, gives, PortsKept, HandsKept
<1>3. Contents(OnWalk(p))' = Contents(OnWalk(p))
  BY <1>1, PlaceContents, PlaceContentsNext
<1>4. \A x \in Places \ {InPort(i), InHands(p)} : Contents(x)' = Contents(x)
  <2> SUFFICES ASSUME NEW x \in Places \ {InPort(i), InHands(p)} PROVE Contents(x)' = Contents(x)
    OBVIOUS
  <2>1. CASE x = OnWalk(p)
    BY <1>3, <2>1
  <2>2. CASE x # OnWalk(p)
    <3>1. x # InPool(NBPOOLS)
      BY <1>1 DEF Places, InPool
    <3> QED BY <1>1, <1>2, <2>2, <3>1, PlacesKept
  <2> QED BY <2>1, <2>2
<1>5. CASE panicked'
  <2>1. porttab' = porttab /\ held' = held
    BY <1>5 DEF deposit, gives
  <2>2. \A x \in Places : Contents(x)' = Contents(x)
    BY <1>4, <2>1, PlaceContents, PlaceContentsNext
  <2>3. PlaceInv'
    BY <2>2, Stayed DEF BufInv
  <2>4. IsInjective(porttab'[i].ptmsgs)
    BY <2>1 DEF BufInv, ListedOnce
  <2> QED BY <1>1, <1>2, <2>3, <2>4, ListedKept
<1>6. CASE ~panicked'
  <2> DEFINE q == Append(porttab[i].ptmsgs, b)
  <2>1. porttab' = [porttab EXCEPT ![i].ptmsgs = q] /\ held' = [held EXCEPT ![p] = @ \ {b}]
    BY <1>6 DEF deposit, gives
  <2>2. porttab'[i].ptmsgs = q /\ porttab'[i].ptstate = PT_ALLOC /\ held'[p] = held[p] \ {b}
    BY <1>0, <2>1 DEF PortEntries
  <2>3. InHands(p) \in Places /\ InPort(i) \in Places /\ InHands(p) # InPort(i)
    BY PlaceNames
  <2>4. Contents(InPort(i)) = Range(porttab[i].ptmsgs) /\ Contents(InHands(p)) = held[p]
    BY PlaceContents
  <2>5. b \notin Range(porttab[i].ptmsgs) /\ b \in Bufs
    BY <1>0, <2>3, <2>4 DEF BufInv, PlaceInv, Disjoint
  <2>6. Lists(q, Bufs, Range(porttab[i].ptmsgs) \cup {b})
    BY <1>0, <2>5, ListAppend
  <2>7. IsInjective(porttab'[i].ptmsgs) /\ Range(porttab'[i].ptmsgs) = Range(porttab[i].ptmsgs) \cup {b}
    BY <2>2, <2>6 DEF Lists
  <2>8. Contents(InHands(p))' = Contents(InHands(p)) \ {b}
           /\ Contents(InPort(i))' = Contents(InPort(i)) \cup {b}
    BY <2>2, <2>4, <2>7, PlaceContentsNext
  <2>9. {b} \in SUBSET Contents(InHands(p)) /\ PlaceInv
    BY <2>4 DEF BufInv
  <2>10. PlaceInv'
    BY <1>4, <2>3, <2>8, <2>9, Moved
  <2> QED BY <1>1, <1>2, <2>7, <2>10, ListedKept
<1> QED BY <1>5, <1>6

LEMMA WithdrawalPlaces ==
  ASSUME BufInv, NEW p \in Procs, NEW i \in PortIds,
         NEW t, withdrawal(t, i), takes(p, i),
         porttab[i].ptstate = PT_ALLOC, call[p].op # "dispose",
         CallsKept(p), call'[p] = Idle,
         UNCHANGED <<buftab, nbpools, allocated, kills>>
  PROVE  ListedOnce' /\ PlaceInv'
<1>0. /\ porttab \in [PortIds -> PortEntries] /\ held \in [Procs -> SUBSET Bufs]
      /\ Lists(porttab[i].ptmsgs, Bufs, Range(porttab[i].ptmsgs))
  BY BufTypes
<1>1. Idle.op = "user" /\ PoolsKept(NBPOOLS) /\ NBPOOLS \notin PoolIds
  BY PoolAssumption DEF Idle, PoolsKept, PoolIds
<1>2. PortsKept(i) /\ HandsKept(p)
  BY <1>0 DEF withdrawal, takes, PortsKept, HandsKept
<1>3. Contents(OnWalk(p))' = Contents(OnWalk(p))
  BY <1>1, PlaceContents, PlaceContentsNext
<1>4. \A x \in Places \ {InPort(i), InHands(p)} : Contents(x)' = Contents(x)
  <2> SUFFICES ASSUME NEW x \in Places \ {InPort(i), InHands(p)} PROVE Contents(x)' = Contents(x)
    OBVIOUS
  <2>1. CASE x = OnWalk(p)
    BY <1>3, <2>1
  <2>2. CASE x # OnWalk(p)
    <3>1. x # InPool(NBPOOLS)
      BY <1>1 DEF Places, InPool
    <3> QED BY <1>1, <1>2, <2>2, <3>1, PlacesKept
  <2> QED BY <2>1, <2>2
<1>s. PICK b : b = Head(porttab[i].ptmsgs)
  OBVIOUS
<1> DEFINE q == Tail(porttab[i].ptmsgs)
<1>5. /\ porttab[i].ptmsgs # <<>> /\ porttab' = [porttab EXCEPT ![i].ptmsgs = q]
      /\ held' = [held EXCEPT ![p] = @ \cup {b}]
  BY <1>s DEF withdrawal, takes
<1>6. porttab'[i].ptmsgs = q /\ porttab'[i].ptstate = PT_ALLOC /\ held'[p] = held[p] \cup {b}
  BY <1>0, <1>5 DEF PortEntries
<1>7. InHands(p) \in Places /\ InPort(i) \in Places /\ InHands(p) # InPort(i)
  BY PlaceNames
<1>8. Contents(InPort(i)) = Range(porttab[i].ptmsgs) /\ Contents(InHands(p)) = held[p]
  BY PlaceContents
<1>9. b \in Range(porttab[i].ptmsgs) /\ Lists(q, Bufs, Range(porttab[i].ptmsgs) \ {b})
  BY <1>0, <1>5, <1>s, ListTail
<1> HIDE DEF q
<1>10. IsInjective(porttab'[i].ptmsgs) /\ Range(porttab'[i].ptmsgs) = Range(porttab[i].ptmsgs) \ {b}
  BY <1>6, <1>9 DEF Lists
<1>11. Contents(InPort(i))' = Contents(InPort(i)) \ {b}
         /\ Contents(InHands(p))' = Contents(InHands(p)) \cup {b}
  BY <1>6, <1>8, <1>10, PlaceContentsNext
<1>12. {b} \in SUBSET Contents(InPort(i)) /\ PlaceInv
  BY <1>8, <1>9 DEF BufInv
<1>13. PlaceInv'
  BY <1>4, <1>7, <1>11, <1>12, Moved
<1> QED BY <1>1, <1>2, <1>10, <1>13, ListedKept

LEMMA ReleasePlaces ==
  ASSUME BufInv, NEW p \in Procs, NEW b \in Known, NEW from \in {InHands(p), OnWalk(p)},
         b \in Contents(from), Contents(from)' = Contents(from) \ {b},
         \A x \in {InHands(p), OnWalk(p)} \ {from} : Contents(x)' = Contents(x),
         release(b), CallsKept(p), HandsKept(p), porttab' = porttab, kills' = kills,
         call'[p].op = "dispose" => IsInjective(call'[p].walk),
         call'[p].op # "ptsend"
  PROVE  ListedOnce' /\ PlaceInv'
<1>0. /\ porttab \in [PortIds -> PortEntries] /\ buftab \in [PoolIds -> PoolEntries]
      /\ nbpools \in 0..NBPOOLS
      /\ \A k \in PoolIds : Lists(buftab[k].bpnext, Bufs, Contents(InPool(k)))
  BY BufTypes
<1>1. PICK k \in PoolIds : k = bpid[b] /\ k < nbpools
  BY DEF Known
<1> DEFINE q == <<b>> \o buftab[k].bpnext
<1>2. /\ buftab' = [buftab EXCEPT ![k].bpnext = q]
      /\ nbpools' = nbpools /\ allocated' = allocated
  BY <1>1 DEF release
<1>3. buftab'[k].bpnext = q /\ PoolsKept(k)
  BY <1>0, <1>2 DEF PoolEntries, PoolsKept
<1>4. PortsKept(NPORTS) /\ NPORTS \notin PortIds
  BY PortAssumption DEF PortsKept, PortIds
<1>5. from \in Places /\ InPool(k) \in Places /\ from # InPool(k)
  BY PlaceNames
<1>6. b \notin Contents(InPool(k)) /\ b \in Bufs
  BY <1>5 DEF BufInv, PlaceInv, Disjoint, Known
<1>7. Lists(q, Bufs, Contents(InPool(k)) \cup {b})
  BY <1>0, <1>6, ListPush
<1> HIDE DEF q
<1>8. Contents(InPool(k))' = Contents(InPool(k)) \cup {b} /\ IsInjective(buftab'[k].bpnext)
  BY <1>3, <1>7, PlaceContentsNext DEF Lists
<1>9. \A x \in Places \ {from, InPool(k)} : Contents(x)' = Contents(x)
  <2> SUFFICES ASSUME NEW x \in Places \ {from, InPool(k)} PROVE Contents(x)' = Contents(x)
    OBVIOUS
  <2>1. CASE x \in {InHands(p), OnWalk(p)}
    BY <2>1
  <2>2. CASE x \notin {InHands(p), OnWalk(p)}
    <3>1. x # InPort(NPORTS)
      BY <1>4 DEF Places, InPort
    <3> QED BY <1>3, <1>4, <2>2, <3>1, PlacesKept
  <2> QED BY <2>1, <2>2
<1>10. {b} \in SUBSET Contents(from) /\ PlaceInv
  BY DEF BufInv
<1>11. PlaceInv'
  BY <1>2, <1>5, <1>8, <1>9, <1>10, Moved
<1>12. ~(k >= nbpools)
  BY <1>0, <1>1 DEF PoolIds
<1> QED BY <1>3, <1>4, <1>8, <1>11, <1>12, ListedKept

LEMMA DiscardPlaces ==
  ASSUME BufInv, NEW p \in Procs, discard(p)
  PROVE  ListedOnce' /\ PlaceInv'
<1>0. call \in [Procs -> CallRecords]
  BY BufTypes
<1>s. PICK b : b = Head(call[p].walk)
  OBVIOUS
<1>1. /\ call[p].op = "dispose" /\ call[p].walk # <<>>
      /\ call' = [call EXCEPT ![p].walk = Tail(@)]
      /\ porttab' = porttab /\ kills' = kills /\ held' = held /\ release(b)
  BY <1>s DEF discard, dispose, Resumes, portVars
<1>2. call[p] \in ClearCalls /\ Lists(call[p].walk, Bufs, Contents(OnWalk(p)))
  BY <1>0, <1>1, CallKinds, BufTypes
<1> DEFINE q == Tail(call[p].walk)
<1>3. call'[p].op = "dispose" /\ call'[p].walk = q /\ CallsKept(p) /\ HandsKept(p)
  BY <1>0, <1>1, <1>2 DEF ClearCalls, CallsKept, HandsKept
<1>4. b \in Contents(OnWalk(p)) /\ Lists(q, Bufs, Contents(OnWalk(p)) \ {b})
  BY <1>1, <1>2, <1>s, ListTail
<1>5. Contents(OnWalk(p)) = Range(call[p].walk)
  BY <1>1, PlaceContents
<1>6. b \in Known
  BY <1>1, <1>4, <1>5 DEF BufInv, TInv, KnownInv, KnownCall
<1> HIDE DEF q
<1>7. Contents(OnWalk(p))' = Contents(OnWalk(p)) \ {b} /\ IsInjective(call'[p].walk)
  BY <1>3, <1>4, PlaceContentsNext DEF Lists
<1>8. Contents(InHands(p))' = Contents(InHands(p))
  BY <1>1, PlaceContents, PlaceContentsNext
<1> DEFINE from == OnWalk(p)
<1>9. from \in {InHands(p), OnWalk(p)} /\ b \in Contents(from) /\ Contents(from)' = Contents(from) \ {b}
        /\ \A x \in {InHands(p), OnWalk(p)} \ {from} : Contents(x)' = Contents(x)
  BY <1>4, <1>7, <1>8
<1>10. call'[p].op # "ptsend"
  BY <1>3
<1> HIDE DEF from
<1> QED BY <1>1, <1>3, <1>6, <1>7, <1>9, <1>10, ReleasePlaces

LEMMA FreePlaces ==
  ASSUME BufInv, NEW p \in Procs, NEW b \in Bufs, freebuf(p, b), porttab' = porttab
  PROVE  ListedOnce' /\ PlaceInv'
<1>0. held \in [Procs -> SUBSET Bufs]
  BY BufTypes
<1>1. /\ call[p] = Idle /\ call' = call /\ b \in held[p] /\ release(b) /\ kills' = kills
      /\ held' = [held EXCEPT ![p] = @ \ {b}]
  BY DEF freebuf, InUser
<1>2. call'[p].op = "user" /\ CallsKept(p) /\ HandsKept(p) /\ held'[p] = held[p] \ {b}
  BY <1>0, <1>1 DEF Idle, CallsKept, HandsKept
<1>3. b \in Known
  BY <1>1 DEF BufInv, TInv, KnownInv
<1> DEFINE from == InHands(p)
<1>4. from \in {InHands(p), OnWalk(p)} /\ b \in Contents(from) /\ Contents(from)' = Contents(from) \ {b}
  BY <1>1, <1>2, PlaceContents, PlaceContentsNext
<1>5. \A x \in {InHands(p), OnWalk(p)} \ {from} : Contents(x)' = Contents(x)
  <2>1. Contents(OnWalk(p))' = Contents(OnWalk(p))
    BY <1>1, PlaceContents, PlaceContentsNext
  <2> QED BY <2>1
<1> HIDE DEF from
<1> QED BY <1>1, <1>2, <1>3, <1>4, <1>5, ReleasePlaces

LEMMA UnlinkPlaces ==
  ASSUME BufInv, NEW p \in Procs, NEW k \in PoolIds, k < nbpools, unlink(p, k),
         CallsKept(p), call[p].op # "dispose", call'[p] = Idle, porttab' = porttab, kills' = kills
  PROVE  ListedOnce' /\ PlaceInv'
<1>0. /\ buftab \in [PoolIds -> PoolEntries] /\ held \in [Procs -> SUBSET Bufs]
      /\ Lists(buftab[k].bpnext, Bufs, Contents(InPool(k))) /\ nbpools \in 0..NBPOOLS
  BY BufTypes
<1>s. PICK b : b = Head(buftab[k].bpnext)
  OBVIOUS
<1> DEFINE q == Tail(buftab[k].bpnext)
<1>1. /\ buftab[k].bpnext # <<>> /\ buftab' = [buftab EXCEPT ![k].bpnext = q]
      /\ held' = [held EXCEPT ![p] = @ \cup {b}] /\ nbpools' = nbpools /\ allocated' = allocated
  BY <1>s DEF unlink
<1>2. buftab'[k].bpnext = q /\ held'[p] = held[p] \cup {b} /\ PoolsKept(k) /\ HandsKept(p)
  BY <1>0, <1>1 DEF PoolEntries, PoolsKept, HandsKept
<1>3. PortsKept(NPORTS) /\ NPORTS \notin PortIds /\ Idle.op = "user"
  BY PortAssumption DEF PortsKept, PortIds, Idle
<1>4. b \in Contents(InPool(k)) /\ Lists(q, Bufs, Contents(InPool(k)) \ {b})
  BY <1>0, <1>1, <1>s, ListTail
<1> HIDE DEF q
<1>5. /\ Contents(InPool(k))' = Contents(InPool(k)) \ {b} /\ IsInjective(buftab'[k].bpnext)
      /\ Contents(InHands(p))' = Contents(InHands(p)) \cup {b}
  BY <1>2, <1>4, PlaceContents, PlaceContentsNext DEF Lists
<1>6. InHands(p) \in Places /\ InPool(k) \in Places /\ InHands(p) # InPool(k)
  BY PlaceNames
<1>7. \A x \in Places \ {InHands(p), InPool(k)} : Contents(x)' = Contents(x)
  <2> SUFFICES ASSUME NEW x \in Places \ {InHands(p), InPool(k)} PROVE Contents(x)' = Contents(x)
    OBVIOUS
  <2>1. CASE x = OnWalk(p)
    BY <1>3, <2>1, PlaceContents, PlaceContentsNext
  <2>2. CASE x # OnWalk(p)
    <3>1. x # InPort(NPORTS)
      BY <1>3 DEF Places, InPort
    <3> QED BY <1>2, <1>3, <2>2, <3>1, PlacesKept
  <2> QED BY <2>1, <2>2
<1>8. {b} \in SUBSET Contents(InPool(k)) /\ PlaceInv
  BY <1>4 DEF BufInv
<1>9. PlaceInv'
  BY <1>1, <1>5, <1>6, <1>7, <1>8, Moved
<1>10. ~(k >= nbpools)
  BY <1>0 DEF PoolIds
<1> QED BY <1>2, <1>3, <1>5, <1>9, <1>10, ListedKept

\* The buffers of a new pool are the next ones there is memory for.
LEMMA PoolPlaces ==
  ASSUME BufInv, NEW p \in Procs, NEW n \in PoolSizes, mkbufpool(p, n), porttab' = porttab
  PROVE  ListedOnce' /\ PlaceInv'
<1>0. /\ buftab \in [PoolIds -> PoolEntries] /\ nbpools \in 0..NBPOOLS /\ allocated \in Nat
      /\ n \in Nat /\ NBUFS \in Nat
  BY BufTypes, PoolAssumption
<1>1. PICK k \in PoolIds : k = nbpools
  BY <1>0, PoolAssumption DEF mkbufpool, PoolIds
<1> DEFINE q == [j \in 1..n |-> allocated + j]
           N == (allocated + 1)..(allocated + n)
<1>2. /\ \E s : buftab' = [buftab EXCEPT ![k] = [bpsem |-> s, bpnext |-> q]]
      /\ allocated + n <= NBUFS /\ allocated' = allocated + n /\ nbpools' = nbpools + 1
      /\ held' = held /\ call' = call /\ kills' = kills
  BY <1>1 DEF mkbufpool
<1>3. buftab'[k].bpnext = q /\ \A j \in PoolIds : j # k => buftab'[j] = buftab[j]
  BY <1>0, <1>2
<1>4. Lists(q, Bufs, N)
  <2>1. q \in [1..n -> Bufs]
    BY <1>0, <1>2 DEF Bufs
  <2>2. q \in Seq(Bufs) /\ Len(q) = n
    <3> HIDE DEF q
    <3>1. q \in Seq(Bufs)
      BY <1>0, <2>1, SeqDef
    <3>2. DOMAIN q = 1..n /\ DOMAIN q = 1..Len(q) /\ Len(q) \in Nat
      BY <2>1, <3>1, LenProperties
    <3> QED BY <1>0, <3>1, <3>2
  <2>3. \A i, j \in 1..n : q[i] = q[j] => i = j
    BY <1>0
  <2>4. \A x : x \in N <=> \E j \in 1..n : q[j] = x
    <3>1. ASSUME NEW x \in N PROVE x - allocated \in 1..n /\ q[x - allocated] = x
      BY <1>0
    <3>2. ASSUME NEW j \in 1..n PROVE q[j] \in N
      BY <1>0
    <3> QED BY <3>1, <3>2
  <2> HIDE DEF q, N
  <2> QED BY <2>2, <2>3, <2>4, ListIntro
<1>5. Contents(InPool(k)) = {}
  <2>1. buftab[k].bpnext = <<>>
    BY <1>0, <1>1 DEF BufInv, ListedOnce
  <2>2. Lists(buftab[k].bpnext, Bufs, Contents(InPool(k)))
    BY BufTypes
  <2> QED BY <2>1, <2>2, ListFacts
<1> HIDE DEF q, N
<1>6. Contents(InPool(k))' = N /\ IsInjective(buftab'[k].bpnext)
  BY <1>3, <1>4, PlaceContentsNext DEF Lists
<1>7. \A x \in Places \ {InPool(k)} : Contents(x)' = Contents(x)
  <2> SUFFICES ASSUME NEW x \in Places \ {InPool(k)} PROVE Contents(x)' = Contents(x)
    OBVIOUS
  <2>1. CASE \E j \in PoolIds : x = InPool(j)
    BY <1>3, <2>1, PlaceContents, PlaceContentsNext
  <2>2. CASE \E i \in PortIds : x = InPort(i)
    <3>1. PICK i \in PortIds : x = InPort(i)
      BY <2>2
    <3> QED BY <3>1, PlaceContents, PlaceContentsNext
  <2>3. CASE \E r \in Procs : x = InHands(r)
    BY <1>2, <2>3, PlaceContents, PlaceContentsNext
  <2>4. CASE \E r \in Procs : x = OnWalk(r)
    <3>1. PICK r \in Procs : x = OnWalk(r)
      BY <2>4
    <3>2. call' = call
      BY <1>2
    <3> QED BY <3>1, <3>2, PlaceContents, PlaceContentsNext
  <2> QED BY <2>1, <2>2, <2>3, <2>4, PlaceNames
<1>8. InPool(k) \in Places /\ PlaceInv
  BY PlaceNames DEF BufInv
<1>9. PlaceInv'
  <2>1. Contents(InPool(k))' = (allocated + 1)..(allocated + n)
    BY <1>6 DEF N
  <2> QED BY <1>0, <1>2, <1>5, <1>7, <1>8, <2>1, Filled
<1>10. ListedOnce'
  <2>1. \A j \in PoolIds : j >= nbpools' => j # k /\ j >= nbpools
    BY <1>0, <1>1, <1>2 DEF PoolIds
  <2>2. \A j \in PoolIds : IsInjective(buftab'[j].bpnext)
                             /\ (j >= nbpools' => buftab'[j].bpnext = <<>>)
    BY <1>3, <1>6, <2>1 DEF BufInv, ListedOnce
  <2> QED BY <1>2, <2>2 DEF BufInv, ListedOnce
<1> QED BY <1>9, <1>10

\* _ptclear() takes the messages of the port for its own.
LEMMA ClearPlaces ==
  ASSUME BufInv, NEW p \in Procs, NEW i \in PortIds, NEW newstate, ptclear(p, i, newstate),
         UNCHANGED poolVars
  PROVE  ListedOnce' /\ PlaceInv'
<1>0. porttab \in [PortIds -> PortEntries] /\ call \in [Procs -> CallRecords]
  BY BufTypes
<1>1. /\ call[p] = Idle /\ porttab[i].ptstate = PT_ALLOC
      /\ porttab' = [porttab EXCEPT ![i].ptstate = PT_LIMBO, ![i].ptseq = @ + 1]
      /\ call' = [call EXCEPT ![p] = [op |-> "dispose", port |-> i, newstate |-> newstate,
                                     walk |-> porttab[i].ptmsgs]]
      /\ UNCHANGED <<nbpools, buftab, held, allocated, kills>>
  BY DEF ptclear, InUser, poolVars
<1>2. PoolsKept(NBPOOLS) /\ NBPOOLS \notin PoolIds /\ HandsKept(p)
  BY <1>1, PoolAssumption DEF PoolsKept, PoolIds, HandsKept
<1>3. PortsKept(i) /\ CallsKept(p)
  BY <1>0, <1>1 DEF PortsKept, CallsKept
<1>4. /\ porttab'[i].ptstate # PT_ALLOC /\ porttab'[i].ptmsgs = porttab[i].ptmsgs
      /\ call'[p].op = "dispose" /\ call'[p].walk = porttab[i].ptmsgs /\ call[p].op = "user"
  BY <1>0, <1>1 DEF PortEntries, PT_LIMBO, PT_ALLOC, Idle
<1>5. /\ Contents(OnWalk(p)) = {} /\ Contents(OnWalk(p))' = Contents(InPort(i))
      /\ Contents(InPort(i))' = {}
  <2>1. Contents(OnWalk(p)) = {}
    BY <1>4, PlaceContents
  <2>2. Contents(OnWalk(p))' = Range(porttab[i].ptmsgs)
    BY <1>4, PlaceContentsNext
  <2>3. Contents(InPort(i)) = Range(porttab[i].ptmsgs)
    BY <1>1, PlaceContents
  <2>4. Contents(InPort(i))' = {}
    BY <1>4, PlaceContentsNext
  <2> QED BY <2>1, <2>2, <2>3, <2>4
<1>6. Contents(InHands(p))' = Contents(InHands(p))
  BY <1>1, PlaceContents, PlaceContentsNext
<1>7. \A x \in Places \ {InPort(i), OnWalk(p)} : Contents(x)' = Contents(x)
  <2> SUFFICES ASSUME NEW x \in Places \ {InPort(i), OnWalk(p)} PROVE Contents(x)' = Contents(x)
    OBVIOUS
  <2>1. CASE x = InHands(p)
    BY <1>6, <2>1
  <2>2. CASE x # InHands(p)
    <3>1. x # InPool(NBPOOLS)
      BY <1>2 DEF Places, InPool
    <3> QED BY <1>2, <1>3, <2>2, <3>1, PlacesKept
  <2> QED BY <2>1, <2>2
<1>8. InPort(i) \in Places /\ OnWalk(p) \in Places /\ InPort(i) # OnWalk(p)
  BY PlaceNames
<1>9. PICK M : M = Contents(InPort(i))
  OBVIOUS
<1>10. /\ M \in SUBSET Contents(InPort(i)) /\ PlaceInv
       /\ Contents(InPort(i))' = Contents(InPort(i)) \ M
       /\ Contents(OnWalk(p))' = Contents(OnWalk(p)) \cup M
  BY <1>5, <1>9 DEF BufInv
<1>11. PlaceInv'
  BY <1>1, <1>7, <1>8, <1>10, Moved
<1>12. IsInjective(porttab'[i].ptmsgs) /\ IsInjective(call'[p].walk) /\ call'[p].op # "ptsend"
  BY <1>4 DEF BufInv, ListedOnce
<1> QED BY <1>2, <1>3, <1>11, <1>12, ListedKept

\* Nothing moves.
LEMMA StillPlaces ==
  ASSUME BufInv, NEW p \in Procs, CallsKept(p), NEW i \in PortIds, PortsKept(i),
         UNCHANGED <<nbpools, buftab, held, allocated, kills>>,
         Contents(InPort(i))' = Contents(InPort(i)), IsInjective(porttab'[i].ptmsgs),
         Contents(OnWalk(p))' = Contents(OnWalk(p)),
         call'[p].op = "dispose" => IsInjective(call'[p].walk),
         call'[p].op = "ptsend" => call'[p].msg \in held[p]
  PROVE  ListedOnce' /\ PlaceInv'
<1>1. PoolsKept(NBPOOLS) /\ NBPOOLS \notin PoolIds /\ HandsKept(p)
  BY PoolAssumption DEF PoolsKept, PoolIds, HandsKept
<1>2. Contents(InHands(p))' = Contents(InHands(p))
  BY PlaceContents, PlaceContentsNext
<1>3. ASSUME NEW x \in Places PROVE Contents(x)' = Contents(x)
  <2>1. CASE x \in {InPort(i), InHands(p), OnWalk(p)}
    BY <1>2, <2>1
  <2>2. CASE x \notin {InPort(i), InHands(p), OnWalk(p)}
    <3>1. x # InPool(NBPOOLS)
      BY <1>1 DEF Places, InPool
    <3> QED BY <1>1, <2>2, <3>1, PlacesKept
  <2> QED BY <2>1, <2>2
<1>4. PlaceInv'
  BY <1>3, Stayed DEF BufInv
<1> QED BY <1>1, <1>4, ListedKept

\* A process dies, and its buffers with it.
LEMMA KillPlaces ==
  ASSUME BufInv, NEW p \in Procs, kill(p)
  PROVE  ListedOnce' /\ PlaceInv'
<1>0. call \in [Procs -> CallRecords] /\ held \in [Procs -> SUBSET Bufs] /\ kills \in Nat
  BY BufTypes
<1>1. /\ call' = [call EXCEPT ![p] = Idle] /\ held' = [held EXCEPT ![p] = {}]
      /\ kills' = kills + 1 /\ porttab' = porttab
      /\ UNCHANGED <<nbpools, buftab, allocated>>
  BY DEF kill, killcaller, Return, otherPool, portVars
<1>2. /\ CallsKept(p) /\ HandsKept(p) /\ call'[p].op = "user" /\ held'[p] = {}
      /\ PoolsKept(NBPOOLS) /\ PortsKept(NPORTS)
  BY <1>0, <1>1 DEF CallsKept, HandsKept, PoolsKept, PortsKept, Idle
<1>3. NBPOOLS \notin PoolIds /\ NPORTS \notin PortIds
  BY PoolAssumption, PortAssumption DEF PoolIds, PortIds
<1>4. Contents(InHands(p))' = {} /\ Contents(OnWalk(p))' = {}
  BY <1>2, PlaceContentsNext
<1>5. ASSUME NEW x \in Places PROVE Contents(x)' \subseteq Contents(x)
  <2>1. CASE x \in {InHands(p), OnWalk(p)}
    BY <1>4, <2>1
  <2>2. CASE x \notin {InHands(p), OnWalk(p)}
    <3>1. x # InPool(NBPOOLS) /\ x # InPort(NPORTS)
      BY <1>3 DEF Places, InPool, InPort
    <3> QED BY <1>2, <2>2, <3>1, PlacesKept
  <2> QED BY <2>1, <2>2
<1>6. kills' # 0
  BY <1>0, <1>1
<1>7. PlaceInv'
  BY <1>1, <1>5, <1>6, Stayed DEF BufInv
<1> QED BY <1>2, <1>3, <1>7, ListedKept

\* A call that is refused, or that blocks.
LEMMA StalePlaces ==
  ASSUME BufInv, NEW p \in Procs, call[p].op # "dispose", Return(p), porttab' = porttab,
         UNCHANGED <<nbpools, buftab, held, allocated, kills>>
  PROVE  ListedOnce' /\ PlaceInv'
<1>0. call \in [Procs -> CallRecords]
  BY BufTypes
<1>1. CallsKept(p) /\ call'[p].op = "user" /\ \A i \in PortIds : PortsKept(i)
  BY <1>0 DEF Return, CallsKept, PortsKept, Idle
<1>2. PICK i \in PortIds : i = 0
  BY PortAssumption DEF PortIds
<1>3. /\ Contents(InPort(i))' = Contents(InPort(i))
      /\ Contents(OnWalk(p))' = Contents(OnWalk(p))
  BY <1>1, PlaceContents, PlaceContentsNext
<1>4. IsInjective(porttab'[i].ptmsgs)
  BY DEF BufInv, ListedOnce
<1> QED BY <1>1, <1>3, <1>4, StillPlaces

LEMMA BlockedPlaces ==
  ASSUME BufInv, NEW p \in Procs, NEW c, call[p] = Idle, call' = [call EXCEPT ![p] = c],
         c.op # "dispose", c.op = "ptsend" => c.msg \in held[p], porttab' = porttab,
         UNCHANGED <<nbpools, buftab, held, allocated, kills>>
  PROVE  ListedOnce' /\ PlaceInv'
<1>0. call \in [Procs -> CallRecords]
  BY BufTypes
<1>1. CallsKept(p) /\ call'[p] = c /\ call[p].op = "user" /\ \A i \in PortIds : PortsKept(i)
  BY <1>0 DEF CallsKept, PortsKept, Idle
<1>2. PICK i \in PortIds : i = 0
  BY PortAssumption DEF PortIds
<1>3. /\ Contents(InPort(i))' = Contents(InPort(i))
      /\ Contents(OnWalk(p))' = Contents(OnWalk(p))
  BY <1>1, PlaceContents, PlaceContentsNext
<1>4. IsInjective(porttab'[i].ptmsgs)
  BY DEF BufInv, ListedOnce
<1> QED BY <1>1, <1>3, <1>4, StillPlaces

\* The messages of a port that is being cleared are not there any more.
LEMMA ClearingPlaces ==
  ASSUME BufInv, NEW p \in Procs,
         ptclear_senders(p) \/ ptclear_receivers(p) \/ ptclear_end(p),
         UNCHANGED poolVars
  PROVE  ListedOnce' /\ PlaceInv'
<1>0. porttab \in [PortIds -> PortEntries] /\ call \in [Procs -> CallRecords]
  BY BufTypes
<1>1. call[p].op \in {"dispose", "receivers", "newstate"} /\ kills' = kills
  BY DEF ptclear_senders, ptclear_receivers, ptclear_end, Resumes
<1>2. call[p] \in ClearCalls
  BY <1>0, <1>1, CallKinds
<1>3. PICK i \in PortIds : i = call[p].port
  BY <1>2 DEF ClearCalls
<1>4. porttab[i].ptstate = PT_LIMBO /\ (call[p].op # "dispose" => porttab[i].ptmsgs = <<>>)
  BY <1>1, <1>3 DEF BufInv, TInv, MInv, ClearInv, Clearing
<1>5. CallsKept(p) /\ call'[p].op \in {"receivers", "newstate", "user"}
  <2>1. CASE ptclear_senders(p)
    <3>1. call' = [call EXCEPT ![p].op = "receivers"]
      BY <2>1 DEF ptclear_senders
    <3> QED BY <1>0, <1>2, <3>1 DEF CallsKept, ClearCalls
  <2>2. CASE ptclear_receivers(p)
    <3>1. call' = [call EXCEPT ![p].op = "newstate"]
      BY <2>2 DEF ptclear_receivers
    <3> QED BY <1>0, <1>2, <3>1 DEF CallsKept, ClearCalls
  <2>3. CASE ptclear_end(p)
    <3>1. call' = [call EXCEPT ![p] = Idle]
      BY <2>3 DEF ptclear_end, Return
    <3> QED BY <1>0, <3>1 DEF CallsKept, Idle
  <2> QED BY <2>1, <2>2, <2>3
<1>6. PortsKept(i) /\ (porttab'[i].ptstate = PT_ALLOC => porttab'[i].ptmsgs = <<>>)
         /\ porttab'[i].ptmsgs \in {<<>>, porttab[i].ptmsgs}
  <2>1. CASE ptclear_senders(p)
    <3>1. porttab' = [porttab EXCEPT ![i].ptmsgs = <<>>]
      BY <1>3, <2>1 DEF ptclear_senders
    <3> QED BY <1>0, <3>1 DEF PortsKept, PortEntries
  <2>2. CASE ptclear_receivers(p)
    <3>1. porttab' = porttab
      BY <2>2 DEF ptclear_receivers, portVars
    <3> QED BY <1>4, <3>1 DEF PortsKept, PT_LIMBO, PT_ALLOC
  <2>3. CASE ptclear_end(p)
    <3>1. call[p].op = "newstate"
      BY <2>3 DEF ptclear_end, Resumes
    <3>2. PICK n : n = call[p].newstate
      OBVIOUS
    <3>3. porttab' = [porttab EXCEPT ![i].ptstate = n]
      BY <1>3, <2>3, <3>2 DEF ptclear_end
    <3>4. porttab[i].ptmsgs = <<>>
      BY <1>4, <3>1
    <3> QED BY <1>0, <3>3, <3>4 DEF PortsKept, PortEntries
  <2> QED BY <2>1, <2>2, <2>3
<1> DEFINE e == <<>>
<1>7. Range(e) = {} /\ IsInjective(e)
  <2>1. Lists(e, Bufs, {})
    BY ListEmpty
  <2> HIDE DEF e
  <2> QED BY <2>1 DEF Lists
<1>8. Contents(InPort(i)) = {} /\ Contents(InPort(i))' = {}
  <2>1. Contents(InPort(i)) = {}
    BY <1>4, PlaceContents DEF PT_LIMBO, PT_ALLOC
  <2>2. porttab'[i].ptstate = PT_ALLOC => porttab'[i].ptmsgs = e
    BY <1>6
  <2>3. Contents(InPort(i))' = {}
    BY <1>7, <2>2, PlaceContentsNext
  <2> QED BY <2>1, <2>3
<1>9. Contents(OnWalk(p)) = {} /\ Contents(OnWalk(p))' = {}
  <2>1. call[p].op = "dispose" => call[p].walk = e
    BY DEF ptclear_senders, ptclear_receivers, ptclear_end, Resumes
  <2>2. Contents(OnWalk(p)) = {}
    BY <1>7, <2>1, PlaceContents
  <2>3. Contents(OnWalk(p))' = {}
    BY <1>5, PlaceContentsNext
  <2> QED BY <2>2, <2>3
<1>10. IsInjective(porttab'[i].ptmsgs)
  <2>1. IsInjective(porttab[i].ptmsgs)
    BY DEF BufInv, ListedOnce
  <2>2. porttab'[i].ptmsgs \in {e, porttab[i].ptmsgs}
    BY <1>6
  <2> QED BY <1>7, <2>1, <2>2
<1>11. UNCHANGED <<nbpools, buftab, held, allocated, kills>>
  BY <1>1 DEF poolVars
<1>12. call'[p].op # "dispose" /\ call'[p].op # "ptsend"
  BY <1>5
<1>13. Contents(InPort(i))' = Contents(InPort(i)) /\ Contents(OnWalk(p))' = Contents(OnWalk(p))
  BY <1>8, <1>9
<1> HIDE DEF e
<1> QED BY <1>5, <1>6, <1>10, <1>11, <1>12, <1>13, StillPlaces

\* A new port is empty.
LEMMA CreatePlaces ==
  ASSUME BufInv, NEW p \in Procs, create(p)
  PROVE  ListedOnce' /\ PlaceInv'
<1>0. porttab \in [PortIds -> PortEntries]
  BY BufTypes
<1>1. PICK count \in PortCounts : ptcreate(p, count)
  BY DEF create
<1>2. PICK i : i = nextport
  OBVIOUS
<1>3. i \in PortIds /\ porttab[i].ptstate = PT_FREE
  <2>1. FreePorts # {} /\ ptnextid \in PortIds
    BY <1>1 DEF ptcreate, BufInv, TInv, MInv, MsgTypes
  <2> QED BY <1>2, <2>1, NextPort
<1> DEFINE e == <<>>
<1>4. \E t : t.ptstate = PT_ALLOC /\ t.ptmsgs = e /\ porttab' = [porttab EXCEPT ![i] = t]
  BY <1>1, <1>2 DEF ptcreate
<1>5. porttab'[i].ptmsgs = e /\ PortsKept(i)
  BY <1>0, <1>3, <1>4 DEF PortsKept
<1>6. Range(e) = {} /\ IsInjective(e)
  <2>1. Lists(e, Bufs, {})
    BY ListEmpty
  <2> HIDE DEF e
  <2> QED BY <2>1 DEF Lists
<1> HIDE DEF e
<1>7. Contents(InPort(i)) = {} /\ Contents(InPort(i))' = {}
  <2>1. Contents(InPort(i)) = {}
    BY <1>3, PlaceContents DEF PT_FREE, PT_ALLOC
  <2>2. Contents(InPort(i))' = {}
    BY <1>5, <1>6, PlaceContentsNext
  <2> QED BY <2>1, <2>2
<1>8. call' = call /\ CallsKept(p) /\ call[p].op = "user"
         /\ UNCHANGED <<nbpools, buftab, held, allocated, kills>>
  BY <1>1 DEF ptcreate, create, InUser, Idle, CallsKept, poolVars
<1>9. Contents(OnWalk(p))' = Contents(OnWalk(p))
  BY <1>8, PlaceContents, PlaceContentsNext
<1>10. IsInjective(porttab'[i].ptmsgs)
  BY <1>5, <1>6
<1>11. call'[p].op # "dispose" /\ call'[p].op # "ptsend"
  BY <1>8
<1>12. Contents(InPort(i))' = Contents(InPort(i))
  BY <1>7
<1> QED BY <1>3, <1>5, <1>8, <1>9, <1>10, <1>11, <1>12, StillPlaces

LEMMA PortPlaces ==
  ASSUME BufInv, NEW p \in Procs, NEW i \in PortIds,
         recv(p, i) \/ \E b \in Bufs : send(p, i, b)
  PROVE  ListedOnce' /\ PlaceInv'
<1>0. call \in [Procs -> CallRecords]
  BY BufTypes
<1>1. UNCHANGED <<buftab, nbpools, allocated>>
  BY DEF recv, send, otherPool
<1>2. ASSUME NEW b \in Bufs, send(p, i, b) PROVE ListedOnce' /\ PlaceInv'
  <2>0. b \in held[p]
    BY <1>2 DEF send
  <2>1. CASE ptsend_now(p, i, b) /\ gives(p, b)
    <3>1. PICK t : t = wait(semtab, porttab[i].ptssem, p)
      OBVIOUS
    <3>2. /\ deposit(t, i, b) /\ gives(p, b) /\ ~panicked /\ porttab[i].ptstate = PT_ALLOC
          /\ call[p] = Idle /\ call' = call /\ kills' = kills
      BY <2>1, <3>1 DEF ptsend_now, InUser, Runs
    <3>3. call[p].op # "dispose" /\ CallsKept(p) /\ call'[p] = Idle
      BY <3>2 DEF Idle, CallsKept
    <3> QED BY <1>1, <2>0, <3>2, <3>3, DepositPlaces
  <2>2. CASE ptsend_block(p, i, b) /\ UNCHANGED held
    <3>1. PICK c : c = [op |-> "ptsend", port |-> i, seq |-> porttab[i].ptseq, msg |-> b]
      OBVIOUS
    <3>2. /\ call' = [call EXCEPT ![p] = c] /\ porttab' = porttab
          /\ kills' = kills /\ call[p] = Idle
      BY <2>2, <3>1 DEF ptsend_block, blocked, InUser, portVars
    <3>3. c.op # "dispose" /\ (c.op = "ptsend" => c.msg \in held[p])
      BY <2>0, <3>1
    <3> QED BY <1>1, <2>2, <3>2, <3>3, BlockedPlaces
  <2> QED BY <1>2, <2>1, <2>2 DEF send
<1>3. CASE recv(p, i)
  <2>1. CASE ptrecv_now(p, i) /\ takes(p, i)
    <3>1. PICK t : t = wait(semtab, porttab[i].ptrsem, p)
      OBVIOUS
    <3>2. /\ withdrawal(t, i) /\ takes(p, i) /\ porttab[i].ptstate = PT_ALLOC
          /\ call[p] = Idle /\ call' = call /\ kills' = kills
      BY <2>1, <3>1 DEF ptrecv_now, InUser
    <3>3. call[p].op # "dispose" /\ CallsKept(p) /\ call'[p] = Idle
      BY <3>2 DEF Idle, CallsKept
    <3> QED BY <1>1, <3>2, <3>3, WithdrawalPlaces
  <2>2. CASE ptrecv_block(p, i) /\ UNCHANGED held
    <3>1. PICK c : c = [op |-> "ptrecv", port |-> i, seq |-> porttab[i].ptseq, msg |-> 0]
      OBVIOUS
    <3>2. /\ call' = [call EXCEPT ![p] = c] /\ porttab' = porttab
          /\ kills' = kills /\ call[p] = Idle
      BY <2>2, <3>1 DEF ptrecv_block, blocked, InUser, portVars
    <3>3. c.op # "dispose" /\ (c.op = "ptsend" => c.msg \in held[p])
      BY <3>1
    <3> QED BY <1>1, <2>2, <3>2, <3>3, BlockedPlaces
  <2> QED BY <1>3, <2>1, <2>2 DEF recv
<1> QED BY <1>2, <1>3

LEMMA ResumePlaces ==
  ASSUME BufInv, NEW p \in Procs, resume(p)
  PROVE  ListedOnce' /\ PlaceInv'
<1>0. call \in [Procs -> CallRecords]
  BY BufTypes
<1>1. UNCHANGED <<buftab, nbpools, allocated>> /\ Return(p) /\ kills' = kills
        /\ call[p].op \in {"ptsend", "ptrecv"}
  BY DEF resume, otherPool, ptsend_resume, ptrecv_resume, pt_stale, Resumes
<1>2. CallsKept(p) /\ call'[p] = Idle /\ call[p].op # "dispose"
  BY <1>0, <1>1 DEF Return, CallsKept
<1>3. CASE ptsend_resume(p) /\ gives(p, call[p].msg)
  <2>1. call[p].op = "ptsend" /\ Fresh(call[p]) /\ ~panicked
    BY <1>3 DEF ptsend_resume, Resumes, Runs
  <2>2. call[p] \in SendCalls
    BY <1>0, <2>1, CallKinds
  <2>3. PICK i \in PortIds, b \in Bufs : i = call[p].port /\ b = call[p].msg
    BY <2>2 DEF SendCalls
  <2>t. PICK t : t = semtab
    OBVIOUS
  <2>4. deposit(t, i, b) /\ gives(p, b)
    BY <1>3, <2>3, <2>t DEF ptsend_resume
  <2>5. porttab[i].ptstate = PT_ALLOC
    BY <2>1, <2>3 DEF Fresh
  <2>6. b \in held[p]
    BY <2>1, <2>3 DEF BufInv, ListedOnce
  <2> QED BY <1>1, <1>2, <2>1, <2>4, <2>5, <2>6, DepositPlaces
<1>4. CASE ptrecv_resume(p) /\ takes(p, call[p].port)
  <2>1. call[p].op = "ptrecv" /\ Fresh(call[p])
    BY <1>4 DEF ptrecv_resume, Resumes
  <2>2. call[p] \in RecvCalls
    BY <1>0, <2>1, CallKinds
  <2>3. PICK i \in PortIds : i = call[p].port
    BY <2>2 DEF RecvCalls
  <2>t. PICK t : t = semtab
    OBVIOUS
  <2>4. withdrawal(t, i) /\ takes(p, i)
    BY <1>4, <2>3, <2>t DEF ptrecv_resume
  <2>5. porttab[i].ptstate = PT_ALLOC
    BY <2>1, <2>3 DEF Fresh
  <2> QED BY <1>1, <1>2, <2>4, <2>5, WithdrawalPlaces
<1>5. CASE pt_stale(p) /\ UNCHANGED held
  <2>1. porttab' = porttab
    BY <1>5 DEF pt_stale, portVars
  <2> QED BY <1>1, <1>2, <1>5, <2>1, StalePlaces
<1> QED BY <1>3, <1>4, <1>5 DEF resume

LEMMA GetPlaces ==
  ASSUME BufInv, NEW p \in Procs, UNCHANGED portVars,
         getbuf_resume(p) \/ \E k \in PoolIds : getbuf_now(p, k) \/ getbuf_block(p, k)
  PROVE  ListedOnce' /\ PlaceInv'
<1>0. call \in [Procs -> CallRecords] /\ porttab' = porttab
  BY BufTypes DEF portVars
<1>1. ASSUME NEW k \in PoolIds, getbuf_now(p, k) PROVE ListedOnce' /\ PlaceInv'
  <2>1. k < nbpools /\ unlink(p, k) /\ call[p] = Idle /\ call' = call /\ kills' = kills
    BY <1>1 DEF getbuf_now, InUser
  <2>2. CallsKept(p) /\ call[p].op # "dispose" /\ call'[p] = Idle
    BY <2>1 DEF CallsKept, Idle
  <2> QED BY <1>0, <2>1, <2>2, UnlinkPlaces
<1>2. ASSUME NEW k \in PoolIds, getbuf_block(p, k) PROVE ListedOnce' /\ PlaceInv'
  <2>1. PICK c : c = [op |-> "getbuf", pool |-> k]
    OBVIOUS
  <2>2. /\ call' = [call EXCEPT ![p] = c] /\ call[p] = Idle /\ kills' = kills
        /\ UNCHANGED <<nbpools, buftab, held, allocated>>
    BY <1>2, <2>1 DEF getbuf_block, InUser, poolVars
  <2>3. c.op # "dispose" /\ (c.op = "ptsend" => c.msg \in held[p])
    BY <2>1
  <2> QED BY <1>0, <2>2, <2>3, BlockedPlaces
<1>3. CASE getbuf_resume(p)
  <2>1. call[p].op = "getbuf" /\ Return(p) /\ kills' = kills
    BY <1>3 DEF getbuf_resume, Resumes
  <2>2. call[p] \in GetCalls
    BY <1>0, <2>1, CallKinds
  <2>3. PICK k \in PoolIds : k = call[p].pool
    BY <2>2 DEF GetCalls
  <2>4. k < nbpools
    BY <2>1, <2>3 DEF BufInv, TInv, MInv, OwnInv
  <2>5. unlink(p, k)
    BY <1>3, <2>3 DEF getbuf_resume
  <2>6. CallsKept(p) /\ call[p].op # "dispose" /\ call'[p] = Idle
    BY <1>0, <2>1 DEF Return, CallsKept
  <2> QED BY <1>0, <2>1, <2>4, <2>5, <2>6, UnlinkPlaces
<1> QED BY <1>1, <1>2, <1>3

LEMMA BufStep ==
  ASSUME BufInv, NEW p \in Procs, MsgStep(p)
  PROVE  ListedOnce' /\ PlaceInv'
<1>1. CASE create(p)
  BY <1>1, CreatePlaces
<1>2. CASE clear(p)
  <2>1. UNCHANGED poolVars
    BY <1>2 DEF clear
  <2>2. ASSUME NEW i \in PortIds, ptdelete(p, i) \/ ptreset(p, i)
        PROVE  ListedOnce' /\ PlaceInv'
    BY <2>1, <2>2, ClearPlaces DEF ptdelete, ptreset
  <2>3. CASE ptclear_senders(p) \/ ptclear_receivers(p) \/ ptclear_end(p)
    BY <2>1, <2>3, ClearingPlaces
  <2> QED BY <1>2, <2>2, <2>3 DEF clear
<1>3. CASE discard(p)
  BY <1>3, DiscardPlaces
<1>4. ASSUME NEW i \in PortIds, recv(p, i) \/ \E b \in Bufs : send(p, i, b)
      PROVE  ListedOnce' /\ PlaceInv'
  BY <1>4, PortPlaces
<1>5. CASE resume(p)
  BY <1>5, ResumePlaces
<1>6. CASE pool(p)
  <2>1. UNCHANGED portVars /\ porttab' = porttab
    BY <1>6 DEF pool, portVars
  <2>2. ASSUME NEW n \in PoolSizes, mkbufpool(p, n) PROVE ListedOnce' /\ PlaceInv'
    BY <2>1, <2>2, PoolPlaces
  <2>3. ASSUME NEW b \in Bufs, freebuf(p, b) PROVE ListedOnce' /\ PlaceInv'
    BY <2>1, <2>3, FreePlaces
  <2>4. CASE getbuf_resume(p) \/ \E k \in PoolIds : getbuf_now(p, k) \/ getbuf_block(p, k)
    BY <2>1, <2>4, GetPlaces
  <2> QED BY <1>6, <2>2, <2>3, <2>4 DEF pool
<1>7. CASE kill(p)
  BY <1>7, KillPlaces
<1> QED BY <1>1, <1>2, <1>3, <1>4, <1>5, <1>6, <1>7 DEF MsgStep

LEMMA BufNext == BufInv /\ [MsgNext]_msgVars => BufInv'
<1> SUFFICES ASSUME BufInv, [MsgNext]_msgVars PROVE BufInv'
  OBVIOUS
<1>1. TInv'
  BY TInvNext DEF BufInv
<1>2. CASE UNCHANGED <<msgVars>>
  <2>1. UNCHANGED <<porttab, buftab, nbpools, allocated, held, call, kills>>
    BY <1>2 DEF msgVars, portVars, poolVars, callVars
  <2>2. ListedOnce'
    BY <2>1 DEF BufInv, ListedOnce
  <2>3. \A x \in Places : Contents(x)' = Contents(x)
    BY <2>1 DEF Contents
  <2>4. PlaceInv'
    BY <2>1, <2>3, Stayed DEF BufInv
  <2> QED BY <1>1, <2>2, <2>4 DEF BufInv
<1>3. CASE panic /\ UNCHANGED <<portVars, poolVars>>
  <2>1. UNCHANGED <<msgVars>>
    BY <1>3 DEF panic, msgVars
  <2> QED BY <1>2, <2>1
<1>4. ASSUME NEW p \in Procs, MsgStep(p) PROVE BufInv'
  BY <1>1, <1>4, BufStep DEF BufInv
<1> QED BY <1>2, <1>3, <1>4 DEF MsgNext

LEMMA BufFirst == MsgInit => BufInv
<1> SUFFICES ASSUME MsgInit PROVE BufInv
  OBVIOUS
<1>1. TInv
  BY TInvInit
<1>2. /\ \A i \in PortIds : porttab[i].ptmsgs = <<>> /\ porttab[i].ptstate = PT_FREE
      /\ \A k \in PoolIds : buftab[k].bpnext = <<>>
      /\ \A p \in Procs : call[p].op = "user" /\ held[p] = {}
      /\ allocated = 0
  BY DEF MsgInit, PortInit, PoolInit, CallInit, Idle
<1> DEFINE e == <<>>
<1>3. Range(e) = {} /\ IsInjective(e)
  <2>1. Lists(e, Bufs, {})
    BY ListEmpty
  <2> HIDE DEF e
  <2> QED BY <2>1 DEF Lists
<1>4. ListedOnce
  BY <1>2, <1>3 DEF ListedOnce
<1>5. ASSUME NEW x \in Places PROVE Contents(x) = {}
  <2>1. CASE \E k \in PoolIds : x = InPool(k)
    <3>1. PICK k \in PoolIds : x = InPool(k)
      BY <2>1
    <3>2. buftab[k].bpnext = e
      BY <1>2
    <3> QED BY <1>3, <3>1, <3>2, PlaceContents
  <2>2. CASE \E i \in PortIds : x = InPort(i)
    <3>1. PICK i \in PortIds : x = InPort(i)
      BY <2>2
    <3> QED BY <1>2, <3>1, PlaceContents DEF PT_FREE, PT_ALLOC
  <2>3. CASE \E p \in Procs : x = InHands(p)
    BY <1>2, <2>3, PlaceContents
  <2>4. CASE \E p \in Procs : x = OnWalk(p)
    <3>1. PICK p \in Procs : x = OnWalk(p)
      BY <2>4
    <3> QED BY <1>2, <3>1, PlaceContents
  <2> QED BY <2>1, <2>2, <2>3, <2>4, PlaceNames
<1>6. PlaceInv
  <2>1. 1..allocated = {}
    BY <1>2
  <2> QED BY <1>5, <2>1 DEF PlaceInv, Disjoint, Allocated, Covered
<1> QED BY <1>1, <1>4, <1>6 DEF BufInv

LEMMA BufInvCorrect == MsgSpec => []BufInv
<1>1. MsgInit => BufInv
  BY BufFirst
<1>2. BufInv /\ [MsgNext]_msgVars => BufInv'
  BY BufNext
<1> QED BY <1>1, <1>2, PTL DEF MsgSpec

-----------------------------------------------------------------------------
(* One place for each buffer                                               *)

\* A set of which all members are the same.
LEMMA OneMember ==
  ASSUME NEW S, \A x, y \in S : x = y
  PROVE  /\ S = {} => Cardinality(S) = 0
         /\ S # {} => Cardinality(S) = 1
<1>1. S = {} => Cardinality(S) = 0
  BY FS_EmptySet
<1>2. ASSUME S # {} PROVE Cardinality(S) = 1
  <2>1. PICK x : x \in S
    BY <1>2
  <2>2. S = {x}
    BY <2>1
  <2> QED BY <2>2, FS_Singleton
<1> QED BY <1>1, <1>2

LEMMA OnePlace ==
  ASSUME BufInv, NEW b \in 1..allocated
  PROVE  BufferPlaces(b) <= 1 /\ (kills = 0 => BufferPlaces(b) = 1)
<1> DEFINE K == {k \in PoolIds : b \in Range(buftab[k].bpnext)}
           H == {p \in Procs : b \in held[p]}
           I == {i \in PortIds : porttab[i].ptstate = PT_ALLOC
                                   /\ b \in Range(porttab[i].ptmsgs)}
           W == {p \in Procs : call[p].op = "dispose" /\ b \in Range(call[p].walk)}
           k == Cardinality(K)
           h == Cardinality(H)
           i == Cardinality(I)
           w == Cardinality(W)
<1>1. /\ \A z \in K : InPool(z) \in Places /\ b \in Contents(InPool(z))
      /\ \A z \in H : InHands(z) \in Places /\ b \in Contents(InHands(z))
      /\ \A z \in I : InPort(z) \in Places /\ b \in Contents(InPort(z))
      /\ \A z \in W : OnWalk(z) \in Places /\ b \in Contents(OnWalk(z))
  BY PlaceNames, PlaceContents
<1>2. \A x, y \in Places : b \in Contents(x) /\ b \in Contents(y) => x = y
  BY DEF BufInv, PlaceInv, Disjoint
<1>3. kills = 0 => K # {} \/ H # {} \/ I # {} \/ W # {}
  <2> SUFFICES ASSUME kills = 0 PROVE K # {} \/ H # {} \/ I # {} \/ W # {}
    OBVIOUS
  <2>1. PICK x \in Places : b \in Contents(x)
    BY DEF BufInv, PlaceInv, Covered
  <2>2. CASE \E z \in PoolIds : x = InPool(z)
    <3>1. PICK z \in PoolIds : x = InPool(z)
      BY <2>2
    <3>2. z \in K
      BY <2>1, <3>1, PlaceContents
    <3> QED BY <3>2
  <2>3. CASE \E z \in PortIds : x = InPort(z)
    <3>1. PICK z \in PortIds : x = InPort(z)
      BY <2>3
    <3>2. z \in I
      BY <2>1, <3>1, PlaceContents
    <3> QED BY <3>2
  <2>4. CASE \E z \in Procs : x = InHands(z)
    <3>1. PICK z \in Procs : x = InHands(z)
      BY <2>4
    <3>2. z \in H
      BY <2>1, <3>1, PlaceContents
    <3> QED BY <3>2
  <2>5. CASE \E z \in Procs : x = OnWalk(z)
    <3>1. PICK z \in Procs : x = OnWalk(z)
      BY <2>5
    <3>2. z \in W
      BY <2>1, <3>1, PlaceContents
    <3> QED BY <3>2
  <2> QED BY <2>2, <2>3, <2>4, <2>5, PlaceNames
<1>4. BufferPlaces(b) = k + h + i + w
  BY DEF BufferPlaces
<1> HIDE DEF K, H, I, W
<1>5. /\ \A y, z \in K : y = z
      /\ \A y, z \in H : y = z
      /\ \A y, z \in I : y = z
      /\ \A y, z \in W : y = z
  BY <1>1, <1>2, PlaceNames
<1>6. /\ K = {} \/ (H = {} /\ I = {} /\ W = {})
      /\ H = {} \/ (I = {} /\ W = {})
      /\ I = {} \/ W = {}
  <2>1. ASSUME NEW y \in K, NEW z \in H PROVE FALSE
    BY <1>1, <1>2, PlaceNames
  <2>2. ASSUME NEW y \in K, NEW z \in I PROVE FALSE
    BY <1>1, <1>2, PlaceNames
  <2>3. ASSUME NEW y \in K, NEW z \in W PROVE FALSE
    BY <1>1, <1>2, PlaceNames
  <2>4. ASSUME NEW y \in H, NEW z \in I PROVE FALSE
    BY <1>1, <1>2, PlaceNames
  <2>5. ASSUME NEW y \in H, NEW z \in W PROVE FALSE
    BY <1>1, <1>2, PlaceNames
  <2>6. ASSUME NEW y \in I, NEW z \in W PROVE FALSE
    BY <1>1, <1>2, PlaceNames
  <2> QED BY <2>1, <2>2, <2>3, <2>4, <2>5, <2>6
<1>7. /\ (K = {} => k = 0) /\ (K # {} => k = 1)
      /\ (H = {} => h = 0) /\ (H # {} => h = 1)
      /\ (I = {} => i = 0) /\ (I # {} => i = 1)
      /\ (W = {} => w = 0) /\ (W # {} => w = 1)
  BY <1>5, OneMember
<1> HIDE DEF k, h, i, w
<1>8. /\ k + h + i + w <= 1
      /\ (K # {} \/ H # {} \/ I # {} \/ W # {}) => k + h + i + w = 1
  BY <1>6, <1>7
<1> QED BY <1>3, <1>4, <1>8

\* A buffer is on the list of a pool, in the hands of one process, a message of one
\* port or still to be disposed of: it is never in two of these places, and it is
\* lost only with a process that is killed.  And getbuf() finds a buffer whenever its
\* semaphore lets it through (getbuf.c:30, freebuf.c:33, ptclear.c:31, ptsend.c:33).
THEOREM BuffersAccountedCorrect == MsgSpec => []BuffersAccounted
<1>1. BufInv => BuffersSomewhere
  BY OnePlace DEF BuffersSomewhere
<1>2. BuffersCovered /\ BuffersSomewhere => BuffersAccounted
  BY DEF BuffersAccounted
<1> QED BY <1>1, <1>2, BufInvCorrect, BuffersCoveredCorrect, PTL

-----------------------------------------------------------------------------
(* Message nodes                                                           *)

\* A port in limbo or in use holds no more messages than its size, and panic() has
\* been called only when the ports may hold more than there are nodes.
NodeInv ==
  /\ ptfree + Cardinality(NodesInUse) = PT_MSGS
  /\ CountsFit => \A i \in PortIds :
       porttab[i].ptstate # PT_FREE => Len(porttab[i].ptmsgs) <= porttab[i].ptmaxcnt
  /\ CountsFit /\ panicked => Cardinality(NodesAllowed) > PT_MSGS

\* What two of the rows below do to each other.
LEMMA Rows ==
  /\ \A i, j, m, n : i # j => ({i} \X (1..m)) \cap ({j} \X (1..n)) = {}
  /\ \A i : \A n \in Nat : IsFiniteSet({i} \X (1..n)) /\ Cardinality({i} \X (1..n)) = n
<1>1. ASSUME NEW i, NEW n \in Nat
      PROVE  IsFiniteSet({i} \X (1..n)) /\ Cardinality({i} \X (1..n)) = n
  <2>1. IsFiniteSet({i}) /\ Cardinality({i}) = 1
    BY FS_Singleton
  <2>2. IsFiniteSet(1..n) /\ Cardinality(1..n) = n
    BY FS_Interval
  <2> DEFINE S == {i}
             T == 1..n
  <2> HIDE DEF S, T
  <2>3. IsFiniteSet(S \X T) /\ Cardinality(S \X T) = Cardinality(S) * Cardinality(T)
    BY <2>1, <2>2, FS_Product DEF S, T
  <2>4. Cardinality(S \X T) = 1 * n
    BY <2>1, <2>2, <2>3 DEF S, T
  <2> QED BY <2>3, <2>4 DEF S, T
<1> QED BY <1>1

LEMMA RowsFinite ==
  ASSUME NEW f, NEW S \in SUBSET PortIds, \A i \in S : f[i] \in Nat
  PROVE  IsFiniteSet(UNION {{i} \X (1..f[i]) : i \in S})
<1> DEFINE g == [i \in S |-> {i} \X (1..f[i])]
           T == {{i} \X (1..f[i]) : i \in S}
<1>1. g \in Surjection(S, T)
  BY DEF Surjection
<1>2. IsFiniteSet(S)
  <2>1. IsFiniteSet(PortIds)
    BY PortAssumption, FS_Interval DEF PortIds
  <2> QED BY <2>1, FS_Subset
<1>3. \A U \in T : IsFiniteSet(U)
  <2>1. ASSUME NEW i \in S PROVE IsFiniteSet({i} \X (1..f[i]))
    BY Rows
  <2> QED BY <2>1
<1> HIDE DEF g, T
<1>4. IsFiniteSet(T)
  BY <1>1, <1>2, FS_Surjection
<1>5. IsFiniteSet(UNION T)
  BY <1>3, <1>4, FS_UNION
<1> QED BY <1>5 DEF T

LEMMA NodesFinite ==
  ASSUME porttab \in [PortIds -> PortEntries]
  PROVE  /\ IsFiniteSet(NodesInUse) /\ IsFiniteSet(NodesAllowed)
         /\ \A i \in PortIds : Len(porttab[i].ptmsgs) \in Nat /\ porttab[i].ptmaxcnt \in Nat
<1>1. \A i \in PortIds : porttab[i].ptmsgs \in Seq(Bufs) /\ porttab[i].ptmaxcnt \in Nat
  BY DEF PortEntries
<1>2. \A i \in PortIds : Len(porttab[i].ptmsgs) \in Nat
  BY <1>1, LenProperties
<1>3. PICK f : f = [i \in PortIds |-> Len(porttab[i].ptmsgs)]
  OBVIOUS
<1>4. PICK g : g = [i \in PortIds |-> porttab[i].ptmaxcnt]
  OBVIOUS
<1>5. PICK S \in SUBSET PortIds : S = PortIds \ FreePorts
  OBVIOUS
<1>6. IsFiniteSet(UNION {{i} \X (1..f[i]) : i \in PortIds})
  <2>1. \A i \in PortIds : f[i] \in Nat
    BY <1>2, <1>3
  <2>2. PortIds \in SUBSET PortIds
    OBVIOUS
  <2> QED BY <2>1, <2>2, RowsFinite
<1>7. IsFiniteSet(UNION {{i} \X (1..g[i]) : i \in S})
  <2>1. \A i \in S : g[i] \in Nat
    BY <1>1, <1>4
  <2> QED BY <2>1, RowsFinite
<1>8. NodesInUse = UNION {{i} \X (1..f[i]) : i \in PortIds}
  BY <1>3 DEF NodesInUse
<1>9. NodesAllowed = UNION {{i} \X (1..g[i]) : i \in S}
  BY <1>4, <1>5 DEF NodesAllowed
<1> QED BY <1>1, <1>2, <1>6, <1>7, <1>8, <1>9

\* Messages come to one port, or go from it.
LEMMA NodesChange ==
  ASSUME porttab \in [PortIds -> PortEntries], porttab' \in [PortIds -> PortEntries],
         NEW i \in PortIds, PortsKept(i)
  PROVE  Cardinality(NodesInUse') =
           Cardinality(NodesInUse) - Len(porttab[i].ptmsgs) + Len(porttab'[i].ptmsgs)
<1>1. PICK m : m = Len(porttab[i].ptmsgs)
  OBVIOUS
<1>2. PICK n : n = Len(porttab'[i].ptmsgs)
  OBVIOUS
<1>3. m \in Nat /\ n \in Nat
  <2>1. porttab[i].ptmsgs \in Seq(Bufs) /\ porttab'[i].ptmsgs \in Seq(Bufs)
    BY DEF PortEntries
  <2> QED BY <1>1, <1>2, <2>1, LenProperties
<1> DEFINE Rest == UNION {{j} \X (1..Len(porttab[j].ptmsgs)) : j \in PortIds \ {i}}
           Old == {i} \X (1..m)
           New == {i} \X (1..n)
<1>4. NodesInUse = Rest \cup Old
  BY <1>1 DEF NodesInUse
<1>5. NodesInUse' = Rest \cup New
  <2>1. Rest = UNION {{j} \X (1..Len(porttab'[j].ptmsgs)) : j \in PortIds \ {i}}
    BY DEF PortsKept
  <2>2. NodesInUse' = UNION {{j} \X (1..Len(porttab'[j].ptmsgs)) : j \in PortIds}
    BY DEF NodesInUse
  <2> HIDE DEF Rest
  <2> QED BY <1>2, <2>1, <2>2
<1>6. Rest \cap Old = {} /\ Rest \cap New = {}
  BY Rows
<1>7. /\ IsFiniteSet(Old) /\ Cardinality(Old) = m
      /\ IsFiniteSet(New) /\ Cardinality(New) = n
  BY <1>3, Rows
<1> HIDE DEF Rest, Old, New
<1>8. PICK R : R = Rest
  OBVIOUS
<1>9. IsFiniteSet(R)
  <2>1. IsFiniteSet(NodesInUse)
    BY NodesFinite
  <2>2. R \subseteq NodesInUse
    BY <1>4, <1>8
  <2>3. PICK N : N = NodesInUse
    OBVIOUS
  <2> QED BY <2>1, <2>2, <2>3, FS_Subset
<1>10. Cardinality(R) \in Nat
  BY <1>9, FS_CardinalityType
<1>11. Cardinality(R \cup Old) = Cardinality(R) + m
  <2>1. Cardinality(R \cup Old) = Cardinality(R) + Cardinality(Old) - Cardinality(R \cap Old)
    BY <1>7, <1>9, FS_Union
  <2>2. Cardinality(R \cap Old) = 0
    BY <1>6, <1>8, FS_EmptySet
  <2> QED BY <1>3, <1>7, <1>10, <2>1, <2>2
<1>12. Cardinality(R \cup New) = Cardinality(R) + n
  <2>1. Cardinality(R \cup New) = Cardinality(R) + Cardinality(New) - Cardinality(R \cap New)
    BY <1>7, <1>9, FS_Union
  <2>2. Cardinality(R \cap New) = 0
    BY <1>6, <1>8, FS_EmptySet
  <2> QED BY <1>3, <1>7, <1>10, <2>1, <2>2
<1> QED BY <1>1, <1>2, <1>3, <1>4, <1>5, <1>8, <1>10, <1>11, <1>12

LEMMA NodesPass ==
  ASSUME TInv, TInv', NodeInv, NEW i \in PortIds, PortsKept(i), ~panicked',
         ptfree' + Len(porttab'[i].ptmsgs) = ptfree + Len(porttab[i].ptmsgs),
         CountsFit /\ porttab'[i].ptstate # PT_FREE =>
           Len(porttab'[i].ptmsgs) <= porttab'[i].ptmaxcnt
  PROVE  NodeInv'
<1>1. /\ porttab \in [PortIds -> PortEntries] /\ porttab' \in [PortIds -> PortEntries]
      /\ ptfree \in Nat /\ ptfree' \in Nat
  BY DEF TInv, MInv, MsgTypes
<1>2. Len(porttab[i].ptmsgs) \in Nat /\ Len(porttab'[i].ptmsgs) \in Nat
  <2>1. porttab[i].ptmsgs \in Seq(Bufs) /\ porttab'[i].ptmsgs \in Seq(Bufs)
    BY <1>1 DEF PortEntries
  <2> QED BY <2>1, LenProperties
<1>3. Cardinality(NodesInUse') =
        Cardinality(NodesInUse) - Len(porttab[i].ptmsgs) + Len(porttab'[i].ptmsgs)
  BY <1>1, NodesChange
<1>4. Cardinality(NodesInUse) \in Nat
  <2>1. PICK N : N = NodesInUse
    OBVIOUS
  <2> QED BY <1>1, <2>1, NodesFinite, FS_CardinalityType
<1>5. ptfree + Cardinality(NodesInUse) = PT_MSGS
  BY DEF NodeInv
<1>6. ptfree' + Cardinality(NodesInUse') = PT_MSGS
  <2>1. PICK c, d, m, n : /\ c = Cardinality(NodesInUse) /\ d = Cardinality(NodesInUse')
                          /\ m = Len(porttab[i].ptmsgs) /\ n = Len(porttab'[i].ptmsgs)
    OBVIOUS
  <2>2. PICK a, b : a = ptfree /\ b = ptfree'
    OBVIOUS
  <2>3. /\ d = c - m + n /\ a + c = PT_MSGS /\ b + n = a + m
        /\ a \in Nat /\ b \in Nat /\ c \in Nat /\ m \in Nat /\ n \in Nat
    BY <1>1, <1>2, <1>3, <1>4, <1>5, <2>1, <2>2
  <2>4. b + d = PT_MSGS
    BY <2>3
  <2> QED BY <2>1, <2>2, <2>4
<1>7. CountsFit => \A j \in PortIds :
        porttab'[j].ptstate # PT_FREE => Len(porttab'[j].ptmsgs) <= porttab'[j].ptmaxcnt
  BY DEF NodeInv, PortsKept
<1> QED BY <1>6, <1>7 DEF NodeInv, CountsFit

\* A step that has nothing to do with messages.
LEMMA NodesSame ==
  ASSUME TInv, TInv', NodeInv, ~panicked', porttab' = porttab, ptfree' = ptfree
  PROVE  NodeInv'
<1>1. PICK i \in PortIds : i = 0
  BY PortAssumption DEF PortIds
<1>2. PortsKept(i)
  BY DEF PortsKept
<1>3. CountsFit /\ porttab'[i].ptstate # PT_FREE =>
        Len(porttab'[i].ptmsgs) <= porttab'[i].ptmaxcnt
  BY DEF NodeInv
<1> QED BY <1>2, <1>3, NodesPass

\* A sender finds no node: those in use are not all that its port may use.
LEMMA NodesOut ==
  ASSUME TInv, NodeInv, NEW i \in PortIds, ptfree = 0, ptfree' = 0, porttab' = porttab,
         CountsFit =>
           porttab[i].ptstate = PT_ALLOC /\ Len(porttab[i].ptmsgs) < porttab[i].ptmaxcnt
  PROVE  NodeInv'
<1>0. porttab \in [PortIds -> PortEntries]
  BY DEF TInv, MInv, MsgTypes
<1>1. NodesInUse' = NodesInUse /\ NodesAllowed' = NodesAllowed
  BY DEF NodesInUse, NodesAllowed, FreePorts
<1>2. CountsFit => \A j \in PortIds :
        porttab'[j].ptstate # PT_FREE => Len(porttab'[j].ptmsgs) <= porttab'[j].ptmaxcnt
  BY DEF NodeInv
<1>3. ASSUME CountsFit PROVE Cardinality(NodesAllowed) > PT_MSGS
  <2>1. porttab[i].ptstate = PT_ALLOC /\ Len(porttab[i].ptmsgs) < porttab[i].ptmaxcnt
    BY <1>3
  <2>2. PICK n \in Nat : n = Len(porttab[i].ptmsgs) + 1
    BY <1>0, NodesFinite
  <2>3. n \in 1..porttab[i].ptmaxcnt /\ n \notin 1..Len(porttab[i].ptmsgs)
    BY <1>0, <2>1, <2>2, NodesFinite
  <2>4. <<i, n>> \in NodesAllowed
    <3>1. i \in PortIds \ FreePorts
      BY <2>1 DEF FreePorts, PT_FREE, PT_ALLOC
    <3> QED BY <2>3, <3>1 DEF NodesAllowed
  <2>5. <<i, n>> \notin NodesInUse
    BY <2>3 DEF NodesInUse
  <2>6. NodesInUse \subseteq NodesAllowed
    <3> SUFFICES ASSUME NEW j \in PortIds, NEW k \in 1..Len(porttab[j].ptmsgs)
                 PROVE  <<j, k>> \in NodesAllowed
      BY DEF NodesInUse
    <3>1. j \notin FreePorts
      <4>1. CASE porttab[j].ptstate = PT_FREE
        <5>1. porttab[j].ptmsgs = <<>>
          BY <4>1 DEF TInv, MInv, ClearInv
        <5>2. Len(porttab[j].ptmsgs) = 0
          BY <5>1
        <5> QED BY <5>2
      <4> QED BY <4>1 DEF FreePorts
    <3>2. k \in 1..porttab[j].ptmaxcnt
      <4>1. Len(porttab[j].ptmsgs) <= porttab[j].ptmaxcnt
        BY <1>3, <3>1 DEF NodeInv, FreePorts
      <4> QED BY <1>0, <4>1, NodesFinite
    <3> QED BY <3>1, <3>2 DEF NodesAllowed
  <2>7. PICK U, A : U = NodesInUse /\ A = NodesAllowed
    OBVIOUS
  <2>8. /\ IsFiniteSet(A) /\ U \in SUBSET A /\ U # A
    BY <1>0, <2>4, <2>5, <2>6, <2>7, NodesFinite
  <2>9. Cardinality(U) <= Cardinality(A) /\ Cardinality(U) # Cardinality(A)
    BY <2>8, FS_Subset
  <2>10. Cardinality(U) \in Nat /\ Cardinality(A) \in Nat
    BY <2>8, FS_Subset, FS_CardinalityType
  <2>11. Cardinality(U) = PT_MSGS
    BY <2>7, <2>10 DEF NodeInv
  <2> QED BY <2>7, <2>9, <2>10, <2>11
<1>4. ptfree' + Cardinality(NodesInUse') = PT_MSGS
  BY <1>1 DEF NodeInv
<1> QED BY <1>1, <1>2, <1>3, <1>4 DEF NodeInv, CountsFit

LEMMA NodesDeposit ==
  ASSUME TInv, TInv', NodeInv, ~panicked, NEW i \in PortIds, NEW b \in Bufs, NEW t,
         deposit(t, i, b),
         CountsFit =>
           porttab[i].ptstate = PT_ALLOC /\ Len(porttab[i].ptmsgs) < porttab[i].ptmaxcnt
  PROVE  NodeInv'
<1>1. porttab \in [PortIds -> PortEntries] /\ ptfree \in Nat /\ porttab[i].ptmsgs \in Seq(Bufs)
  BY DEF TInv, MInv, MsgTypes, PortEntries
<1>2. CASE ptfree = 0 /\ UNCHANGED <<porttab, ptfree>>
  BY <1>2, NodesOut
<1>3. CASE /\ ptfree > 0 /\ ptfree' = ptfree - 1 /\ panicked' = panicked
           /\ porttab' = [porttab EXCEPT ![i].ptmsgs = Append(@, b)]
  <2>1. PICK q : q = Append(porttab[i].ptmsgs, b)
    OBVIOUS
  <2>2. PICK m \in Nat : m = Len(porttab[i].ptmsgs)
    BY <1>1, NodesFinite
  <2>3. Len(q) = m + 1
    BY <1>1, <2>1, <2>2, AppendProperties
  <2>4. porttab' = [porttab EXCEPT ![i].ptmsgs = q]
    BY <1>3, <2>1
  <2>5. /\ porttab'[i].ptmsgs = q /\ porttab'[i].ptmaxcnt = porttab[i].ptmaxcnt /\ PortsKept(i)
    BY <1>1, <2>4 DEF PortEntries, PortsKept
  <2>6. CountsFit /\ porttab'[i].ptstate # PT_FREE =>
          Len(porttab'[i].ptmsgs) <= porttab'[i].ptmaxcnt
    <3>1. porttab[i].ptmaxcnt \in Nat
      BY <1>1, NodesFinite
    <3> QED BY <2>2, <2>3, <2>5, <3>1
  <2>7. ptfree' + Len(porttab'[i].ptmsgs) = ptfree + Len(porttab[i].ptmsgs)
    BY <1>1, <1>3, <2>2, <2>3, <2>5
  <2> QED BY <1>3, <2>5, <2>6, <2>7, NodesPass
<1> QED BY <1>2, <1>3 DEF deposit

LEMMA NodesWithdrawal ==
  ASSUME TInv, TInv', NodeInv, ~panicked, NEW i \in PortIds, NEW t, withdrawal(t, i)
  PROVE  NodeInv'
<1>1. porttab \in [PortIds -> PortEntries] /\ ptfree \in Nat /\ porttab[i].ptmsgs \in Seq(Bufs)
  BY DEF TInv, MInv, MsgTypes, PortEntries
<1>2. PICK q : q = Tail(porttab[i].ptmsgs)
  OBVIOUS
<1>3. /\ porttab[i].ptmsgs # <<>> /\ ptfree' = ptfree + 1 /\ panicked' = panicked
      /\ porttab' = [porttab EXCEPT ![i].ptmsgs = q]
  BY <1>2 DEF withdrawal
<1>4. PICK m \in Nat : m = Len(porttab[i].ptmsgs)
  BY <1>1, NodesFinite
<1>5. Len(q) = m - 1
  BY <1>1, <1>2, <1>3, <1>4, HeadTailProperties
<1>6. /\ porttab'[i].ptmsgs = q /\ porttab'[i].ptmaxcnt = porttab[i].ptmaxcnt
      /\ porttab'[i].ptstate = porttab[i].ptstate /\ PortsKept(i)
  BY <1>1, <1>3 DEF PortEntries, PortsKept
<1>7. CountsFit /\ porttab'[i].ptstate # PT_FREE =>
        Len(porttab'[i].ptmsgs) <= porttab'[i].ptmaxcnt
  <2>1. porttab[i].ptmaxcnt \in Nat
    BY <1>1, NodesFinite
  <2>2. CountsFit /\ porttab[i].ptstate # PT_FREE => m <= porttab[i].ptmaxcnt
    BY <1>4 DEF NodeInv
  <2> QED BY <1>5, <1>6, <2>1, <2>2
<1>8. ptfree' + Len(porttab'[i].ptmsgs) = ptfree + Len(porttab[i].ptmsgs)
  <2>1. PICK f \in Nat : f = ptfree
    BY <1>1
  <2>2. ptfree' = f + 1 /\ Len(porttab'[i].ptmsgs) = m - 1
    BY <1>3, <1>5, <1>6, <2>1
  <2>3. (f + 1) + (m - 1) = f + m
    OBVIOUS
  <2> QED BY <1>4, <2>1, <2>2, <2>3
<1> QED BY <1>3, <1>6, <1>7, <1>8, NodesPass

\* The nodes of a port come back when it is cleared (ptclear.c:36).
LEMMA NodesClear ==
  ASSUME TInv, TInv', NodeInv, NEW p \in Procs, clear(p)
  PROVE  NodeInv'
<1>0. /\ porttab \in [PortIds -> PortEntries] /\ call \in [Procs -> CallRecords] /\ ptfree \in Nat
      /\ \A i \in PortIds : Len(porttab[i].ptmsgs) \in Nat /\ porttab[i].ptmaxcnt \in Nat
  BY NodesFinite DEF TInv, MInv, MsgTypes
<1>1. ~panicked'
  BY DEF clear, ptdelete, ptreset, ptclear, ptclear_senders, ptclear_receivers, ptclear_end,
         InUser, Resumes, Runs
<1>2. ASSUME NEW i \in PortIds, ptdelete(p, i) \/ ptreset(p, i) PROVE NodeInv'
  <2>1. /\ porttab[i].ptstate = PT_ALLOC /\ ptfree' = ptfree
        /\ porttab' = [porttab EXCEPT ![i].ptstate = PT_LIMBO, ![i].ptseq = @ + 1]
    BY <1>2 DEF ptdelete, ptreset, ptclear
  <2>2. /\ porttab'[i].ptmsgs = porttab[i].ptmsgs
        /\ porttab'[i].ptmaxcnt = porttab[i].ptmaxcnt /\ PortsKept(i)
    BY <1>0, <2>1 DEF PortEntries, PortsKept
  <2>3. CountsFit => Len(porttab[i].ptmsgs) <= porttab[i].ptmaxcnt
    BY <2>1 DEF NodeInv, PT_ALLOC, PT_FREE
  <2>4. ptfree' + Len(porttab'[i].ptmsgs) = ptfree + Len(porttab[i].ptmsgs)
    BY <2>1, <2>2
  <2> QED BY <1>1, <2>2, <2>3, <2>4, NodesPass
<1>3. CASE ptclear_senders(p) \/ ptclear_end(p)
  <2>0. call[p].op \in {"dispose", "receivers", "newstate"}
    BY <1>3 DEF ptclear_senders, ptclear_end, Resumes
  <2>1. call[p] \in ClearCalls
    BY <1>0, <2>0, CallKinds
  <2>2. PICK i \in PortIds : i = call[p].port
    BY <2>1 DEF ClearCalls
  <2>3. porttab[i].ptstate = PT_LIMBO
    BY <2>0, <2>2 DEF TInv, MInv, ClearInv, Clearing
  <2>4. CASE ptclear_senders(p)
    <3> DEFINE e == <<>>
    <3>1. Len(e) = 0
      OBVIOUS
    <3>2. porttab' = [porttab EXCEPT ![i].ptmsgs = e] /\ ptfree' = ptfree + Len(porttab[i].ptmsgs)
      BY <2>2, <2>4 DEF ptclear_senders
    <3> HIDE DEF e
    <3>3. /\ porttab'[i].ptmsgs = e /\ porttab'[i].ptmaxcnt = porttab[i].ptmaxcnt /\ PortsKept(i)
      BY <1>0, <3>2 DEF PortEntries, PortsKept
    <3>4. ptfree' + Len(porttab'[i].ptmsgs) = ptfree + Len(porttab[i].ptmsgs)
      BY <1>0, <3>1, <3>2, <3>3
    <3>5. Len(porttab'[i].ptmsgs) <= porttab'[i].ptmaxcnt
      BY <1>0, <3>1, <3>3
    <3> QED BY <1>1, <3>3, <3>4, <3>5, NodesPass
  <2>5. CASE ptclear_end(p)
    <3>1. PICK s : s = call[p].newstate
      OBVIOUS
    <3>2. porttab' = [porttab EXCEPT ![i].ptstate = s] /\ ptfree' = ptfree
      BY <2>2, <2>5, <3>1 DEF ptclear_end
    <3>3. /\ porttab'[i].ptmsgs = porttab[i].ptmsgs
          /\ porttab'[i].ptmaxcnt = porttab[i].ptmaxcnt /\ PortsKept(i)
      BY <1>0, <3>2 DEF PortEntries, PortsKept
    <3>4. CountsFit => Len(porttab[i].ptmsgs) <= porttab[i].ptmaxcnt
      BY <2>3 DEF NodeInv, PT_LIMBO, PT_FREE
    <3>5. ptfree' + Len(porttab'[i].ptmsgs) = ptfree + Len(porttab[i].ptmsgs)
      BY <3>2, <3>3
    <3> QED BY <1>1, <3>3, <3>4, <3>5, NodesPass
  <2> QED BY <1>3, <2>4, <2>5
<1>4. CASE ptclear_receivers(p)
  BY <1>1, <1>4, NodesSame DEF ptclear_receivers, portVars
<1> QED BY <1>2, <1>3, <1>4 DEF clear

LEMMA NodesCreate ==
  ASSUME TInv, TInv', NodeInv, NEW p \in Procs, create(p)
  PROVE  NodeInv'
<1>0. porttab \in [PortIds -> PortEntries] /\ porttab' \in [PortIds -> PortEntries]
  BY DEF TInv, MInv, MsgTypes
<1>1. PICK count \in PortCounts : ptcreate(p, count)
  BY DEF create
<1>2. ptfree' = ptfree /\ ~panicked'
  BY <1>1 DEF ptcreate, InUser, Runs
<1>3. PICK i : i = nextport
  OBVIOUS
<1>4. i \in PortIds /\ porttab[i].ptstate = PT_FREE
  <2>1. FreePorts # {} /\ ptnextid \in PortIds
    BY <1>1 DEF ptcreate, TInv, MInv, MsgTypes
  <2> QED BY <1>3, <2>1, NextPort
<1> DEFINE e == <<>>
<1>5. \E t : t.ptmsgs = e /\ porttab' = [porttab EXCEPT ![i] = t]
  BY <1>1, <1>3 DEF ptcreate
<1>6. porttab'[i].ptmsgs = e /\ PortsKept(i)
  BY <1>0, <1>4, <1>5 DEF PortsKept
<1>7. porttab[i].ptmsgs = e
  BY <1>4 DEF TInv, MInv, ClearInv
<1>8. Len(e) = 0
  OBVIOUS
<1> HIDE DEF e
<1>9. porttab'[i].ptmaxcnt \in Nat
  BY <1>0, <1>4 DEF PortEntries
<1>10. Len(porttab'[i].ptmsgs) <= porttab'[i].ptmaxcnt
  BY <1>6, <1>8, <1>9
<1>11. ptfree' + Len(porttab'[i].ptmsgs) = ptfree + Len(porttab[i].ptmsgs)
  BY <1>2, <1>6, <1>7
<1> QED BY <1>2, <1>4, <1>6, <1>10, <1>11, NodesPass

LEMMA NodesStep ==
  ASSUME CInv, TInv', NodeInv, NEW p \in Procs, MsgStep(p)
  PROVE  NodeInv'
<1>0. TInv
  BY DEF CInv
<1>1. CASE create(p)
  BY <1>0, <1>1, NodesCreate
<1>2. CASE clear(p)
  BY <1>0, <1>2, NodesClear
<1>3. CASE discard(p)
  <2>1. ~panicked' /\ porttab' = porttab /\ ptfree' = ptfree
    BY <1>3 DEF discard, dispose, Resumes, Runs, portVars
  <2> QED BY <1>0, <2>1, NodesSame
<1>4. ASSUME NEW i \in PortIds, recv(p, i) PROVE NodeInv'
  <2>1. CASE ptrecv_now(p, i)
    <3>1. PICK t : t = wait(semtab, porttab[i].ptrsem, p)
      OBVIOUS
    <3>2. ~panicked /\ withdrawal(t, i)
      BY <2>1, <3>1 DEF ptrecv_now, InUser, Runs
    <3> QED BY <1>0, <3>2, NodesWithdrawal
  <2>2. CASE ptrecv_block(p, i)
    <3>1. ~panicked' /\ porttab' = porttab /\ ptfree' = ptfree
      BY <2>2 DEF ptrecv_block, blocked, InUser, Runs, portVars
    <3> QED BY <1>0, <3>1, NodesSame
  <2> QED BY <1>4, <2>1, <2>2 DEF recv
<1>5. ASSUME NEW i \in PortIds, NEW b \in Bufs, send(p, i, b) PROVE NodeInv'
  <2>1. CASE ptsend_now(p, i, b)
    <3>1. PICK t : t = wait(semtab, porttab[i].ptssem, p)
      OBVIOUS
    <3>2. ~panicked /\ deposit(t, i, b)
      BY <2>1, <3>1 DEF ptsend_now, InUser, Runs
    <3>3. CountsFit =>
            porttab[i].ptstate = PT_ALLOC /\ Len(porttab[i].ptmsgs) < porttab[i].ptmaxcnt
      BY <2>1, SendNowRoom
    <3> QED BY <1>0, <3>2, <3>3, NodesDeposit
  <2>2. CASE ptsend_block(p, i, b)
    <3>1. ~panicked' /\ porttab' = porttab /\ ptfree' = ptfree
      BY <2>2 DEF ptsend_block, blocked, InUser, Runs, portVars
    <3> QED BY <1>0, <3>1, NodesSame
  <2> QED BY <1>5, <2>1, <2>2 DEF send
<1>6. CASE resume(p)
  <2>0. call \in [Procs -> CallRecords]
    BY <1>0 DEF TInv, MInv, MsgTypes
  <2>1. CASE ptsend_resume(p)
    <3>1. PICK i \in PortIds, b \in Bufs : i = call[p].port /\ b = call[p].msg
      BY <2>0, <2>1, CallKinds DEF SendCalls, ptsend_resume, Resumes
    <3>2. PICK t : t = semtab
      OBVIOUS
    <3>3. ~panicked /\ deposit(t, i, b)
      BY <2>1, <3>1, <3>2 DEF ptsend_resume, Resumes, Runs
    <3>4. CountsFit =>
            porttab[i].ptstate = PT_ALLOC /\ Len(porttab[i].ptmsgs) < porttab[i].ptmaxcnt
      BY <2>1, <3>1, SendResumeRoom
    <3> QED BY <1>0, <3>3, <3>4, NodesDeposit
  <2>2. CASE ptrecv_resume(p)
    <3>1. PICK i \in PortIds : i = call[p].port
      BY <2>0, <2>2, CallKinds DEF RecvCalls, ptrecv_resume, Resumes
    <3>2. PICK t : t = semtab
      OBVIOUS
    <3>3. ~panicked /\ withdrawal(t, i)
      BY <2>2, <3>1, <3>2 DEF ptrecv_resume, Resumes, Runs
    <3> QED BY <1>0, <3>3, NodesWithdrawal
  <2>3. CASE pt_stale(p)
    <3>1. ~panicked' /\ porttab' = porttab /\ ptfree' = ptfree
      BY <2>3 DEF pt_stale, Runs, portVars
    <3> QED BY <1>0, <3>1, NodesSame
  <2> QED BY <1>6, <2>1, <2>2, <2>3 DEF resume
<1>7. CASE pool(p)
  <2>1. ~panicked' /\ porttab' = porttab /\ ptfree' = ptfree
    BY <1>7 DEF pool, mkbufpool, getbuf_now, getbuf_block, getbuf_resume, freebuf,
                InUser, Resumes, Runs, portVars
  <2> QED BY <1>0, <2>1, NodesSame
<1>8. CASE kill(p)
  <2>1. ~panicked' /\ porttab' = porttab /\ ptfree' = ptfree
    BY <1>8 DEF kill, killcaller, portVars
  <2> QED BY <1>0, <2>1, NodesSame
<1> QED BY <1>1, <1>2, <1>3, <1>4, <1>5, <1>6, <1>7, <1>8 DEF MsgStep

\* Nodes are on the free list or on the list of one port, through sends, receives and
\* ports that are cleared or die half way (ptclear.c:36); and ptsend() panics only when
\* the ports that exist may hold more messages than there are nodes (ptsend.c:39).
THEOREM NodesConservedCorrect ==
  ASSUME PortCounts \subseteq 0..U16MAX
  PROVE  MsgSpec => []NodesConserved
<1>1. MsgInit => NodeInv
  <2> SUFFICES ASSUME MsgInit PROVE NodeInv
    OBVIOUS
  <2>1. /\ ptfree = PT_MSGS /\ ~panicked
        /\ \A i \in PortIds : porttab[i].ptmsgs = <<>> /\ porttab[i].ptstate = PT_FREE
    BY DEF MsgInit, PortInit, CallInit
  <2>2. NodesInUse = {}
    BY <2>1 DEF NodesInUse
  <2>3. Cardinality(NodesInUse) = 0
    BY <2>2, FS_EmptySet
  <2> QED BY <2>1, <2>3, PortAssumption DEF NodeInv
<1>2. CInv /\ CInv' /\ NodeInv /\ [MsgNext]_msgVars => NodeInv'
  <2> SUFFICES ASSUME CInv, CInv', NodeInv, [MsgNext]_msgVars PROVE NodeInv'
    OBVIOUS
  <2>1. TInv'
    BY DEF CInv
  <2>2. CASE UNCHANGED <<msgVars>>
    BY <2>2 DEF msgVars, portVars, callVars, NodeInv, NodesInUse, NodesAllowed, FreePorts,
                CountsFit
  <2>3. CASE panic /\ UNCHANGED <<portVars, poolVars>>
    <3>1. UNCHANGED <<msgVars>>
      BY <2>3 DEF panic, msgVars
    <3> QED BY <2>2, <3>1
  <2>4. ASSUME NEW p \in Procs, MsgStep(p) PROVE NodeInv'
    BY <2>1, <2>4, NodesStep
  <2> QED BY <2>2, <2>3, <2>4 DEF MsgNext
<1>3. NodeInv => NodesConserved
  BY DEF NodeInv, NodesConserved, CountsFit
<1> QED BY <1>1, <1>2, <1>3, CInvCorrect, PTL DEF MsgSpec
-----------------------------------------------------------------------------
(* The table of marks                                                      *)
(*                                                                         *)
(* As long as no number was given out beyond the table, one process at a   *)
(* time numbers a location, the entry it is about to write is the last one *)
(* with a number and still empty, and the mutex has not been overwritten:  *)
(* Sound says so.  Once a number is too large it stays too large, whatever *)
(* the overrunning write has hit.                                          *)

Steps == {"user", "room", "wait", "number", "enter", "signal"}

MTypeOK ==
  /\ loc \in [Locs -> Int]
  /\ marks \in [Entries -> Locs \cup {NULL}]
  /\ nmarks \in Nat
  /\ mkmutex \in {0, 1} /\ mutexlost = FALSE
  /\ at \in [Markers -> Steps]
  /\ arg \in [Markers -> Locs \cup {NULL}]
  /\ marked \subseteq Locs

\* p is between its wait() and its signal().
inside(p) == at[p] \in {"number", "enter", "signal"}

HasArg == \A p \in Markers : at[p] # "user" => arg[p] \in Locs

Exclusion ==
  /\ \A p, q \in Markers : inside(p) /\ inside(q) => p = q
  /\ \A p \in Markers : inside(p) => mkmutex = 0

EmptyBehind ==
  \A i \in Entries :
    \/ i < nmarks /\ ~(i = nmarks - 1 /\ \E p \in Markers : at[p] = "enter")
    \/ marks[i] = NULL

Numbered ==
  \A p \in Markers :
    /\ at[p] \in {"enter", "signal"} => nmarks > 0 /\ loc[arg[p]] = nmarks - 1
    /\ at[p] = "signal" => marks[nmarks - 1] = arg[p]

\* MarkedStays without its condition.
AllStay ==
  \A l \in marked :
    notmarked(l) => \E p \in Markers : at[p] = "enter" /\ arg[p] = l

Sound ==
  /\ MTypeOK
  /\ nmarks <= MAXMARK
  /\ HasArg
  /\ Exclusion
  /\ EmptyBehind
  /\ Numbered
  /\ AllStay

TooMany == nmarks \in Nat /\ nmarks > MAXMARK

MarkInv == TooMany \/ Sound

-----------------------------------------------------------------------------

LEMMA GotoStep ==
  ASSUME MTypeOK, NEW p \in Markers, NEW here, NEW there \in Steps, goto(p, here, there)
  PROVE  /\ at[p] = here /\ at' \in [Markers -> Steps] /\ at'[p] = there
         /\ \A q \in Markers : q # p => at'[q] = at[q]
BY DEF MTypeOK, goto

LEMMA MarkInitHolds ==
  ASSUME MarkInit
  PROVE  Sound
<1>1. MTypeOK
  BY MarkAssumption DEF MarkInit, MTypeOK, Entries, Steps
<1>2. \A p \in Markers : at[p] = "user"
  BY DEF MarkInit
<1>3. HasArg /\ Exclusion /\ Numbered
  BY <1>2 DEF HasArg, Exclusion, inside, Numbered
<1>5. EmptyBehind
  BY DEF EmptyBehind, MarkInit
<1>6. AllStay
  BY DEF AllStay, MarkInit
<1> QED BY <1>1, <1>3, <1>5, <1>6, MarkAssumption DEF Sound, MarkInit

\* While nothing but marked, arg and the places outside of the critical section
\* changes, everything but the types stays as it is.
LEMMA OutsideHolds ==
  ASSUME Sound, UNCHANGED <<loc, marks, nmarks>>, MTypeOK', HasArg', Exclusion',
         \A q \in Markers : at'[q] \in {"enter", "signal"} <=> at[q] \in {"enter", "signal"},
         \A q \in Markers : at'[q] \in {"enter", "signal"} => at'[q] = at[q] /\ arg'[q] = arg[q],
         \A l \in marked' : l \in marked \/ ~notmarked(l)
  PROVE  Sound'
<1>1. EmptyBehind'
  BY DEF Sound, EmptyBehind
<1>2. Numbered'
  BY DEF Sound, Numbered
<1>3. AllStay'
  <2> SUFFICES ASSUME NEW l \in marked', notmarked(l)'
               PROVE  \E q \in Markers : at'[q] = "enter" /\ arg'[q] = l
    BY DEF AllStay
  <2>1. notmarked(l)
    BY DEF notmarked, numbered
  <2>2. PICK q \in Markers : at[q] = "enter" /\ arg[q] = l
    BY <2>1 DEF Sound, AllStay
  <2> QED BY <2>2
<1> QED BY <1>1, <1>2, <1>3 DEF Sound

LEMMA TestHolds ==
  ASSUME Sound, NEW p \in Markers, NEW l \in Locs, mark_test(p, l)
  PROVE  Sound'
<1>1. /\ at[p] = "user" /\ arg' = [arg EXCEPT ![p] = l]
      /\ UNCHANGED <<loc, marks, nmarks, mkmutex, mutexlost>>
      /\ \/ goto(p, "user", "room") /\ marked' = marked
         \/ ismarked(l) /\ marked' = marked \cup {l} /\ at' = at
  BY DEF mark_test
<1>2. MTypeOK /\ "room" \in Steps
  BY DEF Sound, Steps
<1>3. /\ at' \in [Markers -> Steps] /\ at'[p] \in {"user", "room"}
      /\ \A q \in Markers : q # p => at'[q] = at[q]
  <2>1. CASE goto(p, "user", "room")
    BY <1>2, <2>1, GotoStep
  <2>2. CASE at' = at
    BY <1>1, <1>2, <2>2 DEF MTypeOK
  <2> QED BY <1>1, <2>1, <2>2
<1>4. MTypeOK'
  BY <1>1, <1>2, <1>3 DEF MTypeOK
<1>5. HasArg' /\ Exclusion'
  BY <1>1, <1>2, <1>3 DEF Sound, MTypeOK, HasArg, Exclusion, inside
<1>7. \A q \in Markers : at'[q] \in {"enter", "signal"} <=> at[q] \in {"enter", "signal"}
  BY <1>1, <1>3
<1>8. \A q \in Markers : at'[q] \in {"enter", "signal"} => at'[q] = at[q] /\ arg'[q] = arg[q]
  BY <1>1, <1>2, <1>3 DEF MTypeOK
<1>9. \A k \in marked' : k \in marked \/ ~notmarked(k)
  <2>1. nmarks \in Nat /\ nmarks <= MAXMARK /\ MAXMARK \in Nat
    BY MarkAssumption DEF Sound, MTypeOK
  <2>2. ismarked(l) => ~notmarked(l)
    BY <2>1 DEF ismarked, notmarked, numbered
  <2> QED BY <1>1, <2>2
<1> QED BY <1>1, <1>4, <1>5, <1>7, <1>8, <1>9, OutsideHolds

LEMMA RoomHolds ==
  ASSUME Sound, NEW p \in Markers, mark_room(p)
  PROVE  Sound'
<1> DEFINE there == IF nmarks >= MAXMARK THEN "user" ELSE "wait"
<1>1. goto(p, "room", there) /\ UNCHANGED <<loc, marks, nmarks, mkmutex, mutexlost, arg, marked>>
  BY DEF mark_room
<1>2. MTypeOK /\ there \in Steps /\ there \in {"user", "wait"}
  BY DEF Sound, Steps
<1>3. /\ at[p] = "room" /\ at' \in [Markers -> Steps] /\ at'[p] = there
      /\ \A q \in Markers : q # p => at'[q] = at[q]
  BY <1>1, <1>2, GotoStep
<1>4. MTypeOK'
  BY <1>1, <1>2, <1>3 DEF MTypeOK
<1>5. HasArg' /\ Exclusion'
  BY <1>1, <1>2, <1>3 DEF Sound, HasArg, Exclusion, inside
<1>7. \A q \in Markers : at'[q] \in {"enter", "signal"} <=> at[q] \in {"enter", "signal"}
  BY <1>2, <1>3
<1>8. \A q \in Markers : at'[q] \in {"enter", "signal"} => at'[q] = at[q] /\ arg'[q] = arg[q]
  BY <1>1, <1>2, <1>3
<1>9. \A k \in marked' : k \in marked \/ ~notmarked(k)
  BY <1>1
<1> QED BY <1>1, <1>4, <1>5, <1>7, <1>8, <1>9, OutsideHolds

LEMMA WaitHolds ==
  ASSUME Sound, NEW p \in Markers, mark_wait(p)
  PROVE  Sound'
<1>1. /\ mkmutex > 0 /\ goto(p, "wait", "number") /\ mkmutex' = mkmutex - 1
      /\ UNCHANGED <<loc, marks, nmarks, mutexlost, arg, marked>>
  BY DEF mark_wait, Sound, MTypeOK
<1>2. MTypeOK /\ "number" \in Steps
  BY DEF Sound, Steps
<1>3. /\ at[p] = "wait" /\ at' \in [Markers -> Steps] /\ at'[p] = "number"
      /\ \A q \in Markers : q # p => at'[q] = at[q]
  BY <1>1, <1>2, GotoStep
<1>4. mkmutex = 1 /\ mkmutex' = 0
  BY <1>1, <1>2 DEF MTypeOK
<1>5. MTypeOK'
  BY <1>1, <1>2, <1>3, <1>4 DEF MTypeOK
<1>6. HasArg'
  BY <1>1, <1>3 DEF Sound, HasArg
<1>7. Exclusion'
  <2>1. \A q \in Markers : ~inside(q)
    BY <1>4 DEF Sound, Exclusion
  <2>2. \A q \in Markers : inside(q)' => q = p
    BY <1>3, <2>1 DEF inside
  <2> QED BY <1>4, <2>2 DEF Exclusion
<1>9. \A q \in Markers : at'[q] \in {"enter", "signal"} <=> at[q] \in {"enter", "signal"}
  BY <1>3
<1>10. \A q \in Markers : at'[q] \in {"enter", "signal"} => at'[q] = at[q] /\ arg'[q] = arg[q]
  BY <1>1, <1>3
<1>11. \A k \in marked' : k \in marked \/ ~notmarked(k)
  BY <1>1
<1> QED BY <1>1, <1>5, <1>6, <1>7, <1>9, <1>10, <1>11, OutsideHolds

LEMMA NumberHolds ==
  ASSUME Sound, NEW p \in Markers, mark_number(p)
  PROVE  MarkInv'
<1> DEFINE k == arg[p]
<1>1. /\ goto(p, "number", "enter") /\ loc' = [loc EXCEPT ![k] = nmarks] /\ nmarks' = nmarks + 1
      /\ UNCHANGED <<marks, mkmutex, mutexlost, arg, marked>>
  BY DEF mark_number
<1>2. MTypeOK /\ "enter" \in Steps
  BY DEF Sound, Steps
<1>3. /\ at[p] = "number" /\ at' \in [Markers -> Steps] /\ at'[p] = "enter"
      /\ \A q \in Markers : q # p => at'[q] = at[q]
  BY <1>1, <1>2, GotoStep
<1>4. k \in Locs
  BY <1>3 DEF Sound, HasArg
<1>5. inside(p) /\ \A q \in Markers : q # p => ~inside(q)
  BY <1>3 DEF Sound, Exclusion, inside
<1> HIDE DEF k
<1>6. nmarks \in Nat /\ loc' \in [Locs -> Int] /\ loc'[k] = nmarks /\ \A l \in Locs : l # k => loc'[l] = loc[l]
  BY <1>1, <1>2, <1>4 DEF MTypeOK
<1>7. MTypeOK'
  BY <1>1, <1>2, <1>3, <1>6 DEF MTypeOK
<1>8. HasArg' /\ Exclusion'
  BY <1>1, <1>3 DEF Sound, HasArg, Exclusion, inside
<1>10. EmptyBehind'
  <2> SUFFICES ASSUME NEW i \in Entries
               PROVE  \/ i < nmarks' /\ ~(i = nmarks' - 1 /\ \E q \in Markers : at'[q] = "enter")
                      \/ marks[i] = NULL
    BY <1>1 DEF EmptyBehind
  <2>1. i \in Int
    BY DEF Entries
  <2>2. i < nmarks \/ marks[i] = NULL
    BY DEF Sound, EmptyBehind
  <2> QED BY <1>1, <1>6, <2>1, <2>2
<1>11. Numbered'
  <2>1. nmarks' > 0 /\ loc'[k] = nmarks' - 1 /\ arg'[p] = k
    BY <1>1, <1>6 DEF k
  <2>2. \A q \in Markers : q # p => at'[q] \notin {"enter", "signal"}
    BY <1>3, <1>5 DEF inside
  <2> QED BY <1>3, <2>1, <2>2 DEF Numbered
<1>12. AllStay'
  <2> SUFFICES ASSUME NEW l \in marked', notmarked(l)'
               PROVE  \E q \in Markers : at'[q] = "enter" /\ arg'[q] = l
    BY DEF AllStay
  <2>1. CASE l = k
    BY <1>1, <1>3, <2>1 DEF k
  <2>2. CASE l # k
    <3>1. l \in marked /\ l \in Locs
      BY <1>1, <1>2 DEF MTypeOK
    <3>2. ~notmarked(l)
      <4>1. \A q \in Markers : at[q] # "enter"
        BY <1>3, <1>5 DEF inside
      <4> QED BY <3>1, <4>1 DEF Sound, AllStay
    <3>3. loc[l] \in 0..(nmarks - 1) /\ loc[l] < MAXMARK /\ marks[loc[l]] = l /\ loc'[l] = loc[l]
      BY <1>6, <2>2, <3>1, <3>2 DEF notmarked, numbered
    <3>4. loc'[l] \in 0..(nmarks' - 1) /\ loc'[l] < MAXMARK /\ marks'[loc'[l]] = l
      BY <1>1, <1>6, <3>3
    <3> QED BY <3>4 DEF notmarked, numbered
  <2> QED BY <2>1, <2>2
<1>13. nmarks' \in Nat /\ (nmarks' > MAXMARK \/ nmarks' <= MAXMARK)
  BY <1>1, <1>6, MarkAssumption
<1> QED BY <1>7, <1>8, <1>10, <1>11, <1>12, <1>13 DEF MarkInv, TooMany, Sound

LEMMA EnterHolds ==
  ASSUME Sound, NEW p \in Markers, mark_enter(p)
  PROVE  Sound'
<1> DEFINE k == arg[p]
           n == nmarks - 1
<1>2. MTypeOK /\ "signal" \in Steps
  BY DEF Sound, Steps
<1>0. goto(p, "enter", "signal") /\ UNCHANGED <<loc, mkmutex, arg, marked>>
  BY DEF mark_enter
<1>3. /\ at[p] = "enter" /\ at' \in [Markers -> Steps] /\ at'[p] = "signal"
      /\ \A q \in Markers : q # p => at'[q] = at[q]
  BY <1>0, <1>2, GotoStep
<1>4. k \in Locs
  BY <1>3 DEF Sound, HasArg
<1>5. inside(p) /\ \A q \in Markers : q # p => ~inside(q)
  BY <1>3 DEF Sound, Exclusion, inside
<1>6. loc[k] = n /\ nmarks > 0 /\ nmarks \in Nat
  BY <1>2, <1>3 DEF Sound, Numbered, MTypeOK
<1>7. n \in Entries /\ n < MAXMARK
  BY <1>6, MarkAssumption DEF Sound, Entries
<1>1. /\ goto(p, "enter", "signal") /\ marks' = [marks EXCEPT ![loc[k]] = k]
      /\ UNCHANGED <<loc, nmarks, mkmutex, mutexlost, arg, marked>>
  BY <1>6, <1>7 DEF mark_enter
<1>8. marks[n] = NULL
  BY <1>3, <1>7 DEF Sound, EmptyBehind
<1> HIDE DEF k, n
<1>9. /\ marks' \in [Entries -> Locs \cup {NULL}] /\ marks'[n] = k
      /\ \A i \in Entries : i # n => marks'[i] = marks[i]
  BY <1>1, <1>2, <1>4, <1>6, <1>7 DEF MTypeOK
<1>10. MTypeOK'
  BY <1>1, <1>2, <1>3, <1>9 DEF MTypeOK
<1>11. HasArg' /\ Exclusion'
  BY <1>1, <1>3 DEF Sound, HasArg, Exclusion, inside
<1>13. \A q \in Markers : at'[q] # "enter"
  BY <1>3, <1>5 DEF inside
<1>14. EmptyBehind'
  <2> SUFFICES ASSUME NEW i \in Entries
               PROVE  i < nmarks' \/ marks'[i] = NULL
    BY <1>13 DEF EmptyBehind
  <2>1. i < nmarks \/ marks[i] = NULL
    BY DEF Sound, EmptyBehind
  <2>2. i = n => i < nmarks
    BY <1>6 DEF n
  <2> QED BY <1>1, <1>9, <2>1, <2>2
<1>15. Numbered'
  <2>1. nmarks' > 0 /\ loc'[k] = nmarks' - 1 /\ arg'[p] = k /\ marks'[nmarks' - 1] = k
    BY <1>1, <1>6, <1>9 DEF k, n
  <2>2. \A q \in Markers : q # p => at'[q] \notin {"enter", "signal"}
    BY <1>3, <1>5 DEF inside
  <2> QED BY <1>3, <2>1, <2>2 DEF Numbered
<1>16. AllStay'
  <2> SUFFICES ASSUME NEW l \in marked PROVE ~notmarked(l)'
    BY <1>1 DEF AllStay
  <2>1. CASE l = k
    <3>1. loc'[l] = n /\ marks'[n] = l /\ n \in 0..(nmarks' - 1) /\ n < MAXMARK
      BY <1>1, <1>6, <1>7, <1>9, <2>1 DEF n
    <3> QED BY <3>1 DEF notmarked, numbered
  <2>2. CASE l # k
    <3>1. ~notmarked(l)
      <4>1. \A q \in Markers : at[q] = "enter" => arg[q] = k
        BY <1>5 DEF inside, k
      <4> QED BY <2>2, <4>1 DEF Sound, AllStay
    <3>2. loc[l] \in 0..(nmarks - 1) /\ loc[l] < MAXMARK /\ marks[loc[l]] = l
      BY <3>1 DEF notmarked, numbered
    <3>3. l # NULL
      BY <1>2, MarkAssumption DEF MTypeOK
    <3>4. loc[l] # n
      BY <1>8, <3>2, <3>3
    <3>5. loc[l] \in Entries
      BY <1>6, <3>2, MarkAssumption DEF Entries
    <3>6. marks'[loc'[l]] = l /\ loc'[l] \in 0..(nmarks' - 1) /\ loc'[l] < MAXMARK
      BY <1>1, <1>9, <3>2, <3>4, <3>5
    <3> QED BY <3>6 DEF notmarked, numbered
  <2> QED BY <2>1, <2>2
<1> QED BY <1>1, <1>10, <1>11, <1>14, <1>15, <1>16 DEF Sound

LEMMA SignalHolds ==
  ASSUME Sound, NEW p \in Markers, mark_signal(p)
  PROVE  Sound'
<1>1. /\ goto(p, "signal", "user") /\ mkmutex' = mkmutex + 1 /\ marked' = marked \cup {arg[p]}
      /\ UNCHANGED <<loc, marks, nmarks, mutexlost, arg>>
  BY DEF mark_signal, Sound, MTypeOK
<1>2. MTypeOK /\ "user" \in Steps
  BY DEF Sound, Steps
<1>3. /\ at[p] = "signal" /\ at' \in [Markers -> Steps] /\ at'[p] = "user"
      /\ \A q \in Markers : q # p => at'[q] = at[q]
  BY <1>1, <1>2, GotoStep
<1>4. inside(p) /\ \A q \in Markers : q # p => ~inside(q)
  BY <1>3 DEF Sound, Exclusion, inside
<1>5. mkmutex = 0 /\ mkmutex' = 1
  <2>1. mkmutex = 0
    BY <1>4 DEF Sound, Exclusion
  <2> QED BY <1>1, <2>1
<1>6. arg[p] \in Locs
  BY <1>3 DEF Sound, HasArg
<1>7. MTypeOK'
  BY <1>1, <1>2, <1>3, <1>5, <1>6 DEF MTypeOK
<1>8. HasArg'
  BY <1>1, <1>3 DEF Sound, HasArg
<1>9. \A q \in Markers : ~inside(q)'
  BY <1>3, <1>4 DEF inside
<1>10. Exclusion'
  BY <1>9 DEF Exclusion
<1>12. \A q \in Markers : at'[q] \notin {"enter", "signal"}
  BY <1>9 DEF inside
<1>13. EmptyBehind'
  BY <1>1, <1>12 DEF Sound, EmptyBehind
<1>14. Numbered'
  BY <1>12 DEF Numbered
<1>15. AllStay'
  <2> SUFFICES ASSUME NEW l \in marked' PROVE ~notmarked(l)
    BY <1>1 DEF AllStay, notmarked, numbered
  <2>1. CASE l = arg[p]
    <3>1. /\ nmarks > 0 /\ loc[l] = nmarks - 1 /\ marks[nmarks - 1] = l
          /\ nmarks \in Nat /\ nmarks <= MAXMARK /\ MAXMARK \in Nat
      BY MarkAssumption, <1>2, <1>3, <2>1 DEF Sound, Numbered, MTypeOK
    <3> QED BY <3>1 DEF notmarked, numbered
  <2>2. CASE l \in marked
    <3>1. \A q \in Markers : at[q] # "enter"
      BY <1>3, <1>4 DEF inside
    <3> QED BY <2>2, <3>1 DEF Sound, AllStay
  <2> QED BY <1>1, <2>1, <2>2
<1> QED BY <1>1, <1>7, <1>8, <1>10, <1>13, <1>14, <1>15 DEF Sound

\* A number that is too large stays so: it is only counted up, or overwritten with a
\* pointer.
LEMMA TooManyHolds ==
  ASSUME TooMany, [MarkNext]_markVars
  PROVE  TooMany'
<1>1. nmarks' \in {nmarks, nmarks + 1, ADDRESS}
  BY DEF MarkNext, markVars, mark_test, mark_room, mark_wait, mark_number, mark_enter, overrun,
         mark_signal
<1> QED BY <1>1, MarkAssumption DEF TooMany

LEMMA MarkInvariant == MarkSpec => []MarkInv
<1>1. MarkInit => MarkInv
  BY MarkInitHolds DEF MarkInv
<1>2. MarkInv /\ [MarkNext]_markVars => MarkInv'
  <2> SUFFICES ASSUME Sound, [MarkNext]_markVars PROVE MarkInv'
    BY TooManyHolds DEF MarkInv
  <2>1. CASE UNCHANGED markVars
    <3>1. MTypeOK' /\ HasArg' /\ Exclusion'
      BY <2>1 DEF Sound, MTypeOK, HasArg, Exclusion, inside, markVars
    <3>2. AllStay' /\ EmptyBehind' /\ Numbered' /\ nmarks' <= MAXMARK
      BY <2>1 DEF Sound, AllStay, EmptyBehind, Numbered, notmarked, numbered, markVars
    <3> QED BY <3>1, <3>2 DEF MarkInv, Sound
  <2>2. ASSUME NEW p \in Markers, NEW l \in Locs, mark_test(p, l) PROVE MarkInv'
    BY <2>2, TestHolds DEF MarkInv
  <2>3. ASSUME NEW p \in Markers, mark_room(p) PROVE MarkInv'
    BY <2>3, RoomHolds DEF MarkInv
  <2>4. ASSUME NEW p \in Markers, mark_wait(p) PROVE MarkInv'
    BY <2>4, WaitHolds DEF MarkInv
  <2>5. ASSUME NEW p \in Markers, mark_number(p) PROVE MarkInv'
    BY <2>5, NumberHolds
  <2>6. ASSUME NEW p \in Markers, mark_enter(p) PROVE MarkInv'
    BY <2>6, EnterHolds DEF MarkInv
  <2>7. ASSUME NEW p \in Markers, mark_signal(p) PROVE MarkInv'
    BY <2>7, SignalHolds DEF MarkInv
  <2> QED BY <2>1, <2>2, <2>3, <2>4, <2>5, <2>6, <2>7 DEF MarkNext
<1> QED BY <1>1, <1>2, PTL DEF MarkSpec

\* As long as no number was given out beyond the table, a location for which mark()
\* has returned OK is marked, except while another process marks it a second time,
\* for any number of processes that race between the tests and the critical section
\* (mark.c:31-45).  Of what an overrunning write leaves behind it says nothing.
THEOREM MarkedStaysCorrect == MarkSpec => []MarkedStays
<1>1. MarkInv => MarkedStays
  <2>1. nmarks \in Nat /\ nmarks > MAXMARK => ~(nmarks <= MAXMARK)
    BY MarkAssumption
  <2> QED BY <2>1 DEF MarkInv, TooMany, Sound, MarkedStays, AllStay
<1> QED BY <1>1, MarkInvariant, PTL
=============================================================================
