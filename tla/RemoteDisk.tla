----------------------------- MODULE RemoteDisk -----------------------------
(***************************************************************************)
(* The remote disk: a cache of blocks and a queue of requests in RD_BUFFS  *)
(* buffers, a process that sends the requests to a server, and a network   *)
(* that loses, duplicates and delays messages: what was sent stays in it   *)
(* for ever, the server may execute a request at any time later and as     *)
(* often as it likes, or never, and a reply may be received at any time.   *)
(*                                                                         *)
(* A device call runs with interrupts disabled until it blocks.  The       *)
(* process rdsproc (RD_PRIO) comes before the users of the disk; it has    *)
(* been resumed by the first call and waits for requests.  What is not     *)
(* looked at any more is blanked.                                          *)
(*                                                                         *)
(* Users wait in receive() for a message from rdsproc.  In this repository *)
(* send() delivers none (the lines that do, system/send.c:111-121, are     *)
(* commented out), so that they wait for ever.  The model has both:        *)
(* rdwakes says whether send() does what its callers here expect of it.    *)
(***************************************************************************)
EXTENDS Calls

CONSTANTS
  rdsproc,       \* the process that runs rdsprocess(), one of Procs
  RdsUsers,      \* the other ones that use the disk
  RD_BUFFS, RD_RETRIES,
  Blocks, Data,  \* block numbers (0 is one), and what is written
  MaxSeq         \* bound of the model: exchanges with the server

availsem == 0
reqsem == 1
Bufs == 1..RD_BUFFS
Blank == 0                \* what an unwritten block holds
NoMsg == 0                \* a message is a buffer,
Synced == -1              \* or the end of a sync request
NoBuf == [op |-> None, refcnt |-> 0, blk |-> 0, valid |-> FALSE, pid |-> None, data |-> Blank]

VARIABLES
  rd_state, rd_seq,
  rd_req, rd_cache, rd_free,   \* lists of buffers
  rdbuf,                       \* the buffers
  rdmsgblk,                    \* rd_blk in the message of rdsprocess()
  rdinbox,                     \* the message that each process has been sent
  rdwakes,                     \* send() delivers messages: constant, FALSE in the repository
  corrupted,                   \* a list has been linked into another one
  requests, replies, server,   \* what was sent, and the blocks of the server
  last,                        \* history: the last data written to each block
  seen,                        \* history: what the block that each process reads has had
                               \*   since it asked for it
  stolen,                      \* history: buffers taken from under availsem
  faults                       \* history: what has gone wrong, and with which block

rdLists == <<rd_req, rd_cache, rd_free>>
rdNet == <<requests, replies, server>>
rdVars == <<rd_state, rd_seq, rdLists, rdbuf, rdmsgblk, rdinbox, rdwakes, corrupted, rdNet, last,
            seen, faults, stolen>>

\* The block number that rdsprocess() finds in its message before it has put
\* one there may be any.
rds_processes ==
  /\ semtab = [s \in SemIds |->
                 IF s = availsem THEN [used |-> TRUE, count |-> RD_BUFFS, queue |-> <<>>]
                 ELSE IF s = reqsem THEN [used |-> TRUE, count |-> -1, queue |-> <<rdsproc>>]
                 ELSE Unused]
  /\ call = [p \in Procs |-> IF p = rdsproc THEN [op |-> "fetch"] ELSE Idle]
  /\ masked = None /\ panicked = FALSE /\ kills = 0

rds_tables ==
  /\ rd_state = "free" /\ rd_seq = 1
  /\ rd_req = <<>> /\ rd_cache = <<>> /\ rd_free = [b \in Bufs |-> b]
  /\ rdbuf = [b \in Bufs |-> NoBuf]
  /\ rdmsgblk \in Blocks
  /\ rdinbox = [p \in Procs |-> NoMsg] /\ rdwakes \in BOOLEAN
  /\ corrupted = FALSE
  /\ requests = {} /\ replies = {} /\ server = [b \in Blocks |-> Blank]
  /\ last = server /\ seen = [p \in Procs |-> {}] /\ faults = {} /\ stolen = 0

rdsinit == rds_processes /\ rds_tables

\* A user runs when rdsprocess() is blocked.
Turn(p, op) ==
  /\ ~corrupted
  /\ Resumes(p, op)
  /\ p # rdsproc => Waiting(rdsproc) \/ call[rdsproc].op = "recv"

blkOf(b) == rdbuf[b].blk
cached(blk) == SelectInSeq(rd_cache, LAMBDA b : blkOf(b) = blk)
unlinked(list, b) == SelectSeq(list, LAMBDA x : x # b)
putmsg(box, p, m) == IF box[p] = NoMsg /\ rdwakes THEN [box EXCEPT ![p] = m] ELSE box

\* data is written to blk, which some may be reading.
written(blk, data) ==
  /\ last' = [last EXCEPT ![blk] = data]
  /\ seen' = [p \in Procs |->
                IF call[p].op \in {"alloc", "receive"} /\ call[p].for = "read" /\ call[p].blk = blk
                THEN seen[p] \cup {data} ELSE seen[p]]

-----------------------------------------------------------------------------
(* Read, write and control                                                 *)

\* wait() in rdsbufalloc().
rds_wait(p, c) ==
  LET t == wait(semtab, availsem, p)
  IN  /\ semtab' = t
      /\ call' = [call EXCEPT ![p] = c]
      /\ masked' = IF WaitsIn(t, p) THEN None ELSE p
      /\ UNCHANGED <<panicked, kills, rd_state, rd_seq, rdLists, rdbuf, rdmsgblk, rdinbox,
                     corrupted, rdNet, last, faults, stolen>>

\* The buffer b becomes the request c of p, after the semaphores are as in t.
request(p, b, c, t) ==
  /\ rdbuf' = [rdbuf EXCEPT ![b] =
                 [op |-> c.for, refcnt |-> IF c.for = "write" THEN 0 ELSE 1, blk |-> c.blk,
                  valid |-> c.for = "write", pid |-> p, data |-> c.data]]
  /\ rd_req' = Append(rd_req, b)
  /\ semtab' = signal(t, reqsem)
  /\ masked' = None
  /\ IF c.for = "write"
     THEN /\ Return(p)
          /\ written(c.blk, c.data)
          /\ faults' = IF \E x \in (Range(rd_req) \cup Range(rd_cache')) \ {b} :
                            rdbuf[x].valid /\ blkOf(x) = c.blk
                       THEN faults \cup {<<"two copies", c.blk>>} ELSE faults
          /\ UNCHANGED rdinbox
     ELSE /\ call' = [call EXCEPT ![p] = [op |-> "receive", for |-> c.for, blk |-> c.blk]]
          /\ rdinbox' = [rdinbox EXCEPT ![p] = NoMsg]
          /\ UNCHANGED <<last, seen, faults>>
  /\ UNCHANGED <<kills, rd_state, rd_seq, rdmsgblk, corrupted, rdNet>>

\* rdsbufalloc() after its wait(): a free buffer or the oldest one in the cache
\* that nobody is reading.
rdsbufalloc(p) ==
  LET i == SelectLastInSeq(rd_cache, LAMBDA b : rdbuf[b].refcnt <= 0)
  IN  /\ Turn(p, "alloc")
      /\ IF rd_free # <<>>
         THEN /\ rd_free' = Tail(rd_free) /\ UNCHANGED <<rd_cache, panicked, stolen>>
              /\ request(p, Head(rd_free), call[p], semtab)
         ELSE IF i > 0
         THEN /\ rd_cache' = RemoveAt(rd_cache, i) /\ UNCHANGED <<rd_free, panicked, stolen>>
              /\ request(p, rd_cache[i], call[p], semtab)
         ELSE /\ panicked' = TRUE
              /\ UNCHANGED <<semtab, call, masked, kills, rdVars>>

\* (Variant: the block may be in a read request.)
found_reads(blk) ==
  LET i == SelectLastInSeq(rd_req, LAMBDA b : blkOf(b) = blk)
  IN  IF cached(blk) > 0 /\ rdbuf[rd_cache[cached(blk)]].valid THEN rd_cache[cached(blk)]
      ELSE IF i > 0 THEN rd_req[i]
      ELSE 0

\* What a read finds without asking the server: a valid block in the cache, or
\* else the last request for the block if it is a write.
found(blk) ==
  LET i == SelectLastInSeq(rd_req, LAMBDA b : blkOf(b) = blk)
  IN  IF cached(blk) > 0 /\ rdbuf[rd_cache[cached(blk)]].valid THEN rd_cache[cached(blk)]
      ELSE IF i > 0 /\ rdbuf[rd_req[i]].op = "write" THEN rd_req[i]
      ELSE 0

rdsread(p, blk) ==
  /\ Turn(p, "user") /\ rd_state = "open"
  /\ found(blk) = 0
  /\ rds_wait(p, [op |-> "alloc", for |-> "read", blk |-> blk, data |-> Blank])
  /\ seen' = [seen EXCEPT ![p] = {last[blk]}]

\* semreset() refuses a negative count.
rdswrite(p, blk, data) ==
  LET w == SelectInSeq(rd_req, LAMBDA b : blkOf(b) = blk /\ rdbuf[b].op = "write")
      b == rd_cache[cached(blk)]
      count == semtab[availsem].count
      c == [op |-> "alloc", for |-> "write", blk |-> blk, data |-> data]
  IN  /\ Turn(p, "user") /\ rd_state = "open"
      /\ IF w > 0
         THEN /\ rdbuf' = [rdbuf EXCEPT ![rd_req[w]].data = data]
              /\ written(blk, data)
              /\ UNCHANGED <<callVars, rd_state, rd_seq, rdLists, rdmsgblk, rdinbox,
                             corrupted, rdNet, faults, stolen>>
         ELSE IF cached(blk) > 0 /\ rdbuf[b].refcnt <= 0
         THEN /\ rd_cache' = unlinked(rd_cache, b)
              /\ request(p, b, c, IF count <= 0 THEN semtab
                                  ELSE semreset(semtab, availsem, count - 1))
              /\ stolen' = IF count <= 0 THEN stolen + 1 ELSE stolen
              /\ UNCHANGED <<panicked, rd_free>>
         ELSE rds_wait(p, c) /\ UNCHANGED seen

rds_sync(p) ==
  /\ Turn(p, "user") /\ rd_state = "open"
  /\ rds_wait(p, [op |-> "alloc", for |-> "sync", blk |-> 0, data |-> Blank])
  /\ UNCHANGED seen

\* rdsread() and rdscontrol() after receive().  The caller is given the data of the
\* buffer.  One that is not in the cache any more makes the search for it run away.
rds_received(p) ==
  LET b == rdinbox[p]
      i == SelectInSeq(rd_cache, LAMBDA x : x = b)
      done == b # Synced /\ rdbuf[b].refcnt <= 1
      newer == i > 0 /\ cached(call[p].blk) < i /\ cached(call[p].blk) > 0
  IN  /\ Turn(p, "receive") /\ b # NoMsg
      /\ rdinbox' = [rdinbox EXCEPT ![p] = NoMsg]
      /\ rdbuf' = IF b = Synced THEN rdbuf
                  ELSE IF done /\ newer THEN [rdbuf EXCEPT ![b] = NoBuf]
                  ELSE [rdbuf EXCEPT ![b].refcnt = @ - 1,
                                     ![b].data = IF rdbuf[b].valid THEN @ ELSE Blank]
      /\ corrupted' = (done /\ i = 0)
      /\ IF done /\ newer
         THEN rd_cache' = RemoveAt(rd_cache, i) /\ rd_free' = <<b>> \o rd_free
         ELSE UNCHANGED <<rd_cache, rd_free>>
      /\ Return(p)
      /\ seen' = [seen EXCEPT ![p] = {}]
      /\ UNCHANGED <<semtab, masked, panicked, kills, rd_state, rd_seq, rd_req, rdmsgblk,
                     rdNet, last, faults, stolen>>

\* The cache goes to the free list, whoever is still reading from it.
closed ==
  /\ rd_free' = Reverse(rd_cache) \o rd_free
  /\ rd_cache' = <<>>
  /\ rdbuf' = [b \in Bufs |-> IF b \in Range(rd_cache) THEN [NoBuf EXCEPT !.refcnt = rdbuf[b].refcnt]
                              ELSE rdbuf[b]]
  /\ rd_state' = "free"
  /\ faults' = faults \cup {<<"closed", blkOf(b)>> : b \in {x \in Range(rd_cache) : rdbuf[x].refcnt > 0}}

rdsclose(p) ==
  /\ Turn(p, "user") /\ rd_state = "open" /\ rd_req = <<>>
  /\ closed
  /\ UNCHANGED <<callVars, rd_seq, rd_req, rdmsgblk, rdinbox, corrupted, rdNet, last, seen, stolen>>

-----------------------------------------------------------------------------
(* Exchanges with the server                                               *)

\* p sends a message of the given type, for the block blk.
exchange(p, type, blk, data) ==
  /\ rd_seq < MaxSeq
  /\ rd_seq' = rd_seq + 1
  /\ call' = [call EXCEPT ![p] = [op |-> "xmit", type |-> type, blk |-> blk, data |-> data,
                                  seq |-> rd_seq, tries |-> 1]]

\* An ID that is empty or too long leaves the device pending.
rdsopen(p) ==
  /\ Turn(p, "user") /\ rd_state = "free"
  /\ rd_state' = "pending"
  /\ \/ exchange(p, "open", 0, Blank) /\ masked' = p /\ UNCHANGED faults
     \/ faults' = faults \cup {<<"bad id", 0>>} /\ UNCHANGED <<call, masked, rd_seq>>
  /\ UNCHANGED <<semtab, panicked, kills, rdLists, rdbuf, rdmsgblk, rdinbox, corrupted,
                 rdNet, last, seen, stolen>>

rds_delete(p) ==
  /\ Turn(p, "user") /\ rd_state = "open"
  /\ exchange(p, "delete", 0, Blank)
  /\ masked' = p
  /\ UNCHANGED <<semtab, panicked, kills, rd_state, rdLists, rdbuf, rdmsgblk, rdinbox,
                 corrupted, rdNet, last, seen, faults, stolen>>

\* The end of an exchange; t is the semaphore table with what has been signalled.
another(t) ==
  /\ semtab' = wait(t, reqsem, rdsproc)
  /\ call' = [call EXCEPT ![rdsproc] = [op |-> "fetch"]]

\* (Variant: availsem is not signalled.)
read_done_nosignal(data) ==
  LET b == Head(rd_req)
  IN  /\ rd_req' = Tail(rd_req) /\ rd_cache' = <<b>> \o rd_cache
      /\ rdbuf' = [rdbuf EXCEPT ![b].pid = None, ![b].refcnt = 1, ![b].data = data]
      /\ rdinbox' = putmsg(rdinbox, rdbuf[b].pid, b)
      /\ corrupted' = (\E x \in Range(rd_req') : blkOf(x) = blkOf(b))
      /\ another(semtab)
      /\ UNCHANGED <<panicked, rd_state, rd_free>>

read_done(data) ==
  LET b == Head(rd_req)
  IN  /\ rd_req' = Tail(rd_req) /\ rd_cache' = <<b>> \o rd_cache
      /\ rdbuf' = [rdbuf EXCEPT ![b].pid = None, ![b].refcnt = 1, ![b].data = data]
      /\ rdinbox' = putmsg(rdinbox, rdbuf[b].pid, b)
      /\ corrupted' = (\E x \in Range(rd_req') : blkOf(x) = blkOf(b))
      /\ another(signal(semtab, availsem))
      /\ UNCHANGED <<panicked, rd_state, rd_free>>

\* What follows rdscomm(), which has failed, or returned OK with data.  f is what has
\* gone wrong.
rdscomm_done(p, ok, data, f) ==
  LET type == call[p].type
  IN  CASE type = "read" /\ ok ->
             /\ read_done(data)
             /\ faults' = f
        [] type = "write" /\ ok ->
             /\ another(semtab)
             /\ faults' = f
             /\ UNCHANGED <<panicked, rd_state, rdLists, rdbuf, rdinbox, corrupted>>
        [] type = "open" ->
             /\ rd_state' = IF ok THEN "open" ELSE "free"
             /\ Return(p)
             /\ faults' = f
             /\ UNCHANGED <<semtab, panicked, rdLists, rdbuf, rdinbox, corrupted>>
        [] type = "delete" ->
             /\ IF ok /\ rd_state = "open" /\ rd_req = <<>> THEN closed /\ UNCHANGED rd_req
                ELSE faults' = f /\ UNCHANGED <<rd_state, rdLists, rdbuf>>
             /\ Return(p)
             /\ UNCHANGED <<semtab, panicked, rdinbox, corrupted>>
        [] OTHER ->
             /\ panicked' = TRUE
             /\ faults' = f
             /\ UNCHANGED <<semtab, call, rd_state, rdLists, rdbuf, rdinbox, corrupted>>

rdscomm_fails(p) == rdscomm_done(p, FALSE, Blank, faults)

\* udp_sendto().  It may fail, and so does udp_recv() if another process waits for a
\* reply.  (A failure to register the port or to get an address, which comes before the
\* message has its number, is not told apart from that of udp_sendto().)
rdscomm_xmit(p) ==
  LET c == call[p]
      m == [type |-> c.type, seq |-> c.seq, blk |-> c.blk, data |-> c.data]
  IN  /\ Turn(p, "xmit")
      /\ masked' = None
      /\ \/ rdscomm_fails(p) /\ UNCHANGED requests
         \/ /\ requests' = requests \cup {m}
            /\ IF \E q \in Procs \ {p} : call[q].op = "recv"
               THEN rdscomm_fails(p)
               ELSE /\ call' = [call EXCEPT ![p].op = "recv"]
                    /\ UNCHANGED <<semtab, panicked, rd_state, rdLists, rdbuf, rdinbox, corrupted,
                                   faults>>
      /\ UNCHANGED <<kills, rd_seq, rdmsgblk, replies, server, last, seen, stolen>>

\* The server executes a request, which may have come late: a write undoes those of
\* its block that were sent after it, and a delete all of them.
rds_server ==
  /\ ~panicked
  /\ \E m \in requests :
       /\ server' = CASE m.type = "write" -> [server EXCEPT ![m.blk] = m.data]
                      [] m.type = "delete" -> [blk \in Blocks |-> Blank]
                      [] OTHER -> server
       /\ faults' = faults \cup
            CASE m.type = "write" ->
                   {<<"late request", m.blk>> :
                      r \in {r \in requests : r.type = "write" /\ r.blk = m.blk /\ r.seq > m.seq}}
              [] m.type = "delete" -> {<<"deleted", blk>> : blk \in Blocks}
              [] OTHER -> {}
       /\ \E ok \in IF m.type \in {"open", "delete"} THEN BOOLEAN ELSE {TRUE} :
            replies' = replies \cup
              {[type |-> m.type, seq |-> m.seq, ok |-> ok, blk |-> m.blk,
                data |-> IF m.type = "read" THEN server[m.blk] ELSE Blank]}
  /\ UNCHANGED <<callVars, rd_state, rd_seq, rdLists, rdbuf, rdmsgblk, rdinbox, corrupted,
                 requests, last, seen, stolen>>

\* The loop goes round, with the message sent again or not.
retry(p, op) ==
  IF call[p].tries = RD_RETRIES THEN rdscomm_fails(p)
  ELSE /\ call' = [call EXCEPT ![p].tries = @ + 1, ![p].op = op]
       /\ UNCHANGED <<semtab, panicked, rd_state, rdLists, rdbuf, rdinbox, corrupted, faults>>

rdscomm_timeout(p) ==
  /\ Turn(p, "recv")
  /\ retry(p, "xmit")
  /\ UNCHANGED <<masked, kills, rd_seq, rdmsgblk, rdNet, last, seen, stolen>>

\* udp_recv() fails: p has been sent a message that is not OK (udp.c:194).
rdscomm_error(p) ==
  /\ Turn(p, "recv")
  /\ rdscomm_fails(p)
  /\ UNCHANGED <<masked, kills, rd_seq, rdmsgblk, rdNet, last, seen, stolen>>

\* The block that the exchange of p is for; that in a message that reads may be another.
blkFor(p) == IF call[p].type = "read" THEN blkOf(Head(rd_req)) ELSE call[p].blk

\* What is wrong with r as the answer to p.
wrong(p, r) ==
  IF call[p].type \notin {"read", "write"} THEN {}
  ELSE (IF r.seq < call[p].seq THEN {<<"old reply", blkFor(p)>>} ELSE {})
         \cup (IF r.blk # blkFor(p) THEN {<<"wrong block", blkFor(p)>>} ELSE {})

\* A reply of the right type to an earlier message is taken for the one to this
\* message; one of another type makes the loop receive again.
rdscomm_reply(p, r) ==
  LET c == call[p]
  IN  /\ Turn(p, "recv")
      /\ IF r.seq > c.seq \/ r.type # c.type
         THEN retry(p, IF r.seq < c.seq THEN "recv" ELSE "xmit")
         ELSE rdscomm_done(p, r.ok, r.data, faults \cup wrong(p, r))
      /\ UNCHANGED <<masked, kills, rd_seq, rdmsgblk, rdNet, last, seen, stolen>>

-----------------------------------------------------------------------------
(* rdsprocess()                                                            *)

\* A read request does not say which block: the number that the last write has
\* left in the message goes with it, to the server that is asked for that block.
process_read ==
  /\ Turn(rdsproc, "fetch") /\ rdbuf[Head(rd_req)].op = "read"
  /\ exchange(rdsproc, "read", rdmsgblk, Blank)
  /\ UNCHANGED <<semtab, masked, panicked, kills, rd_state, rdLists, rdbuf, rdmsgblk, rdinbox,
                 corrupted, rdNet, last, seen, faults, stolen>>

\* A written block is in the cache before it is sent.
process_write ==
  LET b == Head(rd_req)
  IN  /\ Turn(rdsproc, "fetch") /\ rdbuf[b].op = "write"
      /\ rdmsgblk' = blkOf(b)
      /\ rd_req' = Tail(rd_req) /\ rd_cache' = <<b>> \o rd_cache
      /\ rdbuf' = [rdbuf EXCEPT ![b].refcnt = 0, ![b].pid = None]
      /\ exchange(rdsproc, "write", blkOf(b), rdbuf[b].data)
      /\ semtab' = signal(semtab, availsem)
      /\ UNCHANGED <<masked, panicked, kills, rd_state, rd_free, rdinbox, corrupted, rdNet,
                     last, seen, faults, stolen>>

process_sync ==
  LET b == Head(rd_req)
  IN  /\ Turn(rdsproc, "fetch") /\ rdbuf[b].op = "sync"
      /\ rdinbox' = putmsg(rdinbox, rdbuf[b].pid, Synced)
      /\ rd_req' = Tail(rd_req) /\ rd_free' = <<b>> \o rd_free
      /\ rdbuf' = [rdbuf EXCEPT ![b] = NoBuf]
      /\ another(signal(semtab, availsem))
      /\ UNCHANGED <<masked, panicked, kills, rd_state, rd_seq, rd_cache, rdmsgblk,
                     corrupted, rdNet, last, seen, faults, stolen>>

RdNext ==
  /\ UNCHANGED rdwakes
  /\ \/ \E p \in RdsUsers :
          \/ \E blk \in Blocks : rdsread(p, blk)
          \/ \E blk \in Blocks, data \in Data : rdswrite(p, blk, data)
          \/ rds_sync(p) \/ rds_delete(p)
          \/ rdsopen(p) \/ rdsclose(p)
          \/ rdsbufalloc(p) \/ rds_received(p)
     \/ \E p \in Procs :
          \/ rdscomm_xmit(p) \/ rdscomm_timeout(p) \/ rdscomm_error(p)
          \/ \E r \in replies : rdscomm_reply(p, r)
     \/ rds_server
     \/ process_read \/ process_write \/ process_sync

RdSpec == rdsinit /\ [][RdNext]_<<callVars, rdVars>>

-----------------------------------------------------------------------------
(* Properties                                                              *)

asked == call[rdsproc]
InExchange(type) == asked.op \in {"xmit", "recv"} /\ asked.type = type
Positive(n) == IF n > 0 THEN n ELSE 0
Released == {p \in Procs : call[p].op = "alloc" /\ ~Waiting(p)}

\* Every buffer is on one list: free, in the queue or in the cache
\* (rdsprocess.c:77, rdsread.c:115, rdsclose.c:40).
BuffersOnLists ==
  ~corrupted =>
    /\ IsInjective(rd_req \o rd_cache \o rd_free)
    /\ Range(rd_req \o rd_cache \o rd_free) = Bufs

\* The buffers that availsem counts, and those it has promised to processes that
\* have not resumed, are those that are free or in the cache, but for the ones
\* that rdswrite() takes when there is none to count (rdswrite.c:63).
AvailCounted ==
  ~corrupted =>
    Positive(semtab[availsem].count) + Cardinality(Released)
      = Len(rd_free) + Len(rd_cache) + stolen

\* rdsprocess() never sleeps while there is a request, and never wakes up without
\* one (rdsprocess.c:33).
RequestsCounted ==
  ~corrupted /\ ~panicked =>
    Positive(semtab[reqsem].count)
      = Len(rd_req) - (IF (asked.op = "fetch" /\ ~Waiting(rdsproc)) \/ InExchange("read")
                       THEN 1 ELSE 0)

\* A process that waits for its request to be done is in the queue, or has been
\* told, if send() tells anybody (rdsprocess.c:101, system/send.c:111-121).
NobodyForgotten ==
  rdwakes /\ ~corrupted =>
    \A p \in RdsUsers : call[p].op = "receive" /\ rdinbox[p] = NoMsg =>
      \E b \in Range(rd_req) : rdbuf[b].pid = p /\ rdbuf[b].op # "write"

Spoiled(blk, kinds) == \E k \in kinds : <<k, blk>> \in faults

\* What was last written to a block is on the server, or is going to be, unless an old
\* reply has been taken for the answer to a write of the block, an older write of it
\* or a delete has come late, or a write that waited for a buffer was queued behind
\* another one (rdscomm.c:68-98, rdswrite.c:39).
LastIsWritten ==
  ~corrupted /\ ~panicked =>
    \A blk \in Blocks :
      \/ Spoiled(blk, {"old reply", "late request", "deleted", "two copies"})
      \/ server[blk] = last[blk]
      \/ \E b \in Range(rd_req) : rdbuf[b].op = "write" /\ blkOf(b) = blk
      \/ InExchange("write") /\ asked.blk = blk

\* A read that does not ask the server returns what was last written, unless a
\* write that waited for a buffer has left another copy (rdsread.c:41,
\* rdsread.c:61).
FoundIsLast ==
  ~corrupted =>
    \A blk \in Blocks :
      found(blk) # 0 /\ ~Spoiled(blk, {"two copies"}) => rdbuf[found(blk)].data = last[blk]

\* A read that asks the server returns what the block has had since, if the number in
\* the message was that of the block, nothing above has happened to the block, and
\* the device has not been closed since (rdsprocess.c:43-77, rdsread.c:97-101).
ReadIsWritten ==
  ~corrupted =>
    \A p \in RdsUsers :
      call[p].op = "receive" /\ call[p].for = "read" /\ rdinbox[p] # NoMsg =>
        \/ Spoiled(call[p].blk, {"wrong block", "old reply", "late request", "deleted", "two copies",
                                 "closed"})
        \/ rdbuf[rdinbox[p]].data \in seen[p]

\* The device is pending only while somebody opens it, unless an ID was refused
\* (rdsopen.c:41, rdsopen.c:75).
PendingIsOpening ==
  rd_state = "pending" /\ ~Spoiled(0, {"bad id"}) =>
    \E p \in RdsUsers : call[p].op \in {"xmit", "recv"} /\ call[p].type = "open"
=============================================================================
