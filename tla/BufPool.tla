------------------------------ MODULE BufPool ------------------------------
(***************************************************************************)
(* Buffer pools: a free list of equal buffers for each pool, guarded by a  *)
(* semaphore that counts them.  The first word of a buffer is the link     *)
(* while the buffer is free and the pool's id while it is in use.          *)
(***************************************************************************)
EXTENDS Calls

CONSTANTS
  NBPOOLS,    \* entries of buftab[]
  NBUFS,      \* buffers there is memory for
  PoolSizes   \* numbers of buffers passed to mkbufpool()

\* mkbufpool() refuses less than one buffer.
ASSUME PoolAssumption ==
  NBPOOLS \in Nat /\ NBUFS \in Nat /\ PoolSizes \subseteq Nat \ {0}

Bufs == 1..NBUFS
PoolIds == 0..(NBPOOLS - 1)

VARIABLES
  nbpools,    \* number of pools
  buftab,     \* buftab[]: semaphore and free list of each pool
  bpid,       \* the first word of each buffer
  allocated,  \* buffers for which memory has been taken
  held        \* the buffers each process holds

poolVars == <<nbpools, buftab, bpid, allocated, held>>

PoolInit ==
  /\ nbpools = 0
  /\ buftab = [b \in PoolIds |-> [bpsem |-> SYSERR, bpnext |-> <<>>]]
  /\ bpid = [b \in Bufs |-> 0]
  /\ allocated = 0
  /\ held = [p \in Procs |-> {}]

\* (Variant: the semaphore counts one buffer more than the loop links.)
mkbufpool_extra(p, numbufs) ==
  /\ InUser(p) /\ nbpools < NBPOOLS
  /\ allocated + numbufs <= NBUFS
  /\ \E s \in FreeSems(semtab) :
       /\ semtab' = semcreate(semtab, s, numbufs + 1)
       /\ buftab' = [buftab EXCEPT ![nbpools] =
            [bpsem |-> s, bpnext |-> [k \in 1..numbufs |-> allocated + k]]]
  /\ allocated' = allocated + numbufs
  /\ nbpools' = nbpools + 1
  /\ UNCHANGED <<bpid, held, call, masked, panicked, kills>>

\* Without a semaphore the memory is given back and nothing has changed.
mkbufpool(p, numbufs) ==
  /\ InUser(p) /\ nbpools < NBPOOLS
  /\ allocated + numbufs <= NBUFS
  /\ \E s \in FreeSems(semtab) :
       /\ semtab' = semcreate(semtab, s, numbufs)
       /\ buftab' = [buftab EXCEPT ![nbpools] =
            [bpsem |-> s, bpnext |-> [k \in 1..numbufs |-> allocated + k]]]
  /\ allocated' = allocated + numbufs
  /\ nbpools' = nbpools + 1
  /\ UNCHANGED <<bpid, held, call, masked, panicked, kills>>

\* The rest of getbuf() after its wait(), whose result it ignores: an empty
\* list is a NULL pointer that the code follows.
unlink(p, k) ==
  LET b == Head(buftab[k].bpnext)
  IN  /\ buftab[k].bpnext # <<>>
      /\ buftab' = [buftab EXCEPT ![k].bpnext = Tail(@)]
      /\ bpid' = [bpid EXCEPT ![b] = k]
      /\ held' = [held EXCEPT ![p] = @ \cup {b}]
      /\ UNCHANGED <<nbpools, allocated>>

getbuf_now(p, k) ==
  LET s == buftab[k].bpsem
  IN  /\ InUser(p) /\ k < nbpools
      /\ semtab[s].count > 0
      /\ semtab' = wait(semtab, s, p)
      /\ unlink(p, k)
      /\ UNCHANGED <<call, masked, panicked, kills>>

getbuf_block(p, k) ==
  LET s == buftab[k].bpsem
  IN  /\ InUser(p) /\ k < nbpools
      /\ semtab[s].count <= 0
      /\ semtab' = wait(semtab, s, p)
      /\ call' = [call EXCEPT ![p] = [op |-> "getbuf", pool |-> k]]
      /\ UNCHANGED <<poolVars, masked, panicked, kills>>

getbuf_resume(p) ==
  /\ Resumes(p, "getbuf")
  /\ unlink(p, call[p].pool)
  /\ Return(p)
  /\ UNCHANGED <<semtab, masked, panicked, kills>>

\* Buffer b goes back to the pool that its first word names.
release(b) ==
  LET k == bpid[b]
  IN  /\ buftab' = [buftab EXCEPT ![k].bpnext = <<b>> \o @]
      /\ semtab' = signal(semtab, buftab[k].bpsem)
      /\ UNCHANGED <<nbpools, allocated, bpid>>

freebuf(p, b) ==
  /\ InUser(p) /\ b \in held[p]
  /\ release(b)
  /\ held' = [held EXCEPT ![p] = @ \ {b}]
  /\ UNCHANGED <<call, masked, panicked, kills>>
=============================================================================
