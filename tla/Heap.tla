-------------------------------- MODULE Heap --------------------------------
(***************************************************************************)
(* Memory management: the free list of getmem(), freemem() and getstk(),   *)
(* and the lists of blocks in use that meminsert() and memextract() keep   *)
(* for the garbage collection of kill().  All run with interrupts off, so  *)
(* each call is one action.                                                *)
(*                                                                         *)
(* Addresses and lengths count units of 8 bytes, to which roundmb() rounds *)
(* every request; address 0 is NULL.  prheaphd is NULL in every process:   *)
(* no code allocates a header, so that all processes share the header that *)
(* the words at address 0 make, and have one list.  freemem() is called as *)
(* the project's handout assumes: with a block that getmem() has returned. *)
(***************************************************************************)
EXTENDS Integers, FiniteSets, Sequences, SequencesExt

CONSTANTS HeapProcs,      \* entries of the process table, the null process left out
          HeapSize,   \* units of memory from minheap to maxheap
          StackSize,  \* units of a process stack
          Sizes       \* units asked of getmem()

NodeSize == 2         \* units of a struct inusememblk (12 bytes)

ASSUME HeapAssumption ==
  /\ IsFiniteSet(HeapProcs) /\ HeapProcs # {}
  /\ StackSize \in Nat \ {0}
  /\ HeapSize \in Nat /\ HeapSize > StackSize
  /\ Sizes \subseteq Nat \ {0}

VARIABLES
  memlist,  \* the free blocks, from low to high addresses
  mlength,  \* memlist.mlength, the number of free units
  header,   \* mnext of the header, the first node of the list of blocks in use
  node,     \* the nodes: address |-> memblockptr and mnext
  blocks,   \* blocks that getmem() has returned and nobody has freed
  stack,    \* the stack of each live process: process |-> address
  hung,     \* a search of the list does not end
  wild      \* meminsert() has written through the address -1

heapVars == <<memlist, mlength, header, node, blocks, stack, hung, wild>>

NULL == 0
Nobody == "nobody"    \* the owner of what a dead process has not freed
alive == DOMAIN stack

Running == ~hung /\ ~wild

-----------------------------------------------------------------------------
(* The free list                                                           *)

\* Indexes of the free blocks large enough for a request.
Fits(free, n) == {i \in 1..Len(free) : free[i].len >= n}

Lowest(S)  == CHOOSE i \in S : \A j \in S : i <= j
Highest(S) == CHOOSE i \in S : \A j \in S : j <= i

\* getmem() takes the low end of the first block that fits.
allocaddr(free, n) == free[Lowest(Fits(free, n))].addr

\* (Variant: what is left of a larger block is lost.)
alloc_whole(free, n) == RemoveAt(free, Lowest(Fits(free, n)))

alloc(free, n) ==
  LET i == Lowest(Fits(free, n))
  IN  IF free[i].len = n
      THEN RemoveAt(free, i)
      ELSE [free EXCEPT ![i] = [addr |-> @.addr + n, len |-> @.len - n]]

\* getstk() takes the high end of the last block that fits.
stkaddr(free, n) ==
  LET b == free[Highest(Fits(free, n))] IN b.addr + b.len - n

allocstk(free, n) ==
  LET i == Highest(Fits(free, n))
  IN  IF free[i].len = n
      THEN RemoveAt(free, i)
      ELSE [free EXCEPT ![i].len = @ - n]

\* freemem() links a block between its neighbours or joins it with them.
Adjacent(b, c) == b.addr + b.len = c.addr
Merge(b, c) == [addr |-> b.addr, len |-> b.len + c.len]

\* The walk along the free list stops behind the blocks below address a.
below(free, a) ==
  Lowest({i \in 0..Len(free) : i < Len(free) => free[i + 1].addr >= a})

\* (Variant: does not join the block with the one before.)
dealloc_split(free, a, n) ==
  LET k == below(free, a)
  IN  SubSeq(free, 1, k) \o <<[addr |-> a, len |-> n]>> \o SubSeq(free, k + 1, Len(free))

dealloc(free, a, n) ==
  LET k == below(free, a)
      block == [addr |-> a, len |-> n]
      joinprev == k > 0 /\ Adjacent(free[k], block)
      mid == IF joinprev THEN Merge(free[k], block) ELSE block
      joinnext == k < Len(free) /\ Adjacent(mid, free[k + 1])
  IN  SubSeq(free, 1, IF joinprev THEN k - 1 ELSE k)
        \o <<IF joinnext THEN Merge(mid, free[k + 1]) ELSE mid>>
        \o SubSeq(free, IF joinnext THEN k + 2 ELSE k + 1, Len(free))

-----------------------------------------------------------------------------
(* The list of blocks in use                                               *)

\* The nodes that a search meets, up to one visit more than there are nodes.
Walk ==
  LET w[i \in 0..Cardinality(DOMAIN node)] ==
        IF i = 0 THEN header
        ELSE IF w[i - 1] = NULL THEN NULL ELSE node[w[i - 1]].mnext
  IN  w

\* (Variant: finds nothing to unlink.)
memextract_none(a) == hung' = FALSE /\ UNCHANGED <<header, node>>

\* memextract(): unlink the first node of the block at address a.  When there is
\* none, the node after the last is "*(8)", which is the header's mnext: the
\* last node is linked to the first.  When the list has become a cycle, the
\* search for a block that is not on it does not end.
memextract(a) ==
  LET w == Walk
      matches == {i \in DOMAIN w : w[i] # NULL /\ node[w[i]].memblockptr = a}
      ends == {i \in DOMAIN w : w[i] = NULL}
      i == IF matches # {} THEN Lowest(matches) ELSE Lowest(ends)
      next == IF matches # {} THEN node[w[i]].mnext ELSE header
  IN  IF matches = {} /\ ends = {}
      THEN hung' = TRUE /\ UNCHANGED <<header, node>>
      ELSE /\ hung' = FALSE
           /\ IF i = 0
              THEN header' = next /\ UNCHANGED node
              ELSE node' = [node EXCEPT ![w[i - 1]].mnext = next] /\ UNCHANGED header

\* freemem(), which gets nowhere when memextract() does not return.
release(a, n) ==
  /\ memextract(a)
  /\ IF hung'
     THEN UNCHANGED <<memlist, mlength>>
     ELSE memlist' = dealloc(memlist, a, n) /\ mlength' = mlength + n

-----------------------------------------------------------------------------
(* Calls                                                                   *)

\* getmem(), and meminsert() with its own getmem() of a node, for which
\* memblockkflag suppresses the insertion.  When there is no memory for the
\* node, its address is SYSERR, that is -1.
getmem(p, n) ==
  /\ Running
  /\ p \in alive
  /\ Fits(memlist, n) # {}
  /\ LET a == allocaddr(memlist, n)
         free == alloc(memlist, n)
         m == allocaddr(free, NodeSize)
     IN  \/ /\ Fits(free, NodeSize) # {}
            /\ memlist' = alloc(free, NodeSize)
            /\ mlength' = mlength - n - NodeSize
            /\ blocks' = blocks \cup {[addr |-> a, len |-> n, owner |-> p]}
            /\ node' = [x \in DOMAIN node \cup {m} |->
                         IF x = m THEN [memblockptr |-> a, mnext |-> header]
                         ELSE node[x]]
            /\ header' = m
            /\ UNCHANGED wild
         \/ /\ Fits(free, NodeSize) = {}
            /\ wild' = TRUE
            /\ UNCHANGED <<memlist, mlength, blocks, node, header>>
  /\ UNCHANGED <<stack, hung>>

freemem(b) ==
  /\ Running
  /\ b \in blocks /\ b.owner \in alive
  /\ release(b.addr, b.len)
  /\ blocks' = IF hung' THEN blocks ELSE blocks \ {b}
  /\ UNCHANGED <<stack, wild>>

\* create() gets a stack and clears the header, and with it the list.
create(p) ==
  /\ Running
  /\ p \in HeapProcs \ alive
  /\ Fits(memlist, StackSize) # {}
  /\ stack' = [q \in alive \cup {p} |->
                IF q = p THEN stkaddr(memlist, StackSize) ELSE stack[q]]
  /\ memlist' = allocstk(memlist, StackSize)
  /\ mlength' = mlength - StackSize
  /\ header' = NULL
  /\ UNCHANGED <<node, blocks, hung, wild>>

\* kill() frees the stack with freestk() and nothing else: the loop over the
\* blocks in use is commented out.  The death of the last process halts.
kill(p) ==
  /\ Running
  /\ p \in alive /\ alive # {p}
  /\ release(stack[p], StackSize)
  /\ IF hung'
     THEN UNCHANGED <<stack, blocks>>
     ELSE /\ stack' = [q \in alive \ {p} |-> stack[q]]
          /\ blocks' = {IF b.owner = p THEN [b EXCEPT !.owner = Nobody] ELSE b
                        : b \in blocks}
  /\ UNCHANGED wild

\* Nothing follows a search that does not end or a write to address -1.
stopped == ~Running /\ UNCHANGED heapVars

\* meminit() makes one block; rcreate() has taken the stack of main() from it.
Init ==
  LET main == CHOOSE p \in HeapProcs : TRUE
  IN  /\ memlist = <<[addr |-> 1, len |-> HeapSize - StackSize]>>
      /\ mlength = HeapSize - StackSize
      /\ stack = [p \in {main} |-> 1 + HeapSize - StackSize]
      /\ header = NULL
      /\ node = [x \in {} |-> NULL]
      /\ blocks = {}
      /\ hung = FALSE
      /\ wild = FALSE

Next ==
  \/ \E p \in HeapProcs : create(p) \/ kill(p)
  \/ \E p \in HeapProcs, n \in Sizes : getmem(p, n)
  \/ \E b \in blocks : freemem(b)
  \/ stopped

Spec == Init /\ [][Next]_heapVars

-----------------------------------------------------------------------------
(* Properties of the code                                                  *)

TypeOK ==
  /\ memlist \in Seq([addr : 1..HeapSize, len : 1..HeapSize])
  /\ mlength \in 0..HeapSize
  /\ DOMAIN node \subseteq 1..HeapSize
  /\ header \in DOMAIN node \cup {NULL}
  /\ \A x \in DOMAIN node :
       node[x] \in [memblockptr : 1..HeapSize, mnext : DOMAIN node \cup {NULL}]
  /\ blocks \subseteq [addr : 1..HeapSize, len : Sizes, owner : HeapProcs \cup {Nobody}]
  /\ alive \subseteq HeapProcs /\ alive # {}
  /\ \A p \in alive : stack[p] \in 1..HeapSize
  /\ hung \in BOOLEAN
  /\ wild \in BOOLEAN

\* The parts that the heap consists of: what a part is, where it begins, how
\* long it is and whose it is.
Region(what, a, n, id) == <<what, a, n, id>>
Units(a, n) == a..(a + n - 1)
Extent(r) == Units(r[2], r[3])

Used ==
  {Region("node", x, NodeSize, x) : x \in DOMAIN node}
    \cup {Region("block", b.addr, b.len, b.owner) : b \in blocks}
    \cup {Region("stack", stack[p], StackSize, p) : p \in alive}
Regions == {Region("free", memlist[i].addr, memlist[i].len, i) : i \in 1..Len(memlist)} \cup Used

FreeUnits(free) == UNION {Units(free[i].addr, free[i].len) : i \in 1..Len(free)}

\* The free list is in address order, its blocks do not touch, and memlist.mlength is
\* the number of free units (freemem.c:62-76, getmem.c:34, freemem.c:58).
FreeListCoalesced ==
  \A i \in 1..(Len(memlist) - 1) :
    memlist[i].addr + memlist[i].len < memlist[i + 1].addr

LengthExact == mlength = Cardinality(FreeUnits(memlist))

FreeListExact == FreeListCoalesced /\ LengthExact

\* No unit of memory belongs to two of the parts, so that no two callers are given
\* the same memory, and none is lost, whatever was allocated, split and freed in
\* whatever order (getmem.c:51, getstk.c:46, freemem.c:60).
Partition ==
  /\ \A r, s \in Regions : r # s => Extent(r) \cap Extent(s) = {}
  /\ UNION {Extent(r) : r \in Regions} = 1..HeapSize

\* A block and its node leave the list together: a node that a search can
\* still meet stands for a block that is in use, until a search for a stack has
\* closed the list to a cycle (memextract.c:33).
Listed == {Walk[i] : i \in DOMAIN Walk} \ {NULL}

ListedInUse ==
  \A x \in Listed :
    \/ \E b \in blocks : b.addr = node[x].memblockptr
    \/ NULL \notin {Walk[i] : i \in DOMAIN Walk}

-----------------------------------------------------------------------------
(* What the documents say of the code                                      *)

\* kill(): "Kill a process and remove it from the system" (kill.c:6).
KillReturns == ~hung
=============================================================================
