------------------------------- MODULE LocalFS -------------------------------
(***************************************************************************)
(* The local file system: a directory, index blocks and data blocks on a   *)
(* disk, and the copies of them that the open files keep in memory.        *)
(*                                                                         *)
(* The disk is the RAM disk (LF_DISK_DEV in config/Configuration), which   *)
(* never blocks, and device calls run with interrupts disabled: a call is  *)
(* one step, and nobody ever waits for the mutexes.                        *)
(***************************************************************************)
EXTENDS Integers, FiniteSets, SequencesExt

CONSTANTS
  Names,           \* names of files
  Nlfl,            \* pseudo-devices for open files
  LF_BLKSIZ,       \* bytes in a data block
  LF_IBLEN,        \* data blocks of an index block
  LF_NUM_DIR_ENT,  \* files in the directory
  IBLKS, DiskSizes, \* index blocks of a disk, and how many data blocks it may have
  Bytes, Modes,    \* bytes that are written, and modes that files are opened with
  MaxIO, MaxSize   \* bounds of the model: bytes per call and per file

LF_IDATA == LF_BLKSIZ * LF_IBLEN
LF_INULL == -1
LF_DNULL == -1
DFILL == "+"         \* what a new data block is filled with

Lfl == 0..(Nlfl - 1)
IBlocks == 0..(IBLKS - 1)
Filled == [b \in 1..LF_BLKSIZ |-> DFILL]

VARIABLES
  lf_dir, lf_dirpresent, lf_dirdirty,   \* Lf_data
  disk,                                 \* [dir, ib, db]: what is on the disk
  lfltab,                               \* the open files
  lfpanic,                              \* panic() has been called
  lfgot                                 \* what lflread() has just returned

lfVars == <<lf_dir, lf_dirpresent, lf_dirdirty, disk, lfltab, lfpanic, lfgot>>

lfibclear(offset) ==
  [next |-> LF_INULL, offset |-> offset, dba |-> [i \in 0..(LF_IBLEN - 1) |-> LF_DNULL]]

freeblock(next) == [next |-> next, data |-> Filled]

\* A directory that lfscreate() has written does not identify itself as a file
\* system: lfd_fsysid, lfd_allones and lfd_revid are left zero.
lfscreate(dblks) ==
  [dir |-> [ident |-> FALSE, dfree |-> 0, ifree |-> 0, files |-> <<>>],
   ib  |-> [i \in IBlocks |->
              [lfibclear(0) EXCEPT !.next = IF i = IBLKS - 1 THEN LF_INULL ELSE i + 1]],
   db  |-> [i \in 0..(dblks - 1) |-> freeblock(IF i = dblks - 1 THEN LF_DNULL ELSE i + 1)]]

lfscheck(dir) == dir.ident

\* The control block of a file that is not open; byte = LF_BLKSIZ stands for a
\* pointer beyond the data block.  (A closed file leaves its blocks behind; they
\* are not looked at before the next ones are loaded.)
lflinit ==
  [used |-> FALSE, entry |-> 0, pos |-> 0, inum |-> LF_INULL, iblock |-> lfibclear(0),
   dnum |-> LF_DNULL, dblock |-> Filled, byte |-> LF_BLKSIZ,
   ibdirty |-> FALSE, dbdirty |-> FALSE]

lfsinit ==
  /\ lf_dir = [ident |-> FALSE, dfree |-> 0, ifree |-> 0, files |-> <<>>]
  /\ lf_dirpresent = FALSE /\ lf_dirdirty = FALSE

\* What identifies the file system is on the disk, or is not.
LfInit ==
  /\ lfsinit
  /\ \E id \in BOOLEAN, n \in DiskSizes : disk = [lfscreate(n) EXCEPT !.dir.ident = id]
  /\ lfltab = [d \in Lfl |-> lflinit]
  /\ lfpanic = FALSE /\ lfgot = <<>>

-----------------------------------------------------------------------------
(* The functions below map records v of what they may change: the directory*)
(* in memory and its flag, the disk, and the control block f of the file.  *)

State(d) == [dir |-> lf_dir, dirty |-> lf_dirdirty, disk |-> disk, f |-> lfltab[d],
             panic |-> FALSE, got |-> <<>>]

ramread(v, dnum) == v.disk.db[dnum]
ramwrite(v, dnum, block) == [v EXCEPT !.disk.db[dnum] = block]

writedir(v) == [v EXCEPT !.disk.dir = v.dir, !.dirty = FALSE]
lfibput(v, i, block) == [v EXCEPT !.disk.ib[i] = block]
lfibget(v, i) == v.disk.ib[i]

lfiballoc(v) == writedir([v EXCEPT !.dir.ifree = lfibget(v, @).next])

lfdballoc(v) ==
  writedir([v EXCEPT !.dir.dfree = ramread(v, @).next, !.f.dblock = Filled])

\* (Variant: the block is not linked to the free ones.)
lfdbfree_last(v, dnum) ==
  LET w == ramwrite([v EXCEPT !.dir.dfree = dnum], dnum, freeblock(LF_DNULL))
  IN  [w EXCEPT !.disk.dir = w.dir]

lfdbfree(v, dnum) ==
  LET w == ramwrite([v EXCEPT !.dir.dfree = dnum], dnum, freeblock(v.dir.dfree))
  IN  [w EXCEPT !.disk.dir = w.dir]

lfflush(v) ==
  LET w == IF v.dirty THEN writedir(v) ELSE v
      x == IF w.f.dbdirty
           THEN [ramwrite(w, w.f.dnum, [next |-> LF_DNULL, data |-> w.f.dblock])
                   EXCEPT !.f.dbdirty = FALSE]
           ELSE w
  IN  IF x.f.ibdirty THEN [lfibput(x, x.f.inum, x.f.iblock) EXCEPT !.f.ibdirty = FALSE]
      ELSE x

ilist(v) == v.dir.files[v.f.entry].ilist
size(v) == v.dir.files[v.f.entry].size

panics(v) == [v EXCEPT !.panic = TRUE]

newindex(v, offset) ==
  LET w == lfiballoc(v)
  IN  [w EXCEPT !.f.inum = v.dir.ifree, !.f.iblock = lfibclear(offset), !.f.ibdirty = TRUE]
loadindex(v, i) == [v EXCEPT !.f.inum = i, !.f.iblock = lfibget(v, i)]

\* An index block is in memory: the one that was there, unless the position is
\* before it, the first one of the file, or a new one.
first_iblock(v) ==
  IF v.f.inum = LF_INULL
  THEN IF ilist(v) # LF_INULL THEN loadindex(v, ilist(v))
       ELSE IF v.dir.ifree = LF_INULL THEN panics(v)
       ELSE [newindex(v, 0) EXCEPT !.dir.files[v.f.entry].ilist = v.dir.ifree]
  ELSE IF v.f.pos < v.f.iblock.offset THEN loadindex(v, ilist(v))
  ELSE v

\* It is the one that covers the position.
RECURSIVE cover(_)
cover(v) ==
  LET next == v.f.iblock.next
      link == [lfibput(lfiballoc(v), v.f.inum, [v.f.iblock EXCEPT !.next = v.dir.ifree])
                 EXCEPT !.f.inum = v.dir.ifree,
                        !.f.iblock = lfibclear(v.f.iblock.offset + LF_IDATA),
                        !.f.ibdirty = TRUE]
  IN  IF v.panic \/ (v.f.pos \div LF_IDATA) * LF_IDATA <= v.f.iblock.offset THEN v
      ELSE IF next # LF_INULL THEN cover([loadindex(v, next) EXCEPT !.f.dnum = LF_DNULL])
      ELSE IF v.dir.ifree = LF_INULL THEN panics(v)
      ELSE cover([link EXCEPT !.f.dnum = LF_DNULL])

\* The data block that the index block names is in memory, or a new one.
data_block(v) ==
  LET dindex == (v.f.pos % LF_IDATA) \div LF_BLKSIZ
      dnum == v.f.iblock.dba[dindex]
  IN  IF v.panic THEN v
      ELSE IF dnum = LF_DNULL
      THEN IF v.dir.dfree = LF_DNULL THEN panics(v)
           ELSE [lfdballoc(v) EXCEPT !.f.iblock.dba[dindex] = v.dir.dfree,
                                     !.f.ibdirty = TRUE, !.f.dnum = v.dir.dfree]
      ELSE IF dnum # v.f.dnum
      THEN [v EXCEPT !.f.dblock = ramread(v, dnum).data, !.f.dbdirty = FALSE, !.f.dnum = dnum]
      ELSE v

\* (Variant: a data block that has changed is not written.)
lfsetup_noflush(v) ==
  LET w == IF v.f.ibdirty THEN lfflush(v) ELSE v
      x == data_block(cover(first_iblock(w)))
  IN  [x EXCEPT !.f.byte = x.f.pos % LF_BLKSIZ]

lfsetup(v) ==
  LET w == IF v.f.ibdirty \/ v.f.dbdirty THEN lfflush(v) ELSE v
      x == data_block(cover(first_iblock(w)))
  IN  [x EXCEPT !.f.byte = x.f.pos % LF_BLKSIZ]

setup(v) == IF ~v.panic /\ v.f.byte >= LF_BLKSIZ THEN lfsetup(v) ELSE v

RECURSIVE freechain(_, _)
freechain(v, i) ==
  LET block == lfibget(v, i)
      free(x, n) == IF block.dba[n - 1] = LF_DNULL THEN x ELSE lfdbfree(x, block.dba[n - 1])
      w == FoldLeft(free, v, [n \in 1..LF_IBLEN |-> n])
      next == IF block.next = LF_INULL THEN v.dir.ifree ELSE block.next
      x == lfibput(w, i, [lfibclear(0) EXCEPT !.next = next])
  IN  IF next = v.dir.ifree THEN x ELSE freechain(x, next)

\* The blocks of the file go to the free lists: the last index block points to
\* the first free one.
lftruncate(v) ==
  LET w == IF v.f.ibdirty \/ v.f.dbdirty THEN lfflush(v) ELSE v
      x == [w EXCEPT !.f = [lflinit EXCEPT !.used = TRUE, !.entry = v.f.entry], !.dirty = TRUE,
                     !.dir.files[v.f.entry].ilist = LF_INULL,
                     !.dir.files[v.f.entry].size = 0]
  IN  IF size(v) = 0 THEN v
      ELSE [freechain(x, ilist(v)) EXCEPT !.dir.ifree = ilist(v)]

lflputc(v, ch) ==
  LET w == setup(v)
      x == [w EXCEPT !.f.dblock[w.f.byte + 1] = ch, !.f.byte = @ + 1,
                     !.f.pos = @ + 1, !.f.dbdirty = TRUE]
  IN  IF w.panic THEN w
      ELSE IF w.f.pos >= size(w)
      THEN [x EXCEPT !.dir.files[w.f.entry].size = @ + 1, !.dirty = TRUE]
      ELSE x

lflgetc(v) ==
  LET w == setup(v)
  IN  IF w.panic THEN w
      ELSE [w EXCEPT !.f.byte = @ + 1, !.f.pos = @ + 1,
                     !.got = Append(@, w.f.dblock[w.f.byte + 1])]

-----------------------------------------------------------------------------
(* Calls                                                                   *)

isopen(d) == ~lfpanic /\ lfltab[d].used

becomes(d, v) ==
  /\ lf_dir' = v.dir /\ lf_dirdirty' = v.dirty /\ disk' = v.disk
  /\ lfltab' = [lfltab EXCEPT ![d] = v.f]
  /\ lfpanic' = v.panic
  /\ lfgot' = v.got
  /\ UNCHANGED lf_dirpresent

\* No letter twice, no other letter, and not both of old and new.  (Whether a
\* file is read or written is recorded, and not looked at any more.)
lfgetmode(mode) ==
  IF ~IsInjective(mode) \/ ~Range(mode) \subseteq {"r", "w", "o", "n"}
       \/ {"o", "n"} \subseteq Range(mode)
  THEN "invalid"
  ELSE IF "o" \in Range(mode) THEN "old"
  ELSE IF "n" \in Range(mode) THEN "new"
  ELSE "any"

entryof(dir, name) == {e \in DOMAIN dir.files : dir.files[e].name = name}

lfsopen(name, mode) ==
  LET free == {d \in Lfl : ~lfltab[d].used}
      d == CHOOSE x \in free : \A y \in free : x <= y
      dir == IF lf_dirpresent THEN lf_dir ELSE disk.dir
      found == entryof(dir, name)
      created == Append(dir.files, [name |-> name, size |-> 0, ilist |-> LF_INULL])
      may == IF found # {} THEN lfgetmode(mode) # "new"
             ELSE lfgetmode(mode) # "old" /\ Len(dir.files) < LF_NUM_DIR_ENT
      entry == IF found # {} THEN CHOOSE e \in found : TRUE ELSE Len(created)
  IN  /\ ~lfpanic
      /\ lfgetmode(mode) # "invalid"
      /\ \A e \in Lfl : lfltab[e].used => lf_dir.files[lfltab[e].entry].name # name
      /\ free # {}
      /\ lf_dirpresent' = (lf_dirpresent \/ lfscheck(dir))
      /\ IF lf_dirpresent' /\ may
         THEN /\ lf_dir' = IF found # {} THEN dir ELSE [dir EXCEPT !.files = created]
              /\ lfltab' = [lfltab EXCEPT ![d] = [lflinit EXCEPT !.used = TRUE, !.entry = entry]]
         ELSE lf_dir' = dir /\ UNCHANGED lfltab
      /\ lfgot' = <<>>
      /\ UNCHANGED <<lf_dirdirty, disk, lfpanic>>

lflclose(d) ==
  LET v == State(d)
      w == IF v.dirty \/ v.f.dbdirty \/ v.f.ibdirty THEN lfflush(v) ELSE v
  IN  /\ isopen(d)
      /\ becomes(d, [w EXCEPT !.f = lflinit])

lflwrite(d, bytes) ==
  /\ isopen(d)
  /\ lfltab[d].pos + Len(bytes) <= MaxSize   \* bound of the model
  /\ becomes(d, FoldLeft(lflputc, State(d), bytes))

\* A read ends at the end of the file.
lflread(d, count) ==
  LET left == size(State(d)) - lfltab[d].pos
      n == IF count < left THEN count ELSE left
      v == FoldLeft(LAMBDA x, i : lflgetc(x), State(d), [i \in 1..n |-> i])
  IN  /\ isopen(d)
      /\ becomes(d, v)

lflseek(d, offset) ==
  /\ isopen(d)
  /\ offset <= size(State(d))
  /\ becomes(d, [State(d) EXCEPT !.f.pos = offset, !.f.byte = LF_BLKSIZ])

lflcontrol(d) ==
  /\ isopen(d)
  /\ becomes(d, lftruncate(State(d)))

LfNext ==
  \/ \E n \in Names, m \in Modes : lfsopen(n, m)
  \/ \E d \in Lfl :
       \/ lflclose(d)
       \/ \E bytes \in BoundedSeq(Bytes, MaxIO) : lflwrite(d, bytes)
       \/ \E count \in 1..MaxIO : lflread(d, count)
       \/ \E offset \in 0..MaxSize : lflseek(d, offset)
       \/ lflcontrol(d)

LfSpec == LfInit /\ [][LfNext]_lfVars

-----------------------------------------------------------------------------
(* Properties                                                              *)

\* The blocks as the open files see them: the copy in memory is the newer one.
iblock(i) ==
  LET d == {x \in Lfl : lfltab[x].used /\ lfltab[x].inum = i}
  IN  IF d = {} THEN disk.ib[i] ELSE lfltab[CHOOSE x \in d : TRUE].iblock
dblock(n) ==
  LET d == {x \in Lfl : lfltab[x].used /\ lfltab[x].dnum = n}
  IN  IF d = {} THEN disk.db[n].data ELSE lfltab[CHOOSE x \in d : TRUE].dblock

\* The list that starts at i, cut where it is longer than there are blocks.
RECURSIVE indices(_, _), freedata(_, _)
indices(i, most) ==
  IF i = LF_INULL \/ most < 0 THEN <<>> ELSE <<i>> \o indices(iblock(i).next, most - 1)
freedata(n, most) ==
  IF n = LF_DNULL \/ most < 0 THEN {} ELSE {n} \cup freedata(disk.db[n].next, most - 1)

dir == IF lf_dirpresent THEN lf_dir ELSE disk.dir

\* The index blocks of a file, or of the free list as the file 0; the data block
\* that holds the part number k of a file.
listof(e) == indices(IF e = 0 THEN dir.ifree ELSE dir.files[e].ilist, IBLKS)
inpart(is, k) == iblock(is[((k - 1) \div LF_IBLEN) + 1]).dba[(k - 1) % LF_IBLEN]
parts(is) == {k \in 1..(Len(is) * LF_IBLEN) : inpart(is, k) # LF_DNULL}

\* Every index block and every data block is in one file or on its free list,
\* and nowhere else, whatever is extended, truncated and still to be written
\* (lftruncate.c:83, lfsetup.c:83).
BlocksOwned ==
  LET lists == [e \in 0..Len(dir.files) |-> listof(e)]
      data == [e \in 1..Len(dir.files) |-> {inpart(lists[e], k) : k \in parts(lists[e])}]
      free == freedata(dir.dfree, Cardinality(DOMAIN disk.db))
      Apart(f) == \A e, g \in DOMAIN f : e # g => f[e] \cap f[g] = {}
  IN  ~lfpanic =>
        /\ \A e \in DOMAIN lists : IsInjective(lists[e])
        /\ Apart([e \in DOMAIN lists |-> Range(lists[e])])
        /\ UNION {Range(lists[e]) : e \in DOMAIN lists} = IBlocks
        /\ \A e \in DOMAIN data : Cardinality(data[e]) = Cardinality(parts(lists[e]))
        /\ Apart(data)
        /\ UNION Range(data) = DOMAIN disk.db \ free

\* What is in memory when every file is closed is on the disk, apart from files
\* that were created and never written, the entries of which are lost
\* (lflclose.c:29, lfsopen.c:137).
ClosedOnDisk ==
  LET kept == Len(disk.dir.files)
  IN  (\A d \in Lfl : ~lfltab[d].used) /\ lf_dirpresent =>
        /\ disk.dir = [lf_dir EXCEPT !.files = SubSeq(@, 1, kept)]
        /\ \A e \in (kept + 1)..Len(lf_dir.files) : lf_dir.files[e].size = 0

\* The first n bytes that are kept in the index block i and those after it.
RECURSIVE bytesfrom(_, _)
bytesfrom(i, n) ==
  IF n = 0 THEN <<>>
  ELSE LET here == IF n < LF_IDATA THEN n ELSE LF_IDATA
           block == iblock(i)
           at(p) == dblock(block.dba[p \div LF_BLKSIZ])[(p % LF_BLKSIZ) + 1]
       IN  [p \in 1..here |-> at(p - 1)] \o bytesfrom(block.next, n - here)

contents(e) == bytesfrom(dir.files[e].ilist, dir.files[e].size)

Flat == INSTANCE Files WITH
  Devices <- Lfl,
  file <- [n \in Names |->
             IF entryof(dir, n) = {} THEN [exists |-> FALSE, bytes |-> <<>>]
             ELSE [exists |-> TRUE, bytes |-> contents(CHOOSE e \in entryof(dir, n) : TRUE)]],
  opened <- [d \in Lfl |->
               IF lfltab[d].used THEN [name |-> dir.files[lfltab[d].entry].name, pos |-> lfltab[d].pos]
               ELSE [name |-> "", pos |-> 0]],
  got <- lfgot

\* A file is the sequence of bytes that were written to it, and a read returns
\* them, whatever blocks are in memory, have been left dirty or come from a free
\* list (lfsetup.c:36, lflseek.c:37, lfdballoc.c:38).
FilesAreSequences == Flat!FilesSpec
=============================================================================
