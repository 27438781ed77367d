------------------------------ MODULE MCDevices ------------------------------
(***************************************************************************)
(* Instances for TLC of the tty driver, the local file system, the name    *)
(* space and the memory manager.  These share no state, so one run checks  *)
(* them side by side: `part' says which one takes steps, and in which      *)
(* situation, named by the restrictions below.                             *)
(***************************************************************************)
EXTENDS Tty, LocalFS, Namespace, Heap, TLC

VARIABLE part

TtyParts == {"modes", "readers", "output"}
LfParts == {"onefile", "twofiles"}

-----------------------------------------------------------------------------
(* Values of the constants                                                 *)

MCModes == {<<>>, <<"o">>, <<"n">>, <<"n", "o">>}
MCdevtab == << <<"c">>, <<"n", "s">>, <<"l", "s">>, <<"r", "s">>, <<"l", "r">>, <<"n", "u">> >>
MCMountArgs ==
  [prefix : {<<"l">>, <<"/", "d", "/", "r">>, <<"~", "~", "~", "~", "~", "~">>},
   replace : {<<>>, <<"l">>}, device : 0..2]

Symmetry == Permutations(Procs)

-----------------------------------------------------------------------------
(* Situations                                                              *)

Active == Cardinality({p \in Procs : call'[p] # Idle})

\* Reading and the whole input side, without echo, and output that flows.
InputPart ==
  /\ ~tyoheld' /\ ~tyiecho'
  /\ tyefill' > 0 => tyimode = CBREAK /\ icount = TY_IBUFLEN
  /\ \A p \in Procs : call'[p].op # "putc wait"

\* Writing and flow control, with input that nobody reads.
OutputPart ==
  /\ tyimode' = COOKED
  /\ \A p \in Procs : call'[p].op \notin {"getc wait", "nextc wait"}

\* Bounds: one end of a line and one end of file in the buffer at a time; one
\* process that may change the mode while it reads, or two that do not; two that
\* write.
TtyRestricted ==
  /\ \A ch \in {"nl", "eof"} : Cardinality({i \in ISlots : tyibuff'[i] = ch}) <= 1
  /\ part = "modes" => InputPart /\ Active <= 1
  /\ part = "readers" => InputPart /\ Active <= 2 /\ tyimode' = COOKED
  /\ part = "output" => OutputPart /\ Active <= 2

nameof(d) == dir'.files[lfltab'[d].entry].name

\* One file of several index blocks.  The last byte of a block is not a choice.
OneFile ==
  \A d \in Lfl : lfltab'[d].used => nameof(d) = "a" /\ lfltab'[d].dblock[LF_BLKSIZ] # "a"

\* Two short files, each of a byte of its own, and not enough data blocks for both.
TwoFiles ==
  /\ lfgot' = <<>>
  /\ \A d \in Lfl :
       lfltab'[d].used => Range(lfltab'[d].dblock) \subseteq {DFILL, nameof(d)}
  /\ \A f \in Range(lf_dir'.files) : f.size <= IF f.name = "a" THEN 3 ELSE 1

LfRestricted ==
  /\ part = "onefile" => OneFile
  /\ part = "twofiles" => TwoFiles

-----------------------------------------------------------------------------
(* The specification                                                       *)

MCInit ==
  /\ part \in TtyParts \cup LfParts \cup {"names", "heap"}
  /\ TtyInit /\ LfInit /\ NamInit /\ Init
  /\ part = "onefile" => DOMAIN disk.db = 0..2
  /\ part = "twofiles" => DOMAIN disk.db = 0..1
  /\ part \notin LfParts => disk = [lfscreate(2) EXCEPT !.dir.ident = TRUE]

MCNext ==
  /\ UNCHANGED part
  /\ \/ /\ part \in TtyParts /\ TtyNext /\ TtyRestricted
        /\ UNCHANGED <<lfVars, nametab, heapVars>>
     \/ /\ part \in LfParts /\ LfNext /\ LfRestricted
        /\ UNCHANGED <<callVars, ttyVars, nametab, heapVars>>
     \/ /\ part = "names" /\ mount
        /\ UNCHANGED <<callVars, ttyVars, lfVars, heapVars>>
     \/ /\ part = "heap" /\ Next
        /\ UNCHANGED <<callVars, ttyVars, lfVars, nametab>>

mcVars == <<part, callVars, ttyVars, lfVars, nametab, heapVars>>
MCSpec == MCInit /\ [][MCNext]_mcVars

-----------------------------------------------------------------------------
(* What the parts promise                                                  *)

\* LocalFS: every block is in one file or free, and a disk without open files has all
\* that was written (lftruncate.c:83, lfsetup.c:83, lflclose.c:29).
LfDiskConsistent == BlocksOwned /\ ClosedOnDisk

(* The invariants of the name space look at every name: they are left to   *)
(* the part that changes it.                                               *)

\* Namespace: no mount() changes what a name that could be opened before leads to,
\* in a table where the first match counts; after it each device can be opened by its
\* name, and gets the rest of the name whole (mount.c:35, nammap.c:70-106,
\* naminit.c:42-76).
NsNamesKept ==
  [][part = "names" /\ nametab' # nametab => KeepsNames /\ DevicesOpened' /\ NamesWhole']_mcVars
=============================================================================
