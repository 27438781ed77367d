----------------------------- MODULE MCMessages -----------------------------
(***************************************************************************)
(* Instances for TLC of Messages and of Marks.  The two share no state, so *)
(* one run checks them side by side: `part' says which one takes steps.    *)
(***************************************************************************)
EXTENDS Messages, Marks, TLC

VARIABLE part

mcVars == <<msgVars, markVars, part>>

MCInit ==
  /\ part \in {"messages", "marks"}
  /\ MsgInit
  /\ MarkInit
  /\ part = "messages" => loc = [l \in Locs |-> -1]

\* Bound of the model: pools are made before there is a port.
PoolsFirst == nbpools' = nbpools \/ \A i \in PortIds : porttab[i].ptseq = 0

MCNext ==
  /\ UNCHANGED part
  /\ \/ part = "messages" /\ MsgNext /\ PoolsFirst /\ UNCHANGED markVars
     \/ part = "marks" /\ MarkNext /\ UNCHANGED msgVars

MCSpec == MCInit /\ [][MCNext]_mcVars

Symmetry == Permutations(Procs) \cup Permutations(Markers)
=============================================================================
