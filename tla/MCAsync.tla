------------------------------ MODULE MCAsync ------------------------------
(***************************************************************************)
(* An instance of AsyncIPC for the liveness of callbacks.  A process that  *)
(* has registered stays registered, nobody waits for a message of the      *)
(* ordinary kind, and the entry of a killed process is not used again      *)
(* after the search for free entries has come round; run async has all of  *)
(* these.                                                                  *)
(***************************************************************************)
EXTENDS AsyncIPC

MCNext ==
  /\ ANext
  /\ \A p \in Pids : prcbvalid[p] => prcbvalid'[p]
  /\ \A p \in Pids : prstate'[p] # PR_RECV
  /\ nextpid'.create >= nextpid.create

MCSpec == AInit /\ [][MCNext]_ipcall /\ AFairness
=============================================================================
