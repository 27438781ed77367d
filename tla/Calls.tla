------------------------------- MODULE Calls -------------------------------
(***************************************************************************)
(* Processes in system calls that may block, above the scheduler.          *)
(*                                                                         *)
(* Any process that is not blocked may be the next to run, except while a  *)
(* process is in a call that has not lost the CPU yet: interrupts are      *)
(* disabled, and `masked' is that process.                                 *)
(***************************************************************************)
EXTENDS Semaphores

CONSTANT MaxKills  \* bound of the model: processes that are killed

\* proctab[] has NPROC entries.
ASSUME CallAssumption == IsFiniteSet(Procs)

None == "none"
Idle == [op |-> "user"]

VARIABLES
  call,       \* the call that each process is in
  masked,     \* the process that cannot lose the CPU, or None
  panicked,   \* panic() has been called
  kills       \* number of processes killed in a call

callVars == <<semtab, call, masked, panicked, kills>>

CallInit ==
  /\ call = [p \in Procs |-> Idle]
  /\ masked = None
  /\ panicked = FALSE
  /\ kills = 0

\* p is not blocked, and nobody else is in a call it cannot be taken from.
Runs(p) == ~panicked /\ ~Waiting(p) /\ masked \in {None, p}
InUser(p) == Runs(p) /\ call[p] = Idle
Resumes(p, op) == Runs(p) /\ call[p].op = op

Return(p) == call' = [call EXCEPT ![p] = Idle]

\* p is switched out if the change of the semaphore table to t readies anyone.
Preempts(t, p) == IF \E q \in Procs : Waiting(q) /\ ~WaitsIn(t, q) THEN None ELSE p

\* What newsem() may return.
NewSem(t) == IF FreeSems(t) = {} THEN {SYSERR} ELSE FreeSems(t)

\* Another process kills p in the middle of a call.  A new process has the same
\* entry of the process table at once.
killcaller(p) ==
  /\ ~panicked /\ masked = None /\ kills < MaxKills
  /\ call[p] # Idle
  /\ kills' = kills + 1
  /\ semtab' = withdraw(semtab, p)
  /\ Return(p)
  /\ UNCHANGED <<masked, panicked>>

\* panic() spins with interrupts disabled.
panic == panicked /\ UNCHANGED callVars
=============================================================================
