---------------------------- MODULE NetworkProofs ----------------------------
(***************************************************************************)
(* Theorems about RemoteFS and NetClients, for any number of processes,    *)
(* names, retries, bytes, servers and answers: every way out of a call of  *)
(* the remote file system gives the mutex back, and what its caller is     *)
(* told has happened; what a client of UDP returns is what a server has    *)
(* granted, answered or sent.                                              *)
(*                                                                         *)
(* The mutex is not a flag that says who has it: a call is inside if it    *)
(* has begun and does not wait.  That there is one at a time follows from  *)
(* the count, which is 1 less the calls that have begun and those that     *)
(* were killed inside, since a negative count is the length of the queue.  *)
(*                                                                         *)
(* An answer is true because the server does the same again: each          *)
(* execution of a request leaves every answer to that request true, so all *)
(* the answers to the latest one are until an older one is executed.  The  *)
(* caller takes one of them, since nothing older has the same number.      *)
(*                                                                         *)
(* Datagrams of the clients stay on the wire for ever, so the invariant of *)
(* the clients says what each may contain, and a step of a client is a     *)
(* function of its state: it is shown to make a good state of a good one.  *)
(***************************************************************************)
EXTENDS MCNetwork, SemTableProofs

-----------------------------------------------------------------------------
(* The values of the variables                                             *)

Names == RfNames \cup {None}
Letters == {"r", "w", "o", "n"}
FileBytes == RfBytes \cup {Gap}
Contents == {NoFile, Dir} \cup Seq(FileBytes)
Pseudo == [used : BOOLEAN, name : Names \cup {TooLong}, pos : Nat, mode : SUBSET Letters]

Types == {"open", "read", "write", "size", "truncate", "delete", "mkdir", "rmdir"}
Msgs == [type : Types, name : Names, seq : Nat, pos : Nat, len : Nat,
         mode : SUBSET Letters, data : Seq(RfBytes)]
Sent == {m \in Msgs : m.type = "write" => m.len = Len(m.data)}
Answers == [type : Types, seq : Nat, status : {0, 1}, data : Seq(FileBytes), len : Nat]

OpenCalls == [op : {"rfs open"}, name : RfNames \cup {None, TooLong}, mode : RfModes]
ReadCalls == [op : {"rfs read"}, dev : Rfl, len : Nat]
WriteCalls == [op : {"rfs write"}, dev : Rfl, data : Seq(RfBytes)]
CloseCalls == [op : {"rfs close"}, dev : Rfl]
SeekCalls == [op : {"rfs seek"}, dev : Rfl, pos : Nat]
ControlCalls == [op : {"rfs control"},
                 func : {"size", "truncate", "delete", "mkdir", "rmdir"}, name : RfNames]
BegunCalls ==
  OpenCalls \cup ReadCalls \cup WriteCalls \cup CloseCalls \cup SeekCalls \cup ControlCalls
Exchanges == [op : {"rfscomm"}, dev : Rfl, msg : Sent, tries : Nat]
RfsCalls == {Idle} \cup BegunCalls \cup Exchanges

RfsTypes ==
  /\ call \in [Procs -> RfsCalls]
  /\ SemTable(semtab)
  /\ rf_seq \in Nat
  /\ rfltab \in [Rfl -> Pseudo]
  /\ rfserver \in [Names -> Contents]
  /\ rfrequests \subseteq Sent /\ rfreplies \subseteq Answers
  /\ latest \in Sent
  /\ rfabandoned \in Nat

\* The mutex.  A call that waits has not begun to do anything.
Active == {p \in RfsProcs : call[p] # Idle}
MutexInv ==
  /\ \A p \in Procs \ RfsProcs : call[p] = Idle
  /\ semtab[rf_mutex].used
  /\ \A s \in SemIds : s # rf_mutex => OnQueue(semtab, s) = {}
  /\ OnQueue(semtab, rf_mutex) \subseteq {p \in RfsProcs : call[p] \in BegunCalls}
  /\ semtab[rf_mutex].count = 1 - Cardinality(Active) - rfabandoned

\* What is true of the server when it has done m and answered r.
Told(m, r) ==
  LET here == rfserver[m.name]
  IN  /\ r.status = 0 =>
           \/ m.type = "open" /\ IsFile(m.name)
           \/ m.type = "read" /\ IsFile(m.name) /\ r.len <= m.len
                /\ r.data = SubSeq(here, m.pos + 1, m.pos + r.len)
           \/ m.type = "write" /\ IsFile(m.name) /\ r.len = m.len
                /\ SubSeq(here, m.pos + 1, m.pos + r.len) = m.data
           \/ m.type = "size" /\ IsFile(m.name) /\ r.len = Len(here)
           \/ m.type = "truncate" /\ here = <<>>
           \/ m.type \in {"delete", "rmdir"} /\ here = NoFile
           \/ m.type = "mkdir" /\ here = Dir
      /\ m.type = "size" /\ r.status # 0 => ~IsFile(m.name)

\* All the answers to the latest request are true, until an older one is executed.
Truthful(r) ==
  accepts(latest, r) /\ fate # "overtaken" =>
    Told(latest, r) /\ (r.status # 0 /\ fate = "done" => rfserver[latest.name] = before)

\* No two requests have the same number, and the latest has the highest.
HistoryInv ==
  /\ latest.seq < rf_seq
  /\ \A m \in rfrequests : m.seq < rf_seq /\ (m.seq = latest.seq => m = latest)
  /\ \A r \in rfreplies : r.seq < rf_seq /\ Truthful(r)
  /\ fate = "sent" => /\ \A r \in rfreplies : r.seq # latest.seq
                      /\ rfserver[latest.name] = before
  /\ answered # NoAnswer => answered \in rfreplies /\ accepts(latest, answered)
  /\ \A p \in Procs : call[p] \in Exchanges => call[p].msg = latest

RfsInv == RfsTypes /\ MutexInv /\ HistoryInv /\ OpensKeepTheirSlot

-----------------------------------------------------------------------------
(* Calls                                                                   *)

LEMMA RfsCallKinds ==
  ASSUME NEW c \in RfsCalls
  PROVE  /\ c = Idle <=> c.op = "user"
         /\ c.op = "rfs open" => c \in OpenCalls
         /\ c.op = "rfs read" => c \in ReadCalls
         /\ c.op = "rfs write" => c \in WriteCalls
         /\ c.op = "rfs close" => c \in CloseCalls
         /\ c.op = "rfs seek" => c \in SeekCalls
         /\ c.op = "rfs control" => c \in ControlCalls
         /\ c.op = "rfscomm" <=> c \in Exchanges
         /\ c \in BegunCalls => c # Idle /\ c \notin Exchanges
<1>1. Idle.op = "user"
  BY DEF Idle
<1>2. CASE c = Idle
  BY <1>1, <1>2 DEF OpenCalls, ReadCalls, WriteCalls, CloseCalls, SeekCalls, ControlCalls,
                    BegunCalls, Exchanges
<1>3. CASE c \in BegunCalls
  BY <1>1, <1>3 DEF OpenCalls, ReadCalls, WriteCalls, CloseCalls, SeekCalls, ControlCalls,
                    BegunCalls, Exchanges
<1>4. CASE c \in Exchanges
  BY <1>1, <1>4 DEF OpenCalls, ReadCalls, WriteCalls, CloseCalls, SeekCalls, ControlCalls,
                    BegunCalls, Exchanges
<1> QED BY <1>2, <1>3, <1>4 DEF RfsCalls

\* A call that does not wait is inside, and there is one at most.
LEMMA OneInside ==
  ASSUME IsFiniteSet(Procs), RfsTypes, MutexInv
  PROVE  /\ IsFiniteSet(Active) /\ Cardinality(Active) \in Nat
         /\ OnQueue(semtab, rf_mutex) \subseteq Active
         /\ Inside = Active \ OnQueue(semtab, rf_mutex)
         /\ Cardinality(Inside) <= 1
         /\ \A p, q \in Inside : p = q
         /\ \A p \in Procs : Waiting(p) <=> p \in OnQueue(semtab, rf_mutex)
<1> DEFINE Q == OnQueue(semtab, rf_mutex)
           n == semtab[rf_mutex].count
<1>1. IsFiniteSet(Active) /\ Cardinality(Active) \in Nat
  <2>1. Active \subseteq Procs
    BY RfAssumption DEF Active
  <2> QED BY <2>1, FS_Subset, FS_CardinalityType
<1>2. Q \subseteq Active
  <2>1. \A p \in RfsProcs : call[p] \in BegunCalls => call[p] # Idle
    BY RfAssumption, RfsCallKinds DEF RfsTypes
  <2> QED BY <2>1 DEF MutexInv, Active
<1>3. \A p \in Procs : Waiting(p) <=> p \in Q
  BY WaitsOnQueue, RfAssumption DEF Waiting, MutexInv
<1>4. Inside = Active \ Q
  BY <1>3, RfAssumption DEF Inside, Active
<1>5. SemTable(semtab) /\ rf_mutex \in SemIds
  BY RfAssumption DEF RfsTypes
<1>6. IsFiniteSet(Q) /\ Cardinality(Q) = WaitCount(n)
  BY <1>5, SemWaiters
<1>7. Cardinality(Active \ Q) = Cardinality(Active) - Cardinality(Q)
  <2>1. Active \cap Q = Q
    BY <1>2
  <2>2. Cardinality(Active \ Q) = Cardinality(Active) - Cardinality(Active \cap Q)
    BY <1>1, FS_Difference
  <2> QED BY <2>1, <2>2
<1>8. n = 1 - Cardinality(Active) - rfabandoned /\ rfabandoned \in Nat
  BY DEF MutexInv, RfsTypes
<1>9. Cardinality(Inside) <= 1
  <2> HIDE DEF Q, n
  <2>1. Cardinality(Q) \in Nat
    BY <1>6, FS_CardinalityType
  <2>2. CASE n < 0
    BY <1>1, <1>4, <1>6, <1>7, <1>8, <2>1, <2>2 DEF WaitCount
  <2>3. CASE n >= 0
    BY <1>1, <1>4, <1>6, <1>7, <1>8, <2>1, <2>3 DEF WaitCount
  <2> QED BY <1>1, <1>8, <2>2, <2>3
<1>10. \A p, q \in Inside : p = q
  <2>1. IsFiniteSet(Inside)
    BY <1>1, <1>4, FS_Subset
  <2> SUFFICES ASSUME NEW p \in Inside, NEW q \in Inside, p # q PROVE FALSE
    OBVIOUS
  <2>2. {p, q} \subseteq Inside
    OBVIOUS
  <2>3. Cardinality({p, q}) = 2 /\ IsFiniteSet({p, q})
    <3>1. Cardinality({p}) = 1 /\ IsFiniteSet({p})
      BY FS_Singleton
    <3>2. {p, q} = {p} \cup {q}
      OBVIOUS
    <3>3. Cardinality({p} \cup {q}) = Cardinality({p}) + 1 /\ IsFiniteSet({p} \cup {q})
      BY <3>1, FS_AddElement
    <3> QED BY <3>1, <3>2, <3>3
  <2>4. Cardinality({p, q}) <= Cardinality(Inside)
    BY <2>1, <2>2, FS_Subset
  <2>5. Cardinality(Inside) \in Nat
    BY <2>1, FS_CardinalityType
  <2> QED BY <1>9, <2>3, <2>4, <2>5
<1> QED BY <1>1, <1>2, <1>3, <1>4, <1>9, <1>10

-----------------------------------------------------------------------------
(* Steps and the mutex                                                     *)

RfsContext == IsFiniteSet(Procs) /\ RfsTypes /\ MutexInv

CallsTyped ==
  /\ call \in [Procs -> RfsCalls]
  /\ SemTable(semtab)
  /\ rfabandoned \in Nat

\* p is in a call, and does not wait.
LEMMA InsideFacts ==
  ASSUME RfsContext, NEW p \in RfsProcs, ~Waiting(p), call[p] # Idle
  PROVE  /\ p \in Procs /\ p \in Inside /\ p \in Active
         /\ p \notin OnQueue(semtab, rf_mutex)
         /\ \A q \in Procs : q # p => call[q] \notin Exchanges
<1>1. p \in Procs /\ p \in Inside /\ p \in Active /\ p \notin OnQueue(semtab, rf_mutex)
  BY OneInside, RfAssumption DEF RfsContext, Inside, Active
<1>2. ASSUME NEW q \in Procs, q # p, call[q] \in Exchanges PROVE FALSE
  <2>1. call[q] # Idle /\ call[q] \notin BegunCalls
    BY <1>2, RfsCallKinds DEF RfsContext, RfsTypes
  <2>2. q \in RfsProcs
    BY <2>1 DEF RfsContext, MutexInv
  <2>3. q \notin OnQueue(semtab, rf_mutex)
    BY <2>1 DEF RfsContext, MutexInv
  <2>4. q \in Inside
    BY <2>1, <2>2, <2>3, OneInside DEF RfsContext, Active
  <2> QED BY <1>1, <1>2, <2>4, OneInside DEF RfsContext
<1> QED BY <1>1, <1>2

\* A call begins.
LEMMA BeginMutex ==
  ASSUME RfsContext, NEW p \in RfsProcs, NEW c \in BegunCalls, rfs_wait(p, c)
  PROVE  CallsTyped' /\ MutexInv'
<1> DEFINE u == wait(semtab, rf_mutex, p)
<1>1. /\ p \in Procs /\ rf_mutex \in SemIds /\ SemTable(semtab) /\ semtab[rf_mutex].used
      /\ call \in [Procs -> RfsCalls]
  BY RfAssumption DEF RfsContext, RfsTypes, MutexInv
<1>2. ~WaitsIn(semtab, p) /\ call[p] = Idle /\ semtab' = u /\ call' = [call EXCEPT ![p] = c]
        /\ rfabandoned' = rfabandoned
  BY DEF rfs_wait, InUser, Runs, Waiting, rfVars
<1>3. /\ SemTable(u) /\ OnlyChanges(semtab, u, rf_mutex)
      /\ u[rf_mutex].used /\ u[rf_mutex].count = semtab[rf_mutex].count - 1
      /\ OnQueue(u, rf_mutex) \subseteq OnQueue(semtab, rf_mutex) \cup {p}
  <2>1. /\ SemTable(u) /\ OnlyChanges(semtab, u, rf_mutex)
        /\ u[rf_mutex].used /\ u[rf_mutex].count = semtab[rf_mutex].count - 1
        /\ OnQueue(u, rf_mutex)
             = IF semtab[rf_mutex].count <= 0 THEN OnQueue(semtab, rf_mutex) \cup {p} ELSE {}
    BY <1>1, <1>2, WaitTable
  <2> HIDE DEF u
  <2> QED BY <2>1
<1> HIDE DEF u
<1>4. c \in RfsCalls /\ c # Idle
  <2>1. c \in RfsCalls
    BY DEF RfsCalls
  <2> QED BY <2>1, RfsCallKinds
<1>5. CallsTyped'
  BY <1>1, <1>2, <1>3, <1>4 DEF CallsTyped, RfsContext, RfsTypes
<1>6. Active' = Active \cup {p} /\ p \notin Active
  BY <1>1, <1>2, <1>4 DEF Active
<1>7. Cardinality(Active') = Cardinality(Active) + 1
  BY <1>6, OneInside, FS_AddElement DEF RfsContext
<1>8. \A s \in SemIds : s # rf_mutex => OnQueue(u, s) = {}
  BY <1>3 DEF RfsContext, MutexInv, OnlyChanges, OnQueue
<1>9. OnQueue(u, rf_mutex) \subseteq {q \in RfsProcs : call'[q] \in BegunCalls}
  BY <1>1, <1>2, <1>3 DEF RfsContext, MutexInv
<1>10. u[rf_mutex].count = 1 - Cardinality(Active') - rfabandoned
  <2>1. Cardinality(Active) \in Nat /\ rfabandoned \in Nat
    BY OneInside DEF RfsContext, RfsTypes
  <2> QED BY <1>3, <1>7, <2>1 DEF RfsContext, MutexInv
<1>11. \A q \in Procs \ RfsProcs : call'[q] = Idle
  BY <1>1, <1>2 DEF RfsContext, MutexInv
<1> QED BY <1>2, <1>3, <1>5, <1>8, <1>9, <1>10, <1>11 DEF MutexInv

\* A call returns, and gives the mutex back.
LEMMA ReturnMutex ==
  ASSUME RfsContext, NEW p \in RfsProcs, ~Waiting(p), call[p] # Idle, rfs_return(p)
  PROVE  CallsTyped' /\ MutexInv'
<1> DEFINE u == signal(semtab, rf_mutex)
<1>1. /\ p \in Procs /\ rf_mutex \in SemIds /\ SemTable(semtab) /\ semtab[rf_mutex].used
      /\ call \in [Procs -> RfsCalls]
      /\ p \in Active /\ p \notin OnQueue(semtab, rf_mutex)
  BY RfAssumption, InsideFacts DEF RfsContext, RfsTypes, MutexInv
<1>2. semtab' = u /\ call' = [call EXCEPT ![p] = Idle] /\ rfabandoned' = rfabandoned
  BY DEF rfs_return, Return
<1>3. /\ SemTable(u) /\ OnlyChanges(semtab, u, rf_mutex)
      /\ u[rf_mutex].used /\ u[rf_mutex].count = semtab[rf_mutex].count + 1
      /\ OnQueue(u, rf_mutex) \subseteq OnQueue(semtab, rf_mutex)
  BY <1>1, SignalTable
<1> HIDE DEF u
<1>4. Idle \in RfsCalls
  BY DEF RfsCalls
<1>5. CallsTyped'
  BY <1>1, <1>2, <1>3, <1>4 DEF CallsTyped, RfsContext, RfsTypes
<1>6. Active' = Active \ {p}
  BY <1>1, <1>2 DEF Active
<1>7. Cardinality(Active') = Cardinality(Active) - 1
  BY <1>1, <1>6, OneInside, FS_RemoveElement DEF RfsContext
<1>8. \A s \in SemIds : s # rf_mutex => OnQueue(u, s) = {}
  BY <1>3 DEF RfsContext, MutexInv, OnlyChanges, OnQueue
<1>9. OnQueue(u, rf_mutex) \subseteq {q \in RfsProcs : call'[q] \in BegunCalls}
  BY <1>1, <1>2, <1>3 DEF RfsContext, MutexInv
<1>10. u[rf_mutex].count = 1 - Cardinality(Active') - rfabandoned
  <2>1. Cardinality(Active) \in Nat /\ rfabandoned \in Nat
    BY OneInside DEF RfsContext, RfsTypes
  <2> QED BY <1>3, <1>7, <2>1 DEF RfsContext, MutexInv
<1>11. \A q \in Procs \ RfsProcs : call'[q] = Idle
  BY <1>1, <1>2 DEF RfsContext, MutexInv
<1> QED BY <1>2, <1>3, <1>5, <1>8, <1>9, <1>10, <1>11 DEF MutexInv

\* A call goes on, and keeps the mutex.
LEMMA MoveMutex ==
  ASSUME RfsContext, NEW p \in RfsProcs, ~Waiting(p), call[p] # Idle,
         NEW c \in Exchanges, call' = [call EXCEPT ![p] = c],
         semtab' = semtab, rfabandoned' = rfabandoned
  PROVE  CallsTyped' /\ MutexInv'
<1>1. p \in Procs /\ p \in Active /\ p \notin OnQueue(semtab, rf_mutex)
      /\ call \in [Procs -> RfsCalls]
  BY InsideFacts DEF RfsContext, RfsTypes
<1>2. c \in RfsCalls /\ c # Idle
  <2>1. c \in RfsCalls
    BY DEF RfsCalls
  <2> QED BY <2>1, RfsCallKinds, Zenon DEF Exchanges
<1>3. CallsTyped'
  BY <1>1, <1>2 DEF CallsTyped, RfsContext, RfsTypes
<1>4. Active' = Active
  BY <1>1, <1>2 DEF Active
<1>5. OnQueue(semtab, rf_mutex) \subseteq {q \in RfsProcs : call'[q] \in BegunCalls}
  BY <1>1 DEF RfsContext, MutexInv
<1>6. \A q \in Procs \ RfsProcs : call'[q] = Idle
  BY <1>1 DEF RfsContext, MutexInv
<1> QED BY <1>3, <1>4, <1>5, <1>6 DEF RfsContext, MutexInv

\* A process is killed: a place in the queue goes to nobody, or the mutex is lost.
LEMMA KillMutex ==
  ASSUME RfsContext, NEW p \in RfsProcs, rfs_kill(p)
  PROVE  CallsTyped' /\ MutexInv'
<1> DEFINE u == withdraw(semtab, p)
<1>1. /\ p \in Procs /\ rf_mutex \in SemIds /\ SemTable(semtab) /\ semtab[rf_mutex].used
      /\ call \in [Procs -> RfsCalls] /\ rfabandoned \in Nat
  BY RfAssumption DEF RfsContext, RfsTypes, MutexInv
<1>2. /\ call[p] # Idle /\ semtab' = u /\ call' = [call EXCEPT ![p] = Idle]
      /\ rfabandoned' = rfabandoned + (IF Waiting(p) THEN 0 ELSE 1)
  BY DEF rfs_kill, killcaller, Return
<1>3. /\ SemTable(u)
      /\ \A s \in SemIds :
           /\ u[s].used = semtab[s].used
           /\ OnQueue(u, s) = OnQueue(semtab, s) \ {p}
           /\ u[s].count = IF p \in OnQueue(semtab, s) THEN semtab[s].count + 1
                           ELSE semtab[s].count
  BY <1>1, WithdrawTable
<1> HIDE DEF u
<1>4. Idle \in RfsCalls
  BY DEF RfsCalls
<1>5. CallsTyped'
  BY <1>1, <1>2, <1>3, <1>4 DEF CallsTyped
<1>6. Active' = Active \ {p} /\ p \in Active
  BY <1>1, <1>2 DEF Active
<1>7. Cardinality(Active') = Cardinality(Active) - 1
  BY <1>6, OneInside, FS_RemoveElement DEF RfsContext
<1>8. u[rf_mutex].count = 1 - Cardinality(Active') - rfabandoned'
  <2>1. Cardinality(Active) \in Nat /\ (Waiting(p) <=> p \in OnQueue(semtab, rf_mutex))
    BY <1>1, OneInside DEF RfsContext
  <2>2. semtab[rf_mutex].count = 1 - Cardinality(Active) - rfabandoned
    BY DEF RfsContext, MutexInv
  <2>3. u[rf_mutex].count = semtab[rf_mutex].count + (IF Waiting(p) THEN 1 ELSE 0)
    BY <1>1, <1>3, <2>1, <2>2
  <2> QED BY <1>1, <1>2, <1>7, <2>1, <2>2, <2>3
<1>9. OnQueue(u, rf_mutex) \subseteq {q \in RfsProcs : call'[q] \in BegunCalls}
  BY <1>1, <1>2, <1>3 DEF RfsContext, MutexInv
<1>10. \A s \in SemIds : s # rf_mutex => OnQueue(u, s) = {}
  BY <1>3 DEF RfsContext, MutexInv
<1>11. u[rf_mutex].used /\ \A q \in Procs \ RfsProcs : call'[q] = Idle
  BY <1>1, <1>2, <1>3 DEF RfsContext, MutexInv
<1> QED BY <1>2, <1>5, <1>8, <1>9, <1>10, <1>11 DEF MutexInv

-----------------------------------------------------------------------------
(* The server                                                              *)

LEMMA ContentsFacts ==
  /\ \A c \in Contents : c \notin {NoFile, Dir} <=> c \in Seq(FileBytes)
  /\ NoFile # Dir /\ NoFile \in Contents /\ Dir \in Contents
  /\ <<>> \in Seq(FileBytes) /\ \A c \in Seq(FileBytes) : c \in Contents
<1>1. NoFile \notin Seq(FileBytes)
  <2> SUFFICES ASSUME NoFile \in Seq(FileBytes) PROVE FALSE
    OBVIOUS
  <2>1. NoFile[1] \in FileBytes /\ NoFile[1] = "nothing"
    BY DEF NoFile
  <2> QED BY <2>1, RfAssumption DEF FileBytes, Gap
<1>2. Dir \notin Seq(FileBytes)
  <2> SUFFICES ASSUME Dir \in Seq(FileBytes) PROVE FALSE
    OBVIOUS
  <2>1. Dir[1] \in FileBytes /\ Dir[1] = "directory"
    BY DEF Dir
  <2> QED BY <2>1, RfAssumption DEF FileBytes, Gap
<1>3. NoFile # Dir
  <2>1. NoFile[1] = "nothing" /\ Dir[1] = "directory"
    BY DEF NoFile, Dir
  <2> QED BY <2>1
<1>4. <<>> \in Seq(FileBytes)
  BY EmptySeq
<1> QED BY <1>1, <1>2, <1>3, <1>4 DEF Contents

\* The bytes that are written are there afterwards.
LEMMA PatchedHolds ==
  ASSUME NEW file \in Seq(FileBytes), NEW data \in Seq(RfBytes), NEW pos \in Nat
  PROVE  /\ patched(file, pos, data) \in Seq(FileBytes)
         /\ SubSeq(patched(file, pos, data), pos + 1, pos + Len(data)) = data
<1> DEFINE n == Max({Len(file), pos + Len(data)})
           byte(i) == IF i \in (pos + 1)..(pos + Len(data)) THEN data[i - pos]
                      ELSE IF i <= Len(file) THEN file[i] ELSE Gap
           q == patched(file, pos, data)
           s == SubSeq(q, pos + 1, pos + Len(data))
<1>1. /\ Len(file) \in Nat /\ Len(data) \in Nat
      /\ \A i \in 1..Len(file) : file[i] \in FileBytes
      /\ \A i \in 1..Len(data) : data[i] \in RfBytes
  BY LenProperties
<1>2. n \in Nat /\ n >= Len(file) /\ n >= pos + Len(data)
  <2> DEFINE a == Len(file)
             b == pos + Len(data)
  <2>1. a \in Nat /\ b \in Nat
    BY <1>1
  <2> HIDE DEF a, b
  <2>2. \E x \in {a, b} : \A y \in {a, b} : x >= y
    BY <2>1
  <2>3. Max({a, b}) \in {a, b} /\ \A y \in {a, b} : Max({a, b}) >= y
    BY <2>2 DEF Max
  <2> QED BY <2>1, <2>3 DEF a, b
<1>3. q = [i \in 1..n |-> byte(i)]
  BY DEF patched
<1> HIDE DEF n
<1>4. \A i \in 1..n : byte(i) \in FileBytes
  BY <1>1, <1>2 DEF FileBytes
<1>5. q \in Seq(FileBytes) /\ Len(q) = n /\ \A i \in 1..n : q[i] = byte(i)
  BY <1>2, <1>3, <1>4
<1> HIDE DEF q
<1>6. /\ s \in Seq(FileBytes) /\ Len(s) = Len(data)
      /\ \A i \in 1..Len(data) : s[i] = q[pos + i]
  <2> DEFINE j == pos + 1
             k == pos + Len(data)
  <2>1. j \in Int /\ k \in Int /\ \A i \in j..k : q[i] \in FileBytes
    BY <1>1, <1>2, <1>5
  <2>2. s = SubSeq(q, j, k)
    OBVIOUS
  <2>3. k - j + 1 = Len(data) /\ (j <= k \/ Len(data) = 0) /\ \A i \in Int : j + i - 1 = pos + i
    BY <1>1
  <2> HIDE DEF j, k, s
  <2>4. /\ s \in Seq(FileBytes) /\ Len(s) = (IF j <= k THEN k - j + 1 ELSE 0)
        /\ \A i \in 1..(k - j + 1) : s[i] = q[j + i - 1]
    BY <2>1, <2>2, SubSeqProperties
  <2>5. Len(s) = Len(data)
    BY <1>1, <2>1, <2>3, <2>4
  <2>6. ASSUME NEW i \in 1..Len(data) PROVE s[i] = q[pos + i]
    <3>1. i \in 1..(k - j + 1) /\ j + i - 1 = pos + i
      BY <1>1, <2>3
    <3> QED BY <2>4, <3>1
  <2> QED BY <2>4, <2>5, <2>6
<1>7. \A i \in 1..Len(data) : s[i] = data[i]
  BY <1>1, <1>2, <1>5, <1>6
<1>8. s = data
  <2> HIDE DEF s
  <2>1. data \in Seq(FileBytes)
    BY DEF FileBytes
  <2> QED BY <1>6, <1>7, <2>1, SeqEqual
<1> QED BY <1>5, <1>8 DEF q

\* A request is refused, or done.
Refuses(m) == rfserver' = rfserver /\ rfreplies' = rfreplies \cup {Refused(m)}
Does(m, now, data, len) ==
  /\ rfserver' = [rfserver EXCEPT ![m.name] = now]
  /\ rfreplies' = rfreplies \cup {Done(m, data, len)}

\* The answers to m of before are still true when m is done again, and so is the new one.
StillTold(m) ==
  /\ rfserver' \in [Names -> Contents] /\ rfreplies' \subseteq Answers
  /\ \A r \in rfreplies' :
       \/ r \in rfreplies /\ (Told(m, r) => Told(m, r)')
       \/ /\ r.seq = m.seq /\ r.type = m.type /\ Told(m, r)'
          /\ r.status # 0 => rfserver' = rfserver

LEMMA RefusesTold ==
  ASSUME rfserver \in [Names -> Contents], rfreplies \subseteq Answers, NEW m \in Sent,
         Refuses(m), m.type = "size" => ~IsFile(m.name)
  PROVE  StillTold(m)
<1> DEFINE a == Refused(m)
<1>1. rfserver' = rfserver /\ rfreplies' = rfreplies \cup {a}
  BY DEF Refuses
<1>2. a \in Answers /\ a.seq = m.seq /\ a.type = m.type /\ a.status = 1
  BY ContentsFacts DEF Sent, Msgs, Refused, Answers
<1> HIDE DEF a
<1>3. \A r : Told(m, r) => Told(m, r)'
  BY <1>1 DEF Told, IsFile
<1>4. Told(m, a)'
  BY <1>1, <1>2 DEF Told, IsFile
<1> QED BY <1>1, <1>2, <1>3, <1>4 DEF StillTold

\* It suffices that a request that is done makes its answer true and keeps the others true.
LEMMA DoesTold ==
  ASSUME rfserver \in [Names -> Contents], rfreplies \subseteq Answers, NEW m \in Sent,
         NEW now \in Contents, NEW data \in Seq(FileBytes), NEW len \in Nat,
         Does(m, now, data, len)
  PROVE  /\ rfserver'[m.name] = now
         /\ IsFile(m.name)' <=> now \in Seq(FileBytes)
         /\ /\ \A r : Told(m, r) => Told(m, r)'
            /\ \A r : r.status = 0 /\ r.data = data /\ r.len = len => Told(m, r)'
            => StillTold(m)
<1> DEFINE a == Done(m, data, len)
<1>1. rfserver' = [rfserver EXCEPT ![m.name] = now] /\ rfreplies' = rfreplies \cup {a}
  BY DEF Does
<1>2. /\ a \in Answers /\ a.seq = m.seq /\ a.type = m.type
      /\ a.status = 0 /\ a.data = data /\ a.len = len
  BY DEF Sent, Msgs, Done, Refused, Answers
<1> HIDE DEF a
<1>3. m.name \in Names
  BY DEF Sent, Msgs
<1>4. rfserver' \in [Names -> Contents] /\ rfserver'[m.name] = now
  BY <1>1, <1>3
<1>5. IsFile(m.name)' <=> now \in Seq(FileBytes)
  BY <1>4, ContentsFacts DEF IsFile
<1> QED BY <1>1, <1>2, <1>4, <1>5 DEF StillTold

LEMMA ReadTold ==
  ASSUME NEW here \in Seq(FileBytes), NEW pos \in Nat, NEW n \in Nat
  PROVE  LET read == SubSeq(here, pos + 1, Min({Len(here), pos + n}))
         IN  /\ read \in Seq(FileBytes) /\ Len(read) \in Nat /\ Len(read) <= n
             /\ read = SubSeq(here, pos + 1, pos + Len(read))
<1> DEFINE a == Len(here)
           b == pos + n
           k == Min({a, b})
           j == pos + 1
           read == SubSeq(here, j, k)
<1>1. a \in Nat /\ b \in Nat /\ j \in Nat /\ \A i \in 1..a : here[i] \in FileBytes
  BY LenProperties
<1>2. k \in {a, b} /\ k <= a /\ k <= b
  <2> HIDE DEF a, b
  <2>1. \E x \in {a, b} : \A y \in {a, b} : x <= y
    BY <1>1
  <2> QED BY <2>1 DEF Min
<1> HIDE DEF a, k
<1>3. k \in Int /\ j \in Int /\ \A i \in j..k : here[i] \in FileBytes
  BY <1>1, <1>2
<1> HIDE DEF j
<1>4. read \in Seq(FileBytes) /\ Len(read) = IF j <= k THEN k - j + 1 ELSE 0
  BY <1>3, SubSeqProperties
<1>5. CASE j <= k
  <2>1. Len(read) = k - pos
    BY <1>3, <1>4, <1>5 DEF j
  <2>2. pos + Len(read) = k
    BY <1>3, <2>1
  <2>3. Len(read) \in Nat /\ Len(read) <= n
    BY <1>2, <1>3, <1>5, <2>1 DEF j
  <2> QED BY <1>4, <2>2, <2>3 DEF a, k, j
<1>6. CASE ~(j <= k)
  <2>1. Len(read) = 0
    BY <1>4, <1>6
  <2>2. read = <<>>
    BY <1>4, <2>1, EmptySeq
  <2>3. SubSeq(here, j, pos + Len(read)) = <<>>
    <3> DEFINE e == pos + 0
    <3>1. e \in Int /\ e < j
      BY DEF j
    <3> HIDE DEF e
    <3>2. SubSeq(here, j, e) = <<>>
      BY <1>3, <3>1, SubSeqEmpty
    <3> QED BY <2>1, <3>2 DEF e
  <2> HIDE DEF read
  <2>4. /\ read \in Seq(FileBytes) /\ Len(read) \in Nat /\ Len(read) <= n
        /\ read = SubSeq(here, j, pos + Len(read))
    <3>1. read \in Seq(FileBytes)
      BY <1>4
    <3>2. Len(read) \in Nat /\ Len(read) <= n
      BY <2>1
    <3>3. read = SubSeq(here, j, pos + Len(read))
      BY <2>2, <2>3, Zenon
    <3> QED BY <3>1, <3>2, <3>3, Zenon
  <2> QED BY <2>4 DEF read, a, k, j
<1> QED BY <1>5, <1>6

\* Whatever the server does for a request, it leaves the answers to it true.
LEMMA ExecuteTold ==
  ASSUME rfserver \in [Names -> Contents], rfreplies \subseteq Answers, NEW m \in Sent,
         execute(m)
  PROVE  StillTold(m)
<1> DEFINE here == rfserver[m.name]
           file == IF IsFile(m.name) THEN here ELSE <<>>
           read == SubSeq(file, m.pos + 1, Min({Len(file), m.pos + m.len}))
<1>1. /\ m.type \in Types /\ m.name \in Names /\ m.pos \in Nat /\ m.len \in Nat
      /\ m.data \in Seq(RfBytes)
  BY DEF Sent, Msgs
<1>2. here \in Contents
  BY <1>1
<1>3. IsFile(m.name) <=> here \in Seq(FileBytes)
  BY <1>2, ContentsFacts DEF IsFile
<1>4. file \in Seq(FileBytes) /\ Len(file) \in Nat /\ file \in Contents
  <2>1. file \in Seq(FileBytes)
    BY <1>3, ContentsFacts
  <2> HIDE DEF file
  <2> QED BY <2>1, LenProperties, ContentsFacts
<1>5. 0 \in Nat /\ <<>> \in Seq(FileBytes) /\ <<>> \in Contents
  BY ContentsFacts
<1>6. SUFFICES ASSUME ~(Refuses(m) /\ (m.type = "size" => ~IsFile(m.name))) PROVE StillTold(m)
  BY RefusesTold
<1>7. CASE m.type = "open"
  <2>1. Does(m, file, <<>>, 0)
    BY <1>6, <1>7 DEF execute, serves, Does, Refuses
  <2> HIDE DEF file
  <2>2. /\ IsFile(m.name)'
        /\ (\A r : Told(m, r) => Told(m, r)') /\ (\A r : r.status = 0 => Told(m, r)')
             => StillTold(m)
    BY <1>4, <1>5, <2>1, DoesTold
  <2>3. \A r : Told(m, r)'
    BY <1>7, <2>2 DEF Told
  <2> QED BY <2>2, <2>3
<1>8. CASE m.type = "read"
  <2>1. Does(m, here, read, Len(read)) /\ IsFile(m.name)
    BY <1>6, <1>8 DEF execute, serves, Does, Refuses
  <2>2. /\ read \in Seq(FileBytes) /\ Len(read) \in Nat /\ Len(read) <= m.len
        /\ read = SubSeq(file, m.pos + 1, m.pos + Len(read))
    <3> DEFINE i == m.pos
               n == m.len
    <3>1. i \in Nat /\ n \in Nat /\ file \in Seq(FileBytes)
      BY <1>1, <1>4
    <3> HIDE DEF i, n, file
    <3>2. LET r == SubSeq(file, i + 1, Min({Len(file), i + n}))
          IN  /\ r \in Seq(FileBytes) /\ Len(r) \in Nat /\ Len(r) <= n
              /\ r = SubSeq(file, i + 1, i + Len(r))
      BY <3>1, ReadTold
    <3> QED BY <3>2 DEF i, n
  <2>3. file = here
    BY <2>1
  <2> HIDE DEF read, here, file
  <2>4. /\ rfserver'[m.name] = here /\ IsFile(m.name)'
        /\ (\A r : Told(m, r) => Told(m, r)')
             /\ (\A r : r.status = 0 /\ r.data = read /\ r.len = Len(read) => Told(m, r)')
             => StillTold(m)
    BY <1>2, <1>3, <2>1, <2>2, DoesTold
  <2>5. \A r : Told(m, r) => Told(m, r)'
    BY <1>8, <2>4 DEF Told, here
  <2>6. \A r : r.status = 0 /\ r.data = read /\ r.len = Len(read) => Told(m, r)'
    BY <1>8, <2>2, <2>3, <2>4 DEF Told
  <2> QED BY <2>4, <2>5, <2>6
<1>9. CASE m.type = "write"
  <2> DEFINE new == patched(file, m.pos, m.data)
  <2>1. Does(m, new, <<>>, m.len)
    BY <1>6, <1>9 DEF execute, serves, Does, Refuses
  <2>2. new \in Seq(FileBytes) /\ SubSeq(new, m.pos + 1, m.pos + Len(m.data)) = m.data
    <3> HIDE DEF file
    <3> QED BY <1>1, <1>4, PatchedHolds
  <2>3. m.len = Len(m.data)
    BY <1>9 DEF Sent
  <2> DEFINE n == m.len
  <2>4. new \in Seq(FileBytes) /\ new \in Contents /\ n \in Nat /\ Does(m, new, <<>>, n)
    BY <1>1, <2>1, <2>2, ContentsFacts
  <2> HIDE DEF new, n
  <2>5. /\ rfserver'[m.name] = new /\ IsFile(m.name)'
        /\ (\A r : Told(m, r) => Told(m, r)')
             /\ (\A r : r.status = 0 /\ r.len = n => Told(m, r)')
             => StillTold(m)
    BY <1>5, <2>4, DoesTold
  <2>6. \A r : Told(m, r) => Told(m, r)'
    BY <1>9, <2>2, <2>3, <2>5 DEF Told
  <2>7. \A r : r.status = 0 /\ r.len = n => Told(m, r)'
    BY <1>9, <2>2, <2>3, <2>5 DEF Told, n
  <2> QED BY <2>5, <2>6, <2>7
<1>10. CASE m.type = "size"
  <2>1. Does(m, here, <<>>, Len(file)) /\ IsFile(m.name)
    BY <1>6, <1>10 DEF execute, serves, Does, Refuses
  <2>2. file = here
    BY <2>1
  <2> DEFINE n == Len(file)
  <2>0. n \in Nat /\ Does(m, here, <<>>, n)
    BY <1>4, <2>1
  <2> HIDE DEF here, file, n
  <2>3. /\ rfserver'[m.name] = here /\ IsFile(m.name)'
        /\ (\A r : Told(m, r) => Told(m, r)')
             /\ (\A r : r.status = 0 /\ r.len = n => Told(m, r)')
             => StillTold(m)
    BY <1>2, <1>3, <1>5, <2>0, <2>1, DoesTold
  <2>4. \A r : Told(m, r) => Told(m, r)'
    <3>1. rfserver'[m.name] = rfserver[m.name] /\ IsFile(m.name) /\ IsFile(m.name)'
      BY <2>1, <2>3 DEF here
    <3> QED BY <1>10, <3>1 DEF Told
  <2>5. \A r : r.status = 0 /\ r.len = n => Told(m, r)'
    BY <1>10, <2>2, <2>3 DEF Told, n
  <2> QED BY <2>3, <2>4, <2>5
<1>11. CASE m.type = "truncate"
  <2>1. Does(m, <<>>, <<>>, 0)
    BY <1>6, <1>11 DEF execute, serves, Does, Refuses
  <2>2. /\ rfserver'[m.name] = <<>>
        /\ (\A r : Told(m, r) => Told(m, r)') /\ (\A r : r.status = 0 => Told(m, r)')
             => StillTold(m)
    BY <1>5, <2>1, DoesTold, ContentsFacts
  <2>3. \A r : Told(m, r)'
    BY <1>11, <2>2 DEF Told
  <2> QED BY <2>2, <2>3
<1>12. CASE m.type = "delete"
  <2>1. Does(m, NoFile, <<>>, 0)
    BY <1>6, <1>12 DEF execute, serves, Does, Refuses
  <2>2. /\ rfserver'[m.name] = NoFile
        /\ (\A r : Told(m, r) => Told(m, r)') /\ (\A r : r.status = 0 => Told(m, r)')
             => StillTold(m)
    BY <1>5, <2>1, DoesTold, ContentsFacts
  <2>3. \A r : Told(m, r)'
    BY <1>12, <2>2 DEF Told
  <2> QED BY <2>2, <2>3
<1>13. CASE m.type = "mkdir"
  <2>1. Does(m, Dir, <<>>, 0)
    BY <1>6, <1>13 DEF execute, serves, Does, Refuses
  <2>2. /\ rfserver'[m.name] = Dir
        /\ (\A r : Told(m, r) => Told(m, r)') /\ (\A r : r.status = 0 => Told(m, r)')
             => StillTold(m)
    BY <1>5, <2>1, DoesTold, ContentsFacts
  <2>3. \A r : Told(m, r)'
    BY <1>13, <2>2 DEF Told
  <2> QED BY <2>2, <2>3
<1>14. CASE m.type = "rmdir"
  <2>1. Does(m, NoFile, <<>>, 0)
    BY <1>6, <1>14 DEF execute, serves, Does, Refuses
  <2>2. /\ rfserver'[m.name] = NoFile
        /\ (\A r : Told(m, r) => Told(m, r)') /\ (\A r : r.status = 0 => Told(m, r)')
             => StillTold(m)
    BY <1>5, <2>1, DoesTold, ContentsFacts
  <2>3. \A r : Told(m, r)'
    BY <1>14, <2>2 DEF Told
  <2> QED BY <2>2, <2>3
<1> QED BY <1>1, <1>7, <1>8, <1>9, <1>10, <1>11, <1>12, <1>13, <1>14 DEF Types

-----------------------------------------------------------------------------
(* Steps and the answers                                                   *)

DataTyped ==
  /\ rf_seq \in Nat
  /\ rfltab \in [Rfl -> Pseudo]
  /\ rfserver \in [Names -> Contents]
  /\ rfrequests \subseteq Sent /\ rfreplies \subseteq Answers
  /\ latest \in Sent

\* What RfsInv says of the exchanges and of what they have led to.
AnswersInv == HistoryInv /\ OpensKeepTheirSlot

LEMMA RfsInvParts ==
  ASSUME RfsInv
  PROVE  CallsTyped /\ DataTyped /\ MutexInv /\ AnswersInv
BY DEF RfsInv, RfsTypes, CallsTyped, DataTyped, AnswersInv

LEMMA RfsInvNext ==
  ASSUME CallsTyped', DataTyped', MutexInv', AnswersInv'
  PROVE  RfsInv'
BY DEF RfsInv, RfsTypes, CallsTyped, DataTyped, AnswersInv

LEMMA RfsInvContext == ASSUME RfsInv PROVE RfsContext
BY CallAssumption DEF RfsInv, RfsContext

\* OpensKeepTheirSlot in terms of Exchanges.
SlotKept(c) ==
  c.msg.type = "open" =>
    LET f == rfltab[c.dev]
    IN  ~f.used /\ f.name = c.msg.name /\ f.mode = c.msg.mode

LEMMA OpensAreExchanges ==
  ASSUME call \in [Procs -> RfsCalls]
  PROVE  OpensKeepTheirSlot <=> \A p \in RfsProcs : call[p] \in Exchanges => SlotKept(call[p])
<1>1. \A p \in RfsProcs : call[p].op = "rfscomm" <=> call[p] \in Exchanges
  BY RfAssumption, RfsCallKinds
<1> QED BY <1>1 DEF OpensKeepTheirSlot, SlotKept

\* The entries are as before, and nobody begins to open a file; or nobody is in an exchange.
LEMMA SlotsStay ==
  ASSUME RfsInv, CallsTyped',
         \/ /\ rfltab' = rfltab
            /\ \A q \in Procs : call'[q] \in Exchanges =>
                 call[q] \in Exchanges /\ call'[q].msg = call[q].msg /\ call'[q].dev = call[q].dev
         \/ \A q \in Procs : call'[q] \notin Exchanges
  PROVE  OpensKeepTheirSlot'
<1>1. \A q \in RfsProcs : call[q] \in Exchanges => SlotKept(call[q])
  BY OpensAreExchanges DEF RfsInv, RfsTypes
<1>2. \A q \in RfsProcs : call'[q] \in Exchanges => SlotKept(call[q])'
  BY <1>1, RfAssumption DEF SlotKept
<1>3. \A q \in RfsProcs : call'[q].op = "rfscomm" <=> call'[q] \in Exchanges
  BY RfAssumption, RfsCallKinds DEF CallsTyped
<1> QED BY <1>2, <1>3 DEF OpensKeepTheirSlot, SlotKept

\* The server does nothing, and no exchange begins; a reply may be taken for the answer.
LEMMA HistoryStays ==
  ASSUME RfsInv, rf_seq' \in {rf_seq, rf_seq + 1},
         rfserver' = rfserver, rfreplies' = rfreplies, UNCHANGED historyVars,
         rfrequests' \subseteq rfrequests \cup {latest},
         answered' \in rfreplies => accepts(latest, answered'),
         answered' \in rfreplies \cup {NoAnswer, answered},
         \A q \in Procs : call'[q] \in Exchanges => call'[q].msg = latest
  PROVE  HistoryInv'
<1>0. /\ latest' = latest /\ before' = before /\ fate' = fate
      /\ HistoryInv /\ DataTyped
  BY RfsInvParts DEF historyVars, AnswersInv
<1>1. /\ rf_seq \in Nat /\ latest.seq \in Nat
      /\ \A m \in rfrequests : m.seq \in Nat
      /\ \A r \in rfreplies : r.seq \in Nat
  BY <1>0 DEF DataTyped, Sent, Msgs, Answers
<1>2. \A n \in Nat : n < rf_seq => n < rf_seq'
  BY <1>1
<1>3. latest'.seq < rf_seq'
  BY <1>0, <1>1, <1>2 DEF HistoryInv
<1>4. \A m \in rfrequests' : m.seq < rf_seq' /\ (m.seq = latest'.seq => m = latest')
  BY <1>0, <1>1, <1>2 DEF HistoryInv
<1>5. \A r \in rfreplies' : r.seq < rf_seq'
  BY <1>0, <1>1, <1>2 DEF HistoryInv
<1>6. ASSUME NEW r \in rfreplies' PROVE Truthful(r)'
  <2>1. Truthful(r)
    BY <1>0 DEF HistoryInv
  <2> QED BY <1>0, <2>1 DEF Truthful, Told, IsFile
<1>7. fate' = "sent" => /\ \A r \in rfreplies' : r.seq # latest'.seq
                        /\ rfserver'[latest'.name] = before'
  BY <1>0 DEF HistoryInv
<1>8. answered' # NoAnswer => answered' \in rfreplies' /\ accepts(latest', answered')
  BY <1>0 DEF HistoryInv
<1> QED BY <1>0, <1>3, <1>4, <1>5, <1>6, <1>7, <1>8 DEF HistoryInv

\* Nobody begins an exchange, and the server does nothing.
LEMMA QuietStep ==
  ASSUME RfsInv, CallsTyped',
         \A q \in Procs : call'[q] \in Exchanges => call'[q] = call[q],
         rfltab' = rfltab \/ \A q \in Procs : call'[q] \notin Exchanges,
         rf_seq' = rf_seq, rfserver' = rfserver, rfreplies' = rfreplies,
         rfrequests' = rfrequests, answered' = answered, UNCHANGED historyVars
  PROVE  AnswersInv'
<1>1. HistoryInv
  BY RfsInvParts DEF AnswersInv
<1>2. \A q \in Procs : call'[q] \in Exchanges => call'[q].msg = latest
  BY <1>1 DEF HistoryInv
<1>3. answered' \in rfreplies => accepts(latest, answered')
  <2>1. \A r \in rfreplies : r # NoAnswer
    BY RfsInvParts DEF DataTyped, Answers, Types, NoAnswer
  <2> QED BY <1>1, <2>1 DEF HistoryInv
<1>4. HistoryInv'
  BY <1>2, <1>3, HistoryStays
<1>5. OpensKeepTheirSlot'
  BY SlotsStay
<1> QED BY <1>4, <1>5 DEF AnswersInv

\* A call ends, p being inside: there is no exchange any more.
LEMMA NoneLeft ==
  ASSUME RfsContext, NEW p \in RfsProcs, ~Waiting(p), call[p] # Idle, Return(p)
  PROVE  \A q \in Procs : call'[q] \notin Exchanges
<1>1. \A q \in Procs : q # p => call[q] \notin Exchanges
  BY InsideFacts
<1>2. call \in [Procs -> RfsCalls] /\ call' = [call EXCEPT ![p] = Idle] /\ p \in Procs
  BY RfAssumption DEF RfsContext, RfsTypes, Return
<1>3. Idle \notin Exchanges
  BY DEF Idle, Exchanges
<1> QED BY <1>1, <1>2, <1>3

LEMMA EndStep ==
  ASSUME RfsInv, NEW p \in RfsProcs, ~Waiting(p), call[p] # Idle,
         rfs_ends(p), rfltab' \in [Rfl -> Pseudo]
  PROVE  RfsInv'
<1>1. CallsTyped' /\ MutexInv'
  BY RfsInvContext, ReturnMutex DEF rfs_ends
<1>2. /\ rf_seq' = rf_seq /\ rfserver' = rfserver /\ rfreplies' = rfreplies
      /\ rfrequests' = rfrequests /\ answered' = answered /\ latest' = latest
      /\ UNCHANGED historyVars
  BY DEF rfs_ends, historyVars
<1>3. DataTyped'
  BY <1>2, RfsInvParts DEF DataTyped
<1>4. \A q \in Procs : call'[q] \notin Exchanges
  BY RfsInvContext, NoneLeft DEF rfs_ends, rfs_return
<1>5. AnswersInv'
  BY <1>1, <1>2, <1>4, QuietStep
<1> QED BY <1>1, <1>3, <1>5, RfsInvNext

\* An exchange is begun.
LEMMA CommStep ==
  ASSUME RfsInv, NEW p \in RfsProcs, ~Waiting(p), call[p] # Idle,
         NEW d \in Rfl, NEW msg \in Sent, rfscomm(p, d, msg), rfltab' \in [Rfl -> Pseudo],
         msg.type = "open" =>
           ~rfltab'[d].used /\ rfltab'[d].name = msg.name /\ rfltab'[d].mode = msg.mode
  PROVE  RfsInv'
<1>m. PICK m : m = [msg EXCEPT !.seq = rf_seq]
  OBVIOUS
<1> DEFINE c == [op |-> "rfscomm", dev |-> d, msg |-> m, tries |-> 1]
<1>0. RfsContext /\ DataTyped /\ HistoryInv /\ p \in Procs /\ call \in [Procs -> RfsCalls]
  BY RfsInvContext, RfsInvParts, RfAssumption DEF RfsContext, RfsTypes, AnswersInv
<1>1. CASE rfs_ends(p)
  BY <1>1, EndStep
<1>2. ASSUME rf_seq' = rf_seq + 1, rfs_return(p),
             UNCHANGED <<rfserver, rfreplies, rfrequests, historyVars, answered>>
      PROVE  RfsInv'
  <2>1. CallsTyped' /\ MutexInv'
    BY <1>0, <1>2, ReturnMutex
  <2>2. DataTyped'
    BY <1>0, <1>2 DEF DataTyped, historyVars
  <2>3. \A q \in Procs : call'[q] \notin Exchanges
    BY <1>0, <1>2, NoneLeft DEF rfs_return
  <2>4. answered' \in rfreplies => accepts(latest, answered')
    <3>1. \A r \in rfreplies : r # NoAnswer
      BY <1>0 DEF DataTyped, Answers, Types, NoAnswer
    <3> QED BY <1>0, <1>2, <3>1 DEF HistoryInv
  <2>5. HistoryInv'
    BY <1>2, <2>3, <2>4, HistoryStays
  <2>6. OpensKeepTheirSlot'
    BY <2>1, <2>3, SlotsStay
  <2> QED BY <2>1, <2>2, <2>5, <2>6, RfsInvNext DEF AnswersInv
<1>3. ASSUME rf_seq' = rf_seq + 1, rfrequests' = rfrequests \cup {m},
             latest' = m, before' = rfserver[m.name], fate' = "sent", answered' = NoAnswer,
             call' = [call EXCEPT ![p] = c],
             UNCHANGED <<semtab, masked, panicked, kills, rfabandoned>>,
             UNCHANGED <<rfserver, rfreplies>>
      PROVE  RfsInv'
  <2>1. /\ m \in Sent /\ m.seq = rf_seq /\ m.name \in Names
        /\ m.type = msg.type /\ m.name = msg.name /\ m.mode = msg.mode
    BY <1>0, <1>m DEF DataTyped, Sent, Msgs
  <2>2. c \in Exchanges /\ c.msg = m /\ c.dev = d
    BY <2>1 DEF Exchanges
  <2> HIDE DEF c
  <2>3. CallsTyped' /\ MutexInv'
    BY <1>0, <1>3, <2>2, MoveMutex
  <2>4. DataTyped'
    BY <1>0, <1>3, <2>1 DEF DataTyped
  <2>5. \A q \in Procs : call'[q] \in Exchanges => q = p
    <3>1. \A q \in Procs : q # p => call[q] \notin Exchanges
      BY <1>0, InsideFacts
    <3> QED BY <1>0, <1>3, <3>1
  <2>6. call'[p] = c
    BY <1>0, <1>3
  <2>7. HistoryInv'
    <3>n. PICK n \in Nat : n = rf_seq
      BY <1>0 DEF DataTyped
    <3>1. /\ \A a \in rfrequests : a.seq \in Nat /\ a.seq < n
          /\ \A r \in rfreplies : r.seq \in Nat /\ r.seq < n
      BY <1>0, <3>n DEF DataTyped, HistoryInv, Sent, Msgs, Answers
    <3>2. m.seq = n /\ rf_seq' = n + 1
      BY <1>3, <2>1, <3>n
    <3>3. \A a \in rfrequests' : a.seq < n + 1 /\ (a.seq = m.seq => a = m)
      BY <1>3, <3>1, <3>2
    <3>4. \A r \in rfreplies' : r.seq < n + 1 /\ r.seq # m.seq
      BY <1>3, <3>1, <3>2
    <3>5. \A r \in rfreplies' : Truthful(r)'
      <4>1. \A r \in rfreplies' : ~accepts(m, r)
        BY <3>4 DEF accepts
      <4> QED BY <1>3, <4>1 DEF Truthful
    <3>6. \A q \in Procs : call'[q] \in Exchanges => call'[q].msg = m
      BY <2>2, <2>5, <2>6
    <3> QED BY <1>3, <3>2, <3>3, <3>4, <3>5, <3>6 DEF HistoryInv
  <2>8. OpensKeepTheirSlot'
    <3>1. \A q \in RfsProcs : call'[q].op = "rfscomm" => q = p
      BY <2>3, <2>5, RfAssumption, RfsCallKinds DEF CallsTyped
    <3> QED BY <2>1, <2>2, <2>6, <3>1 DEF OpensKeepTheirSlot
  <2> QED BY <2>3, <2>4, <2>7, <2>8, RfsInvNext DEF AnswersInv
<1> QED BY <1>1, <1>2, <1>3, <1>m DEF rfscomm

\* p is in an exchange, which is the latest.
LEMMA ExchangeFacts ==
  ASSUME RfsInv, NEW p \in RfsProcs, Resumes(p, "rfscomm")
  PROVE  /\ RfsContext /\ DataTyped /\ HistoryInv /\ CallsTyped
         /\ p \in Procs /\ call \in [Procs -> RfsCalls]
         /\ ~Waiting(p) /\ call[p] \in Exchanges /\ call[p] # Idle
         /\ call[p].msg = latest /\ call[p].dev \in Rfl
<1>1. /\ RfsContext /\ DataTyped /\ HistoryInv /\ CallsTyped
      /\ p \in Procs /\ call \in [Procs -> RfsCalls]
  BY RfsInvContext, RfsInvParts, RfAssumption DEF CallsTyped, AnswersInv
<1>2. ~Waiting(p) /\ call[p] \in Exchanges /\ call[p] # Idle
  BY <1>1, RfsCallKinds DEF Resumes, Runs
<1>3. call[p].msg = latest
  BY <1>1, <1>2 DEF HistoryInv
<1>4. call[p].dev \in Rfl
  BY <1>2 DEF Exchanges
<1> QED BY <1>1, <1>2, <1>3, <1>4

\* A request is sent again, or the call fails.
LEMMA RetryStep ==
  ASSUME RfsInv, NEW p \in RfsProcs, Resumes(p, "rfscomm"), rfs_again(p)
  PROVE  RfsInv'
<1>c. PICK c : c = call[p]
  OBVIOUS
<1>0. /\ RfsContext /\ DataTyped /\ HistoryInv /\ CallsTyped
      /\ p \in Procs /\ call \in [Procs -> RfsCalls]
      /\ ~Waiting(p) /\ c \in Exchanges /\ call[p] # Idle
      /\ c.msg = latest /\ c.dev \in Rfl
  BY <1>c, ExchangeFacts
<1>1. /\ rf_seq' = rf_seq /\ rfserver' = rfserver /\ rfreplies' = rfreplies
      /\ rfltab' = rfltab /\ answered' = answered /\ latest' = latest
      /\ UNCHANGED historyVars
  BY DEF rfs_again, historyVars
<1>2. CASE rfs_return(p) /\ UNCHANGED rfrequests
  <2>1. CallsTyped' /\ MutexInv'
    BY <1>0, <1>2, ReturnMutex
  <2>2. DataTyped'
    BY <1>0, <1>1, <1>2 DEF DataTyped
  <2>3. \A q \in Procs : call'[q] \notin Exchanges
    BY <1>0, <1>2, NoneLeft DEF rfs_return
  <2>4. AnswersInv'
    BY <1>1, <1>2, <2>1, <2>3, QuietStep
  <2> QED BY <2>1, <2>2, <2>4, RfsInvNext
<1>3. ASSUME rfrequests' = rfrequests \cup {c.msg}, call' = [call EXCEPT ![p].tries = @ + 1],
             UNCHANGED <<semtab, masked, panicked, kills, rfabandoned>>
      PROVE  RfsInv'
  <2>d. PICK d : d = [c EXCEPT !.tries = @ + 1]
    OBVIOUS
  <2>1. d \in Exchanges /\ d.msg = c.msg /\ d.dev = c.dev
    BY <1>0, <2>d DEF Exchanges
  <2>2. call' = [call EXCEPT ![p] = d]
    BY <1>0, <1>c, <1>3, <2>d
  <2>3. CallsTyped' /\ MutexInv'
    BY <1>0, <1>3, <2>1, <2>2, MoveMutex
  <2>4. DataTyped'
    BY <1>0, <1>1, <1>3 DEF DataTyped
  <2>5. \A q \in Procs : q # p => call[q] \notin Exchanges
    BY <1>0, InsideFacts
  <2>6. call'[p] = d /\ \A q \in Procs : call'[q] \in Exchanges => q = p
    BY <1>0, <2>2, <2>5
  <2>7. answered' \in rfreplies => accepts(latest, answered')
    <3>1. \A r \in rfreplies : r # NoAnswer
      BY <1>0 DEF DataTyped, Answers, Types, NoAnswer
    <3> QED BY <1>0, <1>1, <3>1 DEF HistoryInv
  <2>8. \A q \in Procs : call'[q] \in Exchanges => call'[q].msg = latest
    BY <1>0, <2>1, <2>6
  <2>9. HistoryInv'
    BY <1>0, <1>1, <1>3, <2>7, <2>8, HistoryStays
  <2>10. OpensKeepTheirSlot'
    <3>1. \A q \in Procs : call'[q] \in Exchanges =>
            call[q] \in Exchanges /\ call'[q].msg = call[q].msg /\ call'[q].dev = call[q].dev
      BY <1>0, <1>c, <2>1, <2>6
    <3> QED BY <1>1, <2>3, <3>1, SlotsStay
  <2> QED BY <2>3, <2>4, <2>9, <2>10, RfsInvNext DEF AnswersInv
<1> QED BY <1>2, <1>3, <1>c DEF rfs_again

\* udp_recv() fails.
LEMMA ErrorStep ==
  ASSUME RfsInv, NEW p \in RfsProcs, rfscomm_error(p)
  PROVE  RfsInv'
<1>1. DataTyped /\ ~Waiting(p) /\ call[p] # Idle
  BY ExchangeFacts DEF rfscomm_error
<1>2. rfltab' \in [Rfl -> Pseudo]
  BY <1>1 DEF rfscomm_error, DataTyped
<1> QED BY <1>1, <1>2, EndStep DEF rfscomm_error

LEMMA AdvancedTyped ==
  ASSUME NEW f \in Pseudo, NEW m, NEW r, r.len \in Nat
  PROVE  advanced(f, m, r) \in Pseudo
<1>1. [f EXCEPT !.used = TRUE, !.pos = 0] \in Pseudo
  BY DEF Pseudo
<1>2. [f EXCEPT !.pos = @ + r.len] \in Pseudo
  <2>1. f.pos + r.len \in Nat
    BY DEF Pseudo
  <2> QED BY <2>1 DEF Pseudo
<1> QED BY <1>1, <1>2 DEF advanced

\* The answer has come.
LEMMA ReplyStep ==
  ASSUME RfsInv, NEW p \in RfsProcs, rfscomm_reply(p)
  PROVE  RfsInv'
<1>c. PICK c : c = call[p]
  OBVIOUS
<1>0. /\ RfsContext /\ DataTyped /\ HistoryInv /\ CallsTyped
      /\ p \in Procs /\ call \in [Procs -> RfsCalls]
      /\ ~Waiting(p) /\ c \in Exchanges /\ call[p] # Idle
      /\ c.msg = latest /\ c.dev \in Rfl
  BY <1>c, ExchangeFacts DEF rfscomm_reply
<1>r. PICK r \in rfreplies :
        /\ accepts(c.msg, r)
        /\ rfltab' = [rfltab EXCEPT ![c.dev] = advanced(@, c.msg, r)]
        /\ answered' = r
  BY <1>c DEF rfscomm_reply
<1>1. /\ rfs_return(p)
      /\ rf_seq' = rf_seq /\ rfserver' = rfserver /\ rfreplies' = rfreplies
      /\ rfrequests' = rfrequests /\ latest' = latest /\ UNCHANGED historyVars
  BY DEF rfscomm_reply, historyVars
<1>2. CallsTyped' /\ MutexInv'
  BY <1>0, <1>1, ReturnMutex
<1>3. \A q \in Procs : call'[q] \notin Exchanges
  BY <1>0, <1>1, NoneLeft DEF rfs_return
<1>4. rfltab' \in [Rfl -> Pseudo]
  <2>1. rfltab[c.dev] \in Pseudo /\ r.len \in Nat
    BY <1>0, <1>r DEF DataTyped, Answers
  <2>2. advanced(rfltab[c.dev], c.msg, r) \in Pseudo
    BY <2>1, AdvancedTyped
  <2> QED BY <1>0, <1>r, <2>2 DEF DataTyped
<1>5. DataTyped'
  BY <1>0, <1>1, <1>4 DEF DataTyped
<1>6. HistoryInv'
  BY <1>0, <1>r, <1>1, <1>3, HistoryStays
<1>7. OpensKeepTheirSlot'
  BY <1>2, <1>3, SlotsStay
<1> QED BY <1>2, <1>5, <1>6, <1>7, RfsInvNext DEF AnswersInv

\* What the server does for m concerns one name, and it never takes a reply back.
LEMMA ServesOne ==
  ASSUME rfserver \in [Names -> Contents], NEW m \in Sent, execute(m)
  PROVE  /\ \A n \in Names : n # m.name => rfserver'[n] = rfserver[n]
         /\ rfreplies \subseteq rfreplies'
<1>1. ASSUME NEW can, NEW now, NEW data, NEW len, serves(m, can, now, data, len)
      PROVE  /\ \A n \in Names : n # m.name => rfserver'[n] = rfserver[n]
             /\ rfreplies \subseteq rfreplies'
  BY <1>1 DEF serves
<1>2. \E can, now, data, len : serves(m, can, now, data, len)
  BY Zenon DEF execute
<1> QED BY <1>1, <1>2

\* The server executes a request, new or old.
LEMMA ServerStep ==
  ASSUME RfsInv, rf_server
  PROVE  RfsInv'
<1>0. DataTyped /\ HistoryInv /\ CallsTyped /\ OpensKeepTheirSlot
  BY RfsInvParts DEF AnswersInv
<1>m. PICK m \in rfrequests : execute(m) /\ fate' = fate_after(m)
  BY DEF rf_server
<1>1. /\ call' = call /\ semtab' = semtab /\ rfabandoned' = rfabandoned
      /\ rf_seq' = rf_seq /\ rfltab' = rfltab /\ rfrequests' = rfrequests
      /\ latest' = latest /\ before' = before /\ answered' = answered
  BY DEF rf_server, callVars
<1>2. m \in Sent /\ latest \in Sent
  BY <1>0 DEF DataTyped
<1>3. StillTold(m)
  BY <1>0, <1>2, <1>m, ExecuteTold DEF DataTyped
<1>4. /\ \A n \in Names : n # m.name => rfserver'[n] = rfserver[n]
      /\ rfreplies \subseteq rfreplies'
  BY <1>0, <1>2, <1>m, ServesOne DEF DataTyped
<1>5. CallsTyped' /\ MutexInv' /\ OpensKeepTheirSlot'
  BY <1>0, <1>1 DEF CallsTyped, RfsInv, MutexInv, Active, OnQueue, OpensKeepTheirSlot
<1>6. DataTyped'
  BY <1>0, <1>1, <1>3 DEF DataTyped, StillTold
<1>7. /\ latest.seq < rf_seq
      /\ \A r \in rfreplies' : r.seq < rf_seq
  BY <1>0, <1>3 DEF HistoryInv, StillTold
<1>8. answered' # NoAnswer => answered' \in rfreplies' /\ accepts(latest', answered')
  BY <1>0, <1>1, <1>4 DEF HistoryInv
<1>9. /\ \A r \in rfreplies' : Truthful(r)'
      /\ fate' = "sent" => /\ \A r \in rfreplies' : r.seq # latest.seq
                           /\ rfserver'[latest.name] = before
  <2>1. CASE m = latest
    <3>1. /\ fate' # "sent"
          /\ fate' # "overtaken" => fate # "overtaken"
          /\ fate' = "done" => fate = "sent"
      BY <1>m, <2>1 DEF fate_after
    <3>2. ASSUME NEW r \in rfreplies', accepts(latest, r), fate' # "overtaken"
          PROVE  Told(latest, r)' /\ (r.status # 0 /\ fate' = "done" => rfserver'[latest.name] = before)
      <4>1. r \in rfreplies => Told(latest, r)
        BY <1>0, <3>1, <3>2 DEF HistoryInv, Truthful
      <4>2. Told(m, r)'
        BY <1>3, <2>1, <4>1 DEF StillTold
      <4>3. Told(latest, r)'
        BY <1>1, <2>1, <4>2 DEF Told
      <4>4. ASSUME r.status # 0, fate' = "done" PROVE rfserver'[latest.name] = before
        <5>1. fate = "sent"
          BY <3>1, <4>4
        <5>2. r \notin rfreplies /\ rfserver[latest.name] = before
          BY <1>0, <3>2, <5>1 DEF HistoryInv, accepts
        <5>3. rfserver' = rfserver
          BY <1>3, <4>4, <5>2 DEF StillTold
        <5> QED BY <5>2, <5>3
      <4> QED BY <4>3, <4>4
    <3> QED BY <1>1, <3>1, <3>2 DEF Truthful
  <2>2. CASE m # latest /\ m.name = latest.name
    <3>1. fate' = "overtaken"
      BY <1>m, <2>2 DEF fate_after
    <3> QED BY <3>1 DEF Truthful
  <2>3. CASE m.name # latest.name
    <3>1. fate' = fate
      BY <1>m, <2>3 DEF fate_after
    <3>2. latest.name \in Names /\ rfserver'[latest.name] = rfserver[latest.name]
      BY <1>2, <1>4, <2>3 DEF Sent, Msgs
    <3>3. m.seq # latest.seq
      BY <1>0, <1>m, <2>3 DEF HistoryInv
    <3>4. \A r \in rfreplies' : r.seq = latest.seq => r \in rfreplies
      BY <1>3, <3>3 DEF StillTold
    <3>5. ASSUME NEW r \in rfreplies' PROVE Truthful(r)'
      <4>1. accepts(latest, r) => Truthful(r)
        BY <1>0, <3>4 DEF HistoryInv, accepts
      <4>2. Told(latest, r) => Told(latest, r)'
        BY <1>1, <3>2 DEF Told, IsFile
      <4> QED BY <1>1, <3>1, <3>2, <4>1, <4>2 DEF Truthful
    <3>6. fate' = "sent" => /\ \A r \in rfreplies' : r.seq # latest.seq
                            /\ rfserver'[latest.name] = before
      BY <1>0, <3>1, <3>2, <3>4 DEF HistoryInv
    <3> QED BY <3>5, <3>6
  <2> QED BY <2>1, <2>2, <2>3
<1>10. HistoryInv'
  BY <1>0, <1>1, <1>7, <1>8, <1>9 DEF HistoryInv
<1> QED BY <1>5, <1>6, <1>10, RfsInvNext DEF AnswersInv

-----------------------------------------------------------------------------
(* The steps of calls                                                      *)

\* A call begins.
LEMMA BeginStep ==
  ASSUME RfsInv, NEW p \in RfsProcs, rfs_call(p)
  PROVE  RfsInv'
<1>1. PICK c \in BegunCalls : rfs_wait(p, c)
  <2>1. CASE \E n \in RfNames \cup {None, TooLong}, m \in RfModes :
               rfs_wait(p, [op |-> "rfs open", name |-> n, mode |-> m])
    <3>1. \A n \in RfNames \cup {None, TooLong}, m \in RfModes :
            [op |-> "rfs open", name |-> n, mode |-> m] \in BegunCalls
      BY DEF BegunCalls, OpenCalls
    <3> QED BY <2>1, <3>1
  <2>2. ASSUME NEW d \in Rfl,
               \E n \in 0..RF_DATALEN : rfs_wait(p, [op |-> "rfs read", dev |-> d, len |-> n])
        PROVE  \E c \in BegunCalls : rfs_wait(p, c)
    <3>1. \A n \in 0..RF_DATALEN : [op |-> "rfs read", dev |-> d, len |-> n] \in BegunCalls
      <4>1. 0..RF_DATALEN \subseteq Nat
        BY RfAssumption
      <4>2. \A n \in Nat : [op |-> "rfs read", dev |-> d, len |-> n] \in BegunCalls
        BY DEF BegunCalls, ReadCalls
      <4> QED BY <4>1, <4>2
    <3> QED BY <2>2, <3>1
  <2>3. ASSUME NEW d \in Rfl,
               \E b \in BoundedSeq(RfBytes, RF_DATALEN) :
                 rfs_wait(p, [op |-> "rfs write", dev |-> d, data |-> b])
        PROVE  \E c \in BegunCalls : rfs_wait(p, c)
    <3>1. \A b \in BoundedSeq(RfBytes, RF_DATALEN) : b \in Seq(RfBytes)
      <4>1. \A n \in 0..RF_DATALEN : \A b \in [1..n -> RfBytes] : b \in Seq(RfBytes)
        BY RfAssumption, SeqDef
      <4> QED BY <4>1 DEF BoundedSeq, SeqOf
    <3>2. \A b \in Seq(RfBytes) : [op |-> "rfs write", dev |-> d, data |-> b] \in BegunCalls
      BY DEF BegunCalls, WriteCalls
    <3> QED BY <2>3, <3>1, <3>2
  <2>4. ASSUME NEW d \in Rfl, rfs_wait(p, [op |-> "rfs close", dev |-> d])
        PROVE  \E c \in BegunCalls : rfs_wait(p, c)
    <3>1. [op |-> "rfs close", dev |-> d] \in BegunCalls
      BY DEF BegunCalls, CloseCalls
    <3> QED BY <2>4, <3>1
  <2>5. ASSUME NEW d \in Rfl,
               \E n \in 0..RfMaxSize : rfs_wait(p, [op |-> "rfs seek", dev |-> d, pos |-> n])
        PROVE  \E c \in BegunCalls : rfs_wait(p, c)
    <3>1. \A n \in 0..RfMaxSize : [op |-> "rfs seek", dev |-> d, pos |-> n] \in BegunCalls
      <4>1. 0..RfMaxSize \subseteq Nat
        BY RfAssumption
      <4>2. \A n \in Nat : [op |-> "rfs seek", dev |-> d, pos |-> n] \in BegunCalls
        BY DEF BegunCalls, SeekCalls
      <4> QED BY <4>1, <4>2
    <3> QED BY <2>5, <3>1
  <2>6. CASE \E n \in RfNames, f \in {"size", "truncate", "delete", "mkdir", "rmdir"} :
               rfs_wait(p, [op |-> "rfs control", func |-> f, name |-> n])
    <3>1. \A n \in RfNames, f \in {"size", "truncate", "delete", "mkdir", "rmdir"} :
            [op |-> "rfs control", func |-> f, name |-> n] \in BegunCalls
      BY DEF BegunCalls, ControlCalls
    <3> QED BY <2>6, <3>1
  <2> QED BY <2>1, <2>2, <2>3, <2>4, <2>5, <2>6 DEF rfs_call
<1>2. c \notin Exchanges
  <2>1. c \in RfsCalls
    BY DEF RfsCalls
  <2> QED BY <2>1, RfsCallKinds
<1>3. /\ call \in [Procs -> RfsCalls] /\ call' = [call EXCEPT ![p] = c] /\ p \in Procs
      /\ rf_seq' = rf_seq /\ rfltab' = rfltab /\ rfserver' = rfserver
      /\ rfrequests' = rfrequests /\ rfreplies' = rfreplies /\ answered' = answered
      /\ latest' = latest /\ UNCHANGED historyVars
  BY <1>1, RfAssumption DEF RfsInv, RfsTypes, rfs_wait, rfVars, historyVars
<1>4. CallsTyped' /\ MutexInv'
  BY <1>1, RfsInvContext, BeginMutex
<1>5. DataTyped'
  BY <1>3, RfsInvParts DEF DataTyped
<1>6. \A q \in Procs : call'[q] \in Exchanges => call'[q] = call[q]
  BY <1>2, <1>3
<1>7. AnswersInv'
  BY <1>3, <1>4, <1>6, QuietStep
<1> QED BY <1>4, <1>5, <1>7, RfsInvNext

\* A process is killed.
LEMMA KillStep ==
  ASSUME RfsInv, NEW p \in RfsProcs, rfs_kill(p)
  PROVE  RfsInv'
<1>1. /\ call \in [Procs -> RfsCalls] /\ call' = [call EXCEPT ![p] = Idle] /\ p \in Procs
      /\ rf_seq' = rf_seq /\ rfltab' = rfltab /\ rfserver' = rfserver
      /\ rfrequests' = rfrequests /\ rfreplies' = rfreplies /\ answered' = answered
      /\ latest' = latest /\ UNCHANGED historyVars
  BY RfAssumption DEF RfsInv, RfsTypes, rfs_kill, killcaller, Return, historyVars
<1>2. CallsTyped' /\ MutexInv'
  BY RfsInvContext, KillMutex
<1>3. DataTyped'
  BY <1>1, RfsInvParts DEF DataTyped
<1>4. \A q \in Procs : call'[q] \in Exchanges => call'[q] = call[q]
  <2>1. Idle \notin Exchanges
    BY DEF Idle, Exchanges
  <2> QED BY <1>1, <2>1
<1>5. AnswersInv'
  BY <1>1, <1>2, <1>4, QuietStep
<1> QED BY <1>2, <1>3, <1>5, RfsInvNext

\* Nothing changes.
LEMMA IdleStep ==
  ASSUME RfsInv, UNCHANGED <<callVars, rfVars>>
  PROVE  RfsInv'
<1>1. /\ call' = call /\ semtab' = semtab /\ rfabandoned' = rfabandoned
      /\ rf_seq' = rf_seq /\ rfltab' = rfltab /\ rfserver' = rfserver
      /\ rfrequests' = rfrequests /\ rfreplies' = rfreplies /\ answered' = answered
      /\ latest' = latest /\ UNCHANGED historyVars
  BY DEF callVars, rfVars, historyVars
<1>2. CallsTyped'
  BY <1>1, RfsInvParts DEF CallsTyped
<1>3. DataTyped'
  BY <1>1, RfsInvParts DEF DataTyped
<1>4. MutexInv'
  BY <1>1 DEF RfsInv, MutexInv, Active, OnQueue
<1>5. AnswersInv'
  BY <1>1, <1>2, QuietStep
<1> QED BY <1>2, <1>3, <1>4, <1>5, RfsInvNext

\* p is inside a call, which goes on.
LEMMA ResumeFacts ==
  ASSUME RfsInv, NEW p \in RfsProcs, NEW op, Resumes(p, op), op # "user"
  PROVE  /\ ~Waiting(p) /\ call[p] # Idle /\ call[p].op = op /\ p \in Procs
         /\ call[p] \in RfsCalls /\ rfltab \in [Rfl -> Pseudo]
<1>1. p \in Procs /\ call[p] \in RfsCalls /\ rfltab \in [Rfl -> Pseudo]
  BY RfAssumption DEF RfsInv, RfsTypes
<1>2. call[p] # Idle
  BY <1>1, RfsCallKinds DEF Resumes
<1> QED BY <1>1, <1>2 DEF Resumes, Runs

\* A request without data.
LEMMA Requested ==
  ASSUME NEW type \in Types \ {"write"}, NEW name \in Names, NEW pos \in Nat, NEW len \in Nat,
         NEW mode \in SUBSET Letters
  PROVE  /\ [Request(type, name) EXCEPT !.mode = mode] \in Sent
         /\ [Request(type, name) EXCEPT !.pos = pos, !.len = len] \in Sent
         /\ Request(type, name) \in Sent
<1>1. <<>> \in Seq(RfBytes)
  BY EmptySeq
<1> QED BY <1>1 DEF Request, Sent, Msgs

LEMMA ReadStep ==
  ASSUME RfsInv, NEW p \in RfsProcs, rflread(p)
  PROVE  RfsInv'
<1>c. PICK c : c = call[p]
  OBVIOUS
<1>1. /\ ~Waiting(p) /\ call[p] # Idle /\ c.op = "rfs read" /\ c \in RfsCalls
      /\ rfltab \in [Rfl -> Pseudo] /\ rfltab' = rfltab
  BY <1>c, ResumeFacts DEF rflread
<1>2. c.dev \in Rfl /\ c.len \in Nat
  BY <1>1, RfsCallKinds DEF ReadCalls
<1>f. PICK f \in Pseudo : f = rfltab[c.dev]
  BY <1>1, <1>2
<1>3. CASE rfs_ends(p)
  BY <1>1, <1>3, EndStep
<1> DEFINE msg == [Request("read", f.name) EXCEPT !.pos = f.pos, !.len = c.len]
<1>4. CASE rfscomm(p, c.dev, msg) /\ f.name # TooLong
  <2>1. msg \in Sent
    <3>1. "read" \in Types \ {"write"} /\ f.name \in Names /\ f.pos \in Nat /\ {} \in SUBSET Letters
      BY <1>4 DEF Types, Pseudo
    <3> QED BY <1>2, <3>1, Requested
  <2>2. msg.type # "open"
    BY DEF Request
  <2> HIDE DEF msg
  <2> QED BY <1>1, <1>2, <1>4, <2>1, <2>2, CommStep
<1> QED BY <1>3, <1>4, <1>c, <1>f DEF rflread

LEMMA WriteStep ==
  ASSUME RfsInv, NEW p \in RfsProcs, rflwrite(p)
  PROVE  RfsInv'
<1>c. PICK c : c = call[p]
  OBVIOUS
<1>1. /\ ~Waiting(p) /\ call[p] # Idle /\ c.op = "rfs write" /\ c \in RfsCalls
      /\ rfltab \in [Rfl -> Pseudo] /\ rfltab' = rfltab
  BY <1>c, ResumeFacts DEF rflwrite
<1>2. c.dev \in Rfl /\ c.data \in Seq(RfBytes) /\ Len(c.data) \in Nat
  BY <1>1, RfsCallKinds, LenProperties DEF WriteCalls
<1>f. PICK f \in Pseudo : f = rfltab[c.dev]
  BY <1>1, <1>2
<1>3. CASE rfs_ends(p)
  BY <1>1, <1>3, EndStep
<1> DEFINE msg == [Request("write", f.name) EXCEPT
                     !.pos = f.pos, !.len = Len(c.data), !.data = c.data]
<1>4. CASE rfscomm(p, c.dev, msg) /\ f.name # TooLong
  <2>1. msg \in Sent
    <3>1. "write" \in Types /\ f.name \in Names /\ f.pos \in Nat /\ {} \in SUBSET Letters
      BY <1>4 DEF Types, Pseudo
    <3> QED BY <1>2, <3>1 DEF Request, Sent, Msgs
  <2>2. msg.type # "open"
    BY DEF Request
  <2> HIDE DEF msg
  <2> QED BY <1>1, <1>2, <1>4, <2>1, <2>2, CommStep
<1> QED BY <1>3, <1>4, <1>c, <1>f DEF rflwrite

LEMMA CloseStep ==
  ASSUME RfsInv, NEW p \in RfsProcs, rflclose(p)
  PROVE  RfsInv'
<1>c. PICK c : c = call[p]
  OBVIOUS
<1>1. /\ ~Waiting(p) /\ call[p] # Idle /\ c.op = "rfs close" /\ c \in RfsCalls
      /\ rfltab \in [Rfl -> Pseudo] /\ rfltab' = [rfltab EXCEPT ![c.dev].used = FALSE]
  BY <1>c, ResumeFacts DEF rflclose
<1>2. c.dev \in Rfl
  BY <1>1, RfsCallKinds DEF CloseCalls
<1>3. \A f \in Pseudo : [f EXCEPT !.used = FALSE] \in Pseudo
  BY DEF Pseudo
<1>4. rfltab' \in [Rfl -> Pseudo]
  BY <1>1, <1>2, <1>3
<1> QED BY <1>1, <1>4, EndStep DEF rflclose

LEMMA SeekStep ==
  ASSUME RfsInv, NEW p \in RfsProcs, rflseek(p)
  PROVE  RfsInv'
<1>c. PICK c : c = call[p]
  OBVIOUS
<1>1. /\ ~Waiting(p) /\ call[p] # Idle /\ c.op = "rfs seek" /\ c \in RfsCalls
      /\ rfltab \in [Rfl -> Pseudo]
      /\ rfltab' = rfltab \/ rfltab' = [rfltab EXCEPT ![c.dev].pos = c.pos]
  BY <1>c, ResumeFacts DEF rflseek
<1>2. c.dev \in Rfl /\ c.pos \in Nat
  BY <1>1, RfsCallKinds DEF SeekCalls
<1>3. \A f \in Pseudo : [f EXCEPT !.pos = c.pos] \in Pseudo
  BY <1>2 DEF Pseudo
<1>4. rfltab' \in [Rfl -> Pseudo]
  BY <1>1, <1>2, <1>3
<1> QED BY <1>1, <1>4, EndStep DEF rflseek

LEMMA ControlStep ==
  ASSUME RfsInv, NEW p \in RfsProcs, rfscontrol(p)
  PROVE  RfsInv'
<1>c. PICK c : c = call[p]
  OBVIOUS
<1>1. /\ ~Waiting(p) /\ call[p] # Idle /\ c.op = "rfs control" /\ c \in RfsCalls
      /\ rfltab \in [Rfl -> Pseudo] /\ rfltab' = rfltab
  BY <1>c, ResumeFacts DEF rfscontrol
<1>2. c.func \in {"size", "truncate", "delete", "mkdir", "rmdir"} /\ c.name \in RfNames
  BY <1>1, RfsCallKinds DEF ControlCalls
<1>3. 0 \in Rfl
  BY RfAssumption DEF Rfl
<1>t. CASE rfs_ends(p)
  BY <1>1, <1>t, EndStep
<1>u. CASE rfltab[0].name # TooLong /\ ~rfs_ends(p)
  <2>n. PICK name : name = IF c.func = "size" THEN rfltab[0].name ELSE c.name
    OBVIOUS
  <2>1. name \in Names
    BY <1>1, <1>2, <1>3, <1>u, <2>n DEF Pseudo, Names
  <2>2. Request(c.func, name) \in Sent /\ Request(c.func, name).type # "open"
    <3>1. c.func \in Types \ {"write"} /\ c.func # "open" /\ 0 \in Nat /\ {} \in SUBSET Letters
      BY <1>2 DEF Types
    <3>2. Request(c.func, name) \in Sent
      BY <2>1, <3>1, Requested
    <3> QED BY <3>1, <3>2 DEF Request
  <2>3. rfscomm(p, 0, Request(c.func, name))
    BY <1>c, <1>u, <2>n DEF rfscontrol
  <2> QED BY <1>1, <1>3, <2>2, <2>3, CommStep
<1> QED BY <1>c, <1>t, <1>u DEF rfscontrol

LEMMA OpenStep ==
  ASSUME RfsInv, NEW p \in RfsProcs, rfsopen(p)
  PROVE  RfsInv'
<1>c. PICK c : c = call[p]
  OBVIOUS
<1> DEFINE free == {e \in Rfl : ~rfltab[e].used}
<1>1. /\ ~Waiting(p) /\ call[p] # Idle /\ c.op = "rfs open" /\ c \in RfsCalls
      /\ rfltab \in [Rfl -> Pseudo]
  BY <1>c, ResumeFacts DEF rfsopen
<1>2. c.name \in RfNames \cup {None, TooLong}
  BY <1>1, RfsCallKinds DEF OpenCalls
<1>3. CASE free = {}
  <2>1. rfs_ends(p) /\ rfltab' = rfltab
    BY <1>3 DEF rfsopen
  <2> QED BY <1>1, <2>1, EndStep
<1>4. CASE free # {}
  <2>d. PICK d : d = Min(free)
    OBVIOUS
  <2>mode. PICK mode : mode = rfsgetmode(c.mode)
    OBVIOUS
  <2>1. d \in Rfl /\ ~rfltab[d].used
    <3>1. free \in SUBSET Nat
      BY RfAssumption DEF Rfl
    <3>2. \E x \in free : \A y \in free : x <= y
      <4> HIDE DEF free
      <4> QED BY <1>4, <3>1, LeastNat
    <3>3. Min(free) \in free
      BY <3>2 DEF Min
    <3> QED BY <2>d, <3>3
  <2>2. mode \in SUBSET Letters
    <3>1. mode = {} \/ mode \subseteq {"r", "w", "o", "n"}
      BY <2>mode DEF rfsgetmode
    <3> QED BY <3>1 DEF Letters
  <2>3. \A f \in Pseudo, m \in SUBSET Letters : [f EXCEPT !.name = c.name, !.mode = m] \in Pseudo
    BY <1>2 DEF Pseudo, Names
  <2>0. CASE c.name \in {None, TooLong}
    <3>1. rfs_ends(p) /\ rfltab' = [rfltab EXCEPT ![d].name = c.name]
      BY <1>c, <1>4, <2>d, <2>0 DEF rfsopen
    <3>2. \A f \in Pseudo : [f EXCEPT !.name = c.name] \in Pseudo
      BY <1>2 DEF Pseudo, Names
    <3>3. rfltab' \in [Rfl -> Pseudo]
      BY <1>1, <2>1, <3>1, <3>2
    <3> QED BY <1>1, <3>1, <3>3, EndStep
  <2>4. CASE mode = {} /\ c.name \notin {None, TooLong}
    <3>1. rfs_ends(p) /\ rfltab' = [rfltab EXCEPT ![d].name = c.name, ![d].mode = {}]
      BY <1>c, <1>4, <2>d, <2>mode, <2>4 DEF rfsopen
    <3>2. {} \in SUBSET Letters
      OBVIOUS
    <3>3. rfltab' \in [Rfl -> Pseudo]
      BY <1>1, <2>1, <2>3, <3>1, <3>2
    <3> QED BY <1>1, <3>1, <3>3, EndStep
  <2>5. CASE mode # {} /\ c.name \notin {None, TooLong}
    <3> DEFINE msg == [Request("open", c.name) EXCEPT !.mode = mode]
    <3>1. rfscomm(p, d, msg) /\ rfltab' = [rfltab EXCEPT ![d].name = c.name, ![d].mode = mode]
      BY <1>c, <1>4, <2>d, <2>mode, <2>5 DEF rfsopen
    <3>2. rfltab' \in [Rfl -> Pseudo]
      BY <1>1, <2>1, <2>2, <2>3, <3>1
    <3>3. msg \in Sent
      <4>1. "open" \in Types \ {"write"} /\ c.name \in Names /\ 0 \in Nat
        BY <1>2, <2>5 DEF Types, Names
      <4> QED BY <2>2, <4>1, Requested
    <3>4. msg.name = c.name /\ msg.mode = mode
      BY DEF Request
    <3>5. ~rfltab'[d].used /\ rfltab'[d].name = msg.name /\ rfltab'[d].mode = msg.mode
      BY <1>1, <2>1, <3>1, <3>4 DEF Pseudo
    <3> HIDE DEF msg
    <3> QED BY <1>1, <2>1, <3>1, <3>2, <3>3, <3>5, CommStep
  <2> QED BY <2>0, <2>4, <2>5
<1> QED BY <1>3, <1>4

-----------------------------------------------------------------------------
(* The invariant                                                           *)

LEMMA RfsBegins == ASSUME RfsInit PROVE RfsInv
<1>1. /\ call = [p \in Procs |-> Idle]
      /\ semtab = [s \in SemIds |->
                     IF s = rf_mutex THEN [used |-> TRUE, count |-> 1, queue |-> <<>>] ELSE Unused]
      /\ rf_seq = 1 /\ rfltab = [d \in Rfl |-> rflinit]
      /\ rfserver = [n \in Names |-> NoFile]
      /\ rfrequests = {} /\ rfreplies = {} /\ answered = NoAnswer /\ rfabandoned = 0
      /\ latest = Request("open", None) /\ before = NoFile
  BY DEF RfsInit, rfs_processes, rfsinit, CallInit, Names
<1>2. RfsProcs \subseteq Procs /\ rf_mutex \in SemIds
  BY RfAssumption
<1>3. SemTable(semtab) /\ \A s \in SemIds : OnQueue(semtab, s) = {}
  <2> DEFINE a == [used |-> TRUE, count |-> 1, queue |-> <<>>]
  <2>1. Unused \in SemEntries /\ IsInjective(<<>>) /\ Len(<<>>) = WaitCount(0) /\ Range(<<>>) = {}
    BY UnusedEntry DEF Unused, Lists
  <2>2. a \in SemEntries /\ WaitCount(1) = 0
    BY EmptySeq DEF SemEntries, WaitCount
  <2>3. \A s \in SemIds : semtab[s] \in {a, Unused} /\ semtab[s].queue = <<>>
                           /\ semtab[s].count \in {0, 1}
    BY <1>1 DEF Unused
  <2>4. \A s \in SemIds : OnQueue(semtab, s) = {}
    BY <2>1, <2>3 DEF OnQueue
  <2>5. /\ semtab \in [SemIds -> SemEntries]
        /\ \A s \in SemIds : ~semtab[s].used => semtab[s] = Unused
    BY <1>1, <2>1, <2>2
  <2>6. \A s \in SemIds :
          IsInjective(semtab[s].queue) /\ Len(semtab[s].queue) = WaitCount(semtab[s].count)
    <3>1. WaitCount(0) = 0 /\ WaitCount(1) = 0
      BY DEF WaitCount
    <3> QED BY <2>1, <2>3, <3>1
  <2> QED BY <2>4, <2>5, <2>6 DEF SemTable
<1>4. RfsTypes
  <2>1. Idle \in RfsCalls
    BY DEF RfsCalls
  <2>2. rflinit \in Pseudo
    BY DEF rflinit, Pseudo, Names
  <2>3. NoFile \in Contents
    BY ContentsFacts
  <2>4. Request("open", None) \in Sent
    <3>1. "open" \in Types \ {"write"} /\ None \in Names /\ 0 \in Nat /\ {} \in SUBSET Letters
      BY DEF Types, Names
    <3> QED BY <3>1, Requested
  <2> QED BY <1>1, <1>3, <2>1, <2>2, <2>3, <2>4 DEF RfsTypes
<1>5. MutexInv
  <2>1. Active = {}
    BY <1>1, <1>2 DEF Active
  <2>2. Cardinality(Active) = 0
    BY <2>1, FS_EmptySet
  <2>3. semtab[rf_mutex].used /\ semtab[rf_mutex].count = 1
    BY <1>1, <1>2
  <2> QED BY <1>1, <1>2, <1>3, <2>2, <2>3 DEF MutexInv
<1>6. \A p \in Procs : call[p] \notin Exchanges /\ call[p].op # "rfscomm"
  BY <1>1 DEF Idle, Exchanges
<1>7. OpensKeepTheirSlot
  BY <1>2, <1>6 DEF OpensKeepTheirSlot
<1>8. HistoryInv
  <2>1. latest.seq = 0 /\ latest.name = None /\ None \in Names
    BY <1>1 DEF Request, Names
  <2> QED BY <1>1, <1>6, <2>1 DEF HistoryInv
<1> QED BY <1>4, <1>5, <1>7, <1>8 DEF RfsInv

LEMMA RfsStep ==
  ASSUME RfsInv, [RfsNext]_<<callVars, rfVars>>
  PROVE  RfsInv'
<1>1. CASE UNCHANGED <<callVars, rfVars>>
  BY <1>1, IdleStep
<1>2. ASSUME NEW p \in RfsProcs, rfs_call(p) PROVE RfsInv'
  BY <1>2, BeginStep
<1>3. ASSUME NEW p \in RfsProcs, rfsopen(p) PROVE RfsInv'
  BY <1>3, OpenStep
<1>4. ASSUME NEW p \in RfsProcs, rflread(p) PROVE RfsInv'
  BY <1>4, ReadStep
<1>5. ASSUME NEW p \in RfsProcs, rflwrite(p) PROVE RfsInv'
  BY <1>5, WriteStep
<1>6. ASSUME NEW p \in RfsProcs, rflclose(p) PROVE RfsInv'
  BY <1>6, CloseStep
<1>7. ASSUME NEW p \in RfsProcs, rflseek(p) PROVE RfsInv'
  BY <1>7, SeekStep
<1>8. ASSUME NEW p \in RfsProcs, rfscontrol(p) PROVE RfsInv'
  BY <1>8, ControlStep
<1>9. ASSUME NEW p \in RfsProcs, rfscomm_timeout(p) PROVE RfsInv'
  BY <1>9, RetryStep DEF rfscomm_timeout
<1>10. ASSUME NEW p \in RfsProcs, rfscomm_stale(p) PROVE RfsInv'
  BY <1>10, RetryStep DEF rfscomm_stale
<1>11. ASSUME NEW p \in RfsProcs, rfscomm_reply(p) PROVE RfsInv'
  BY <1>11, ReplyStep
<1>12. ASSUME NEW p \in RfsProcs, rfs_kill(p) PROVE RfsInv'
  BY <1>12, KillStep
<1>13. CASE rf_server
  BY <1>13, ServerStep
<1>14. ASSUME NEW p \in RfsProcs, rfscomm_error(p) PROVE RfsInv'
  BY <1>14, ErrorStep
<1> QED
  BY <1>1, <1>2, <1>3, <1>4, <1>5, <1>6, <1>7, <1>8, <1>9, <1>10, <1>11, <1>12, <1>13, <1>14
     DEF RfsNext

LEMMA RfsInvariant == RfsSpec => []RfsInv
<1>1. RfsInit => RfsInv
  BY RfsBegins
<1>2. RfsInv /\ [RfsNext]_<<callVars, rfVars>> => RfsInv'
  BY RfsStep
<1> QED BY <1>1, <1>2, PTL DEF RfsSpec

-----------------------------------------------------------------------------
(* NetClients: the values of the variables                                 *)

\* What getlocalip() is called for.
Purposes == DomainNames \cup {NoName}
Leasable == DhcpServers \cup {NoAddr}
HostData == [ipucast : Leasable, dnsserver : BOOLEAN]
OwnedSlots == [service : {"dhcp", "dns", "tftp"}, owner : Clients]
AnySlots == OwnedSlots \cup {LeftPair}

DhcpSent == [kind : {"discover", "request"}, server : DhcpServers \cup {NoServer}, yip : Leasable]
DhcpReplies == [kind : {"offer", "ack", "nak"}, server : DhcpServers \cup {NoServer},
                yip : DhcpServers, dns : BOOLEAN]
DhcpMsgs == DhcpSent \cup DhcpReplies

DnsSent == [to : {"server"}, name : DomainNames, answers : {<<>>}]
DnsReplies == {m \in [to : {"client"}, name : DomainNames,
                      answers : UNION {ZoneAnswers[n] : n \in DomainNames}] :
                 m.answers \in ZoneAnswers[m.name]}
DnsMsgs == DnsSent \cup DnsReplies

\* A datagram with data has a block of the file, and says whether it is the last.
TftpMsgs ==
  {m \in [to : {"server", "client"}, who : Clients, port : Nat,
          kind : {"rrq", "ack", "data", "error"}, blk : Nat, last : BOOLEAN] :
     m.to = "client" /\ m.kind = "data" =>
       m.blk \in 1..TftpBlocks /\ (m.last <=> m.blk = TftpBlocks)}

\* The first blocks of the file, in their order.
InOrder(s) == \A b \in 1..Len(s) : s[b] = b
DhcpCalls == [op : {"dhcp"}, name : Purposes, out : DhcpSent, i : Nat, j : Nat]
DnsCalls == [op : {"dns"}, name : DomainNames, i : Nat]
TftpCalls == {c \in [op : {"tftp"}, expected : Nat, remport : Nat, i : Nat, got : Seq(Nat)] :
                InOrder(c.got) /\ c.expected = Len(c.got) + 1}
ClientCalls == {Resting} \cup DhcpCalls \cup DnsCalls \cup TftpCalls
Unfinished(c) == c \in TftpCalls => c.expected <= TftpBlocks

\* addr is an address that the server has for the name, or for one that begins with it.
IsAddress(name, addr) ==
  \E n \in DomainNames : \E a \in ZoneAnswers[n] :
    /\ IsPrefix(name, n)
    /\ \E i \in DOMAIN a : a[i] = [rname |-> n, atype |-> "A", addr |-> addr]
    /\ addr \in LocalNet \/ \A i \in DOMAIN a : a[i].atype = "A" => a[i].addr \notin LocalNet
DhcpResults == [op : {"dhcp"}, name : {NoName}, addr : Leasable \cup {Failed}]
DnsResults == {r \in [op : {"dns"}, name : DomainNames, addr : ZoneAddrs \cup {Failed}] :
                 r.addr # Failed => IsAddress(r.name, r.addr)}
TftpResults == {r \in [op : {"tftp"}, got : Seq(Int)] :
                  r.got # NoData => Len(r.got) = TftpBlocks /\ InOrder(r.got)}
ClientResults == {[op |-> "none"]} \cup DhcpResults \cup DnsResults \cup TftpResults

GrantedAddr(data) == data.ipucast \in leases \cup {NoAddr}
Acknowledged(D) == \A m \in D : m.kind = "ack" => m.yip \in leases

ClientInv ==
  /\ clients \in [Clients -> ClientCalls] /\ \A p \in Clients : Unfinished(clients[p])
  /\ results \in [Clients -> ClientResults]
  /\ NetData \in HostData /\ GrantedAddr(NetData)
  /\ dhcpwire \subseteq DhcpMsgs /\ Acknowledged(dhcpwire)
  /\ dnswire \subseteq DnsMsgs
  /\ tftpwire \subseteq TftpMsgs
  /\ sessions \in Nat
  /\ SlotsWithOwners

-----------------------------------------------------------------------------
(* What a step makes of the state of a client                              *)

\* The slots of the other clients, and that of p in call c.
OtherSlots(p) == {[service |-> clients[q].op, owner |-> q] :
                q \in {q \in Clients : q # p /\ clients[q] # Resting}}
OwnSlot(p, c) == IF c = Resting THEN {} ELSE {[service |-> c.op, owner |-> p]}

\* What v has is sound, but for its slots.
ClientStates == [p : Clients, slots : SUBSET AnySlots, data : HostData, dhcp : SUBSET DhcpMsgs,
           dns : SUBSET DnsMsgs, tftp : SUBSET TftpMsgs, next : ClientCalls,
           result : ClientResults]
SoundState(p, v) == v \in ClientStates /\ v.p = p /\ GrantedAddr(v.data) /\ Acknowledged(v.dhcp)
Kept(v) == v.slots \ {LeftPair}
SlotsFit(p, v) == Kept(v) = OtherSlots(p) \cup OwnSlot(p, v.next)
GoodState(p, v) == SoundState(p, v) /\ SlotsFit(p, v)

LEMMA ClientKinds ==
  ASSUME NEW c \in ClientCalls
  PROVE  /\ c = Resting <=> c.op = "rest"
         /\ c # Resting => c.op \in {"dhcp", "dns", "tftp"}
         /\ c.op = "dhcp" <=> c \in DhcpCalls
         /\ c.op = "dns" <=> c \in DnsCalls
         /\ c.op = "tftp" <=> c \in TftpCalls
<1>1. Resting.op = "rest"
  BY DEF Resting
<1>2. CASE c = Resting
  BY <1>1, <1>2 DEF DhcpCalls, DnsCalls, TftpCalls
<1>3. CASE c \in DhcpCalls
  BY <1>1, <1>3 DEF DhcpCalls, DnsCalls, TftpCalls
<1>4. CASE c \in DnsCalls
  BY <1>1, <1>4 DEF DhcpCalls, DnsCalls, TftpCalls
<1>5. CASE c \in TftpCalls
  BY <1>1, <1>5 DEF DhcpCalls, DnsCalls, TftpCalls
<1> QED BY <1>2, <1>3, <1>4, <1>5 DEF ClientCalls

\* The pair of a client is not one that was left behind.
LEMMA PairKept ==
  ASSUME NEW p \in Clients, NEW k
  PROVE  [service |-> k, owner |-> p] # LeftPair
<1>1. [service |-> k, owner |-> p].owner # LeftPair.owner
  BY NetClientAssumption DEF LeftPair
<1> QED BY <1>1

LEMMA OtherSlotsSound ==
  ASSUME ClientInv, NEW p \in Clients
  PROVE  /\ OtherSlots(p) \subseteq OwnedSlots
         /\ udpslots \ {LeftPair} = OtherSlots(p) \cup OwnSlot(p, clients[p])
         /\ \A s \in OtherSlots(p) : s.owner # p
<1>1. \A q \in Clients : clients[q] # Resting => clients[q].op \in {"dhcp", "dns", "tftp"}
  BY ClientKinds DEF ClientInv
<1>2. OtherSlots(p) \subseteq OwnedSlots /\ \A s \in OtherSlots(p) : s.owner # p
  BY <1>1 DEF OtherSlots, OwnedSlots
<1>3. udpslots \ {LeftPair} = OtherSlots(p) \cup OwnSlot(p, clients[p])
  BY DEF ClientInv, SlotsWithOwners, OtherSlots, OwnSlot
<1> QED BY <1>2, <1>3

LEMMA ClientStateGood ==
  ASSUME ClientInv, NEW p \in Clients
  PROVE  GoodState(p, ClientState(p)) /\ ClientState(p).next = clients[p]
<1> DEFINE v == ClientState(p)
<1>1. udpslots \in SUBSET AnySlots
  <2>1. OtherSlots(p) \subseteq OwnedSlots /\ OwnSlot(p, clients[p]) \subseteq OwnedSlots
    BY OtherSlotsSound, ClientKinds DEF OwnSlot, OwnedSlots, ClientInv
  <2> QED BY <2>1, OtherSlotsSound DEF AnySlots
<1>2. v \in ClientStates /\ v.p = p /\ v.data = NetData /\ v.dhcp = dhcpwire /\ v.next = clients[p]
      /\ v.slots = udpslots
  BY <1>1 DEF ClientInv, ClientState, ClientStates
<1> HIDE DEF v
<1>3. SoundState(p, v)
  BY <1>2 DEF SoundState, ClientInv
<1>4. SlotsFit(p, v)
  BY <1>2, OtherSlotsSound DEF SlotsFit, Kept
<1> QED BY <1>2, <1>3, <1>4 DEF GoodState, v

\* A step of a client.
LEMMA ClientStepInv ==
  ASSUME ClientInv, NEW p \in Clients, NEW v, GoodState(p, v), Unfinished(v.next), clientstep(v)
  PROVE  ClientInv'
<1>1. /\ clients' = [clients EXCEPT ![p] = v.next] /\ results' = [results EXCEPT ![p] = v.result]
      /\ udpslots' = v.slots /\ NetData' = v.data /\ dhcpwire' = v.dhcp /\ dnswire' = v.dns
      /\ tftpwire' = v.tftp /\ leases' = leases /\ sessions' = sessions
  BY DEF clientstep, GoodState, SoundState
<1>2. /\ v.next \in ClientCalls /\ v.result \in ClientResults /\ v.data \in HostData
      /\ v.dhcp \subseteq DhcpMsgs /\ v.dns \subseteq DnsMsgs /\ v.tftp \subseteq TftpMsgs
  BY DEF GoodState, SoundState, ClientStates
<1>3. GrantedAddr(v.data)' /\ Acknowledged(v.dhcp)'
  BY <1>1 DEF GoodState, SoundState, GrantedAddr, Acknowledged
<1>4. SlotsWithOwners'
  <2>1. \A q \in Clients : clients'[q] = IF q = p THEN v.next ELSE clients[q]
    BY <1>1 DEF ClientInv
  <2>2. udpslots' \ {LeftPair} = OtherSlots(p) \cup OwnSlot(p, v.next)
    BY <1>1 DEF GoodState, SlotsFit, Kept
  <2> QED BY <2>1, <2>2 DEF SlotsWithOwners, OtherSlots, OwnSlot
<1>5. clients' \in [Clients -> ClientCalls] /\ results' \in [Clients -> ClientResults]
  BY <1>1, <1>2 DEF ClientInv
<1>6. \A q \in Clients : Unfinished(clients'[q])
  BY <1>1 DEF ClientInv
<1> QED BY <1>1, <1>2, <1>3, <1>4, <1>5, <1>6 DEF ClientInv, GrantedAddr, Acknowledged

\* A call returns.
LEMMA ReturnsGood ==
  ASSUME NEW p, NEW v, SoundState(p, v), Kept(v) = OtherSlots(p), NEW r \in ClientResults
  PROVE  GoodState(p, returns(v, r)) /\ Unfinished(returns(v, r).next)
<1> DEFINE w == returns(v, r)
<1>1. Resting \in ClientCalls /\ Resting \notin TftpCalls
  BY ClientKinds DEF ClientCalls, Resting, TftpCalls
<1>2. /\ w \in ClientStates /\ w.p = v.p /\ w.data = v.data /\ w.dhcp = v.dhcp /\ w.slots = v.slots
      /\ w.next = Resting
  BY <1>1 DEF SoundState, ClientStates, returns
<1> HIDE DEF w
<1> QED BY <1>1, <1>2 DEF GoodState, SoundState, SlotsFit, Kept, OwnSlot, w, Unfinished

LEMMA ReleasedGood ==
  ASSUME ClientInv, NEW p \in Clients, NEW v, GoodState(p, v), v.next # Resting
  PROVE  LET w == released(v, v.next.op)
         IN  SoundState(p, w) /\ Kept(w) = OtherSlots(p) /\ w.next = v.next
<1> DEFINE w == released(v, v.next.op)
<1>1. /\ w \in ClientStates /\ w.p = v.p /\ w.data = v.data /\ w.dhcp = v.dhcp /\ w.next = v.next
      /\ w.slots = v.slots \ {pair(v, v.next.op)}
  BY DEF GoodState, SoundState, ClientStates, released
<1>2. pair(v, v.next.op) = [service |-> v.next.op, owner |-> p]
  BY DEF pair, GoodState, SoundState
<1>3. \A s \in OtherSlots(p) : s # [service |-> v.next.op, owner |-> p]
  BY OtherSlotsSound
<1>4. Kept(w) = OtherSlots(p)
  BY <1>1, <1>2, <1>3 DEF GoodState, SlotsFit, Kept, OwnSlot
<1> HIDE DEF w
<1> QED BY <1>1, <1>4 DEF GoodState, SoundState, w

LEMMA LeftGood ==
  ASSUME ClientInv, NEW p \in Clients, NEW v, GoodState(p, v), v.next # Resting
  PROVE  LET w == left(v, v.next.op) IN SoundState(p, w) /\ Kept(w) = OtherSlots(p)
<1> DEFINE w == left(v, v.next.op)
<1>1. /\ w \in ClientStates /\ w.p = v.p /\ w.data = v.data /\ w.dhcp = v.dhcp
      /\ w.slots = (v.slots \ {pair(v, v.next.op)}) \cup {LeftPair}
  BY DEF GoodState, SoundState, ClientStates, left, AnySlots
<1>2. pair(v, v.next.op) = [service |-> v.next.op, owner |-> p]
  BY DEF pair, GoodState, SoundState
<1>3. \A s \in OtherSlots(p) : s # [service |-> v.next.op, owner |-> p]
  BY OtherSlotsSound
<1>4. Kept(w) = OtherSlots(p)
  BY <1>1, <1>2, <1>3 DEF GoodState, SlotsFit, Kept, OwnSlot
<1> HIDE DEF w
<1> QED BY <1>1, <1>4 DEF GoodState, SoundState, w

-----------------------------------------------------------------------------
(* dnslookup()                                                             *)

\* The addresses that dns_geta() finds in a reply are those of the name.
LEMMA AddressFound ==
  ASSUME NEW name \in DomainNames, NEW m \in DnsMsgs, m.to = "client"
  PROVE  LET addr == dns_geta(name, m.answers)
         IN  addr \in ZoneAddrs \cup {Failed} /\ (addr # Failed => IsAddress(name, addr))
<1>a. PICK a : a = m.answers
  OBVIOUS
<1> DEFINE matches == {i \in DOMAIN a : IsPrefix(name, a[i].rname) /\ a[i].atype = "A"}
           local == {i \in matches : a[i].addr \in LocalNet}
           k == chosen(a, matches)
<1>n. PICK n : n = m.name
  OBVIOUS
<1>1. n \in DomainNames /\ a \in ZoneAnswers[n]
  BY <1>a, <1>n DEF DnsMsgs, DnsSent, DnsReplies
<1>2. a \in Seq([rname : {n}, atype : {"A", "NS"}, addr : ZoneAddrs])
  BY <1>1, NetClientAssumption
<1>3. DOMAIN a = 1..Len(a) /\ Len(a) \in Nat
      /\ \A i \in DOMAIN a : a[i] \in [rname : {n}, atype : {"A", "NS"}, addr : ZoneAddrs]
  <2> DEFINE R == [rname : {n}, atype : {"A", "NS"}, addr : ZoneAddrs]
  <2> HIDE DEF R
  <2>1. a \in Seq(R)
    BY <1>2 DEF R
  <2>2. DOMAIN a = 1..Len(a) /\ Len(a) \in Nat /\ \A i \in DOMAIN a : a[i] \in R
    BY <2>1, LenProperties
  <2> QED BY <2>2 DEF R
<1>4. CASE matches = {}
  <2>1. dns_geta(name, m.answers) = Failed
    BY <1>4, <1>a DEF dns_geta
  <2> QED BY <2>1
<1>5. CASE matches # {}
  <2>1. k \in matches /\ (local # {} => k \in local)
    <3>1. matches \in SUBSET Nat
      BY <1>3
    <3>2. CASE local # {}
      <4> DEFINE T == {Len(a) - i : i \in local}
      <4>1. T \in SUBSET Nat /\ T # {}
        BY <1>3, <3>2
      <4>2. \E t \in T : \A u \in T : t <= u
        <5> HIDE DEF T
        <5> QED BY <4>1, LeastNat
      <4>3. \E i \in local : \A j \in local : i >= j
        <5>1. \A i \in local : i \in Nat /\ Len(a) - i \in T
          BY <1>3
        <5>2. PICK t \in T : \A u \in T : t <= u
          BY <4>2
        <5>3. PICK i \in local : t = Len(a) - i
          OBVIOUS
        <5>4. ASSUME NEW j \in local PROVE i >= j
          <6>1. t <= Len(a) - j
            BY <5>1, <5>2
          <6> QED BY <1>3, <5>1, <5>3, <6>1
        <5> QED BY <5>4
      <4>4. Max(local) \in local
        <5> HIDE DEF local
        <5> QED BY <4>3 DEF Max
      <4>5. k = Max(local)
        BY <3>2 DEF chosen
      <4> QED BY <4>4, <4>5
    <3>3. CASE local = {}
      <4>1. \E i \in matches : \A j \in matches : i <= j
        <5> HIDE DEF matches
        <5> QED BY <1>5, <3>1, LeastNat
      <4>2. Min(matches) \in matches
        <5> HIDE DEF matches
        <5> QED BY <4>1 DEF Min
      <4>3. k = Min(matches)
        BY <3>3 DEF chosen
      <4> QED BY <3>3, <4>2, <4>3
    <3> QED BY <3>2, <3>3
  <2>2. dns_geta(name, m.answers) = a[k].addr
    BY <1>5, <1>a DEF dns_geta
  <2> HIDE DEF k
  <2>3. k \in DOMAIN a /\ IsPrefix(name, a[k].rname) /\ a[k].atype = "A"
    BY <2>1
  <2>4. a[k].rname = n /\ a[k].addr \in ZoneAddrs
    BY <1>3, <2>3
  <2>5. IsPrefix(name, n)
    BY <2>3, <2>4
  <2>6. a[k] = [rname |-> n, atype |-> "A", addr |-> a[k].addr]
    BY <1>3, <2>3, <2>4
  <2>7. a[k].addr \in LocalNet \/ \A i \in DOMAIN a : a[i].atype = "A" => a[i].addr \notin LocalNet
    <3>1. CASE local # {}
      BY <2>1, <3>1
    <3>2. CASE local = {}
      <4>1. \A i \in DOMAIN a : IsPrefix(name, a[i].rname)
        BY <1>3, <2>5
      <4> QED BY <3>2, <4>1
    <3> QED BY <3>1, <3>2
  <2>8. IsAddress(name, a[k].addr)
    BY <1>1, <2>3, <2>5, <2>6, <2>7 DEF IsAddress
  <2> QED BY <2>2, <2>4, <2>8
<1> QED BY <1>4, <1>5

LEMMA DnsSendGood ==
  ASSUME NEW p \in Clients, NEW v, SoundState(p, v), NEW name \in DomainNames, NEW i \in Nat,
         Kept(v) = OtherSlots(p) \cup {[service |-> "dns", owner |-> p]}
  PROVE  LET w == dns_send(v, name, i) IN GoodState(p, w) /\ Unfinished(w.next)
<1> DEFINE w == dns_send(v, name, i)
           m == [to |-> "server", name |-> name, answers |-> <<>>]
           c == [op |-> "dns", name |-> name, i |-> i]
<1>1. m \in DnsMsgs
  BY DEF DnsMsgs, DnsSent
<1>2. c \in DnsCalls
  BY DEF DnsCalls
<1>3. c \in ClientCalls /\ c.op = "dns"
  BY <1>2 DEF ClientCalls
<1>4. c # Resting /\ c \notin TftpCalls
  BY <1>2, <1>3, ClientKinds DEF TftpCalls
<1>5. w = [v EXCEPT !.dns = @ \cup {m}, !.next = c]
  BY DEF dns_send
<1> HIDE DEF m, c
<1>6. /\ w \in ClientStates /\ w.p = v.p /\ w.data = v.data /\ w.dhcp = v.dhcp /\ w.slots = v.slots
      /\ w.next = c
  <2> DEFINE D == v.dns \cup {m}
  <2>1. D \in SUBSET DnsMsgs /\ v \in ClientStates
    BY <1>1 DEF SoundState, ClientStates
  <2>2. w = [v EXCEPT !.dns = D, !.next = c]
    BY <1>5
  <2> HIDE DEF D, w
  <2> QED BY <1>3, <2>1, <2>2 DEF ClientStates
<1> HIDE DEF w
<1> QED BY <1>3, <1>4, <1>6 DEF GoodState, SoundState, SlotsFit, Kept, OwnSlot, w, Unfinished

LEMMA DnsResultGood ==
  ASSUME NEW name \in DomainNames, NEW addr \in ZoneAddrs \cup {Failed},
         addr # Failed => IsAddress(name, addr)
  PROVE  [op |-> "dns", name |-> name, addr |-> addr] \in ClientResults
BY DEF ClientResults, DnsResults

LEMMA DnsStartGood ==
  ASSUME NEW p \in Clients, NEW v, SoundState(p, v), Kept(v) = OtherSlots(p), NEW name \in DomainNames
  PROVE  LET w == dns_start(v, name) IN GoodState(p, w) /\ Unfinished(w.next)
<1> DEFINE u == [v EXCEPT !.slots = @ \cup {pair(v, "dns")}]
           r == [op |-> "dns", name |-> name, addr |-> Failed]
<1>1. r \in ClientResults
  BY DnsResultGood
<1> HIDE DEF r
<1>2. GoodState(p, returns(v, r)) /\ Unfinished(returns(v, r).next)
  BY <1>1, ReturnsGood
<1>3. SoundState(p, u) /\ Kept(u) = OtherSlots(p) \cup {[service |-> "dns", owner |-> p]}
  <2>1. pair(v, "dns") = [service |-> "dns", owner |-> p] /\ pair(v, "dns") \in AnySlots
    BY DEF pair, SoundState, OwnedSlots, AnySlots
  <2>2. /\ u \in ClientStates /\ u.p = v.p /\ u.data = v.data /\ u.dhcp = v.dhcp
        /\ u.slots = v.slots \cup {pair(v, "dns")}
    BY <2>1 DEF SoundState, ClientStates
  <2> HIDE DEF u
  <2>3. Kept(u) = Kept(v) \cup {[service |-> "dns", owner |-> p]}
    BY <2>1, <2>2, PairKept DEF Kept
  <2> QED BY <2>2, <2>3 DEF SoundState
<1> HIDE DEF u
<1>4. GoodState(p, dns_send(u, name, 1)) /\ Unfinished(dns_send(u, name, 1).next)
  BY <1>3, DnsSendGood
<1> QED BY <1>2, <1>4 DEF dns_start, u, r

\* A reply, or none in time.
LEMMA DnsNextStep ==
  ASSUME ClientInv, NEW p \in Clients, clients[p].op = "dns", NEW addr \in ZoneAddrs \cup {Failed},
         addr # Failed => IsAddress(clients[p].name, addr),
         clientstep(dns_next(ClientState(p), addr))
  PROVE  ClientInv'
<1>v. PICK v : v = ClientState(p)
  OBVIOUS
<1>1. GoodState(p, v) /\ v.next = clients[p]
  BY <1>v, ClientStateGood
<1>2. /\ v.next # Resting /\ v.next.op = "dns" /\ v.next \in ClientCalls
      /\ v.next.name \in DomainNames /\ v.next.i \in Nat
  BY <1>1, ClientKinds DEF GoodState, SoundState, ClientStates, DnsCalls
<1> DEFINE name == v.next.name
           n == v.next.i + 1
           r == [op |-> "dns", name |-> name, addr |-> addr]
           w == dns_next(v, addr)
<1>3. r \in ClientResults
  BY <1>1, <1>2, DnsResultGood
<1>4. SoundState(p, v) /\ Kept(v) = OtherSlots(p) \cup {[service |-> "dns", owner |-> p]}
  BY <1>1, <1>2 DEF GoodState, SlotsFit, Kept, OwnSlot
<1>5. name \in DomainNames /\ n \in Nat
  BY <1>2
<1>6. w = IF addr = Failed /\ v.next.i < DNSRETRY THEN dns_send(v, name, n)
          ELSE returns(released(v, "dns"), r)
  BY DEF dns_next
<1> HIDE DEF name, n, r, w
<1>7. GoodState(p, dns_send(v, name, n)) /\ Unfinished(dns_send(v, name, n).next)
  BY <1>4, <1>5, DnsSendGood
<1>8. SoundState(p, released(v, "dns")) /\ Kept(released(v, "dns")) = OtherSlots(p)
  BY <1>1, <1>2, ReleasedGood
<1>9. GoodState(p, returns(released(v, "dns"), r)) /\ Unfinished(returns(released(v, "dns"), r).next)
  BY <1>3, <1>8, ReturnsGood
<1>10. GoodState(p, w) /\ Unfinished(w.next) /\ clientstep(w)
  BY <1>6, <1>7, <1>9, <1>v DEF w
<1> QED BY <1>10, ClientStepInv

-----------------------------------------------------------------------------
(* getlocalip()                                                            *)

\* v in another call c, with datagrams D to and from DHCP.
LEMMA DhcpChanged ==
  ASSUME NEW p \in Clients, NEW v, SoundState(p, v), NEW c \in DhcpCalls,
         NEW D \in SUBSET DhcpMsgs, Acknowledged(D),
         Kept(v) = OtherSlots(p) \cup {[service |-> "dhcp", owner |-> p]}
  PROVE  LET w == [v EXCEPT !.dhcp = D, !.next = c] IN GoodState(p, w) /\ Unfinished(w.next)
<1> DEFINE w == [v EXCEPT !.dhcp = D, !.next = c]
<1>1. c \in ClientCalls /\ c.op = "dhcp"
  BY DEF ClientCalls, DhcpCalls
<1>2. c # Resting /\ c \notin TftpCalls
  BY <1>1, ClientKinds DEF TftpCalls
<1>3. /\ w \in ClientStates /\ w.p = v.p /\ w.data = v.data /\ w.dhcp = D /\ w.slots = v.slots
      /\ w.next = c
  BY <1>1 DEF SoundState, ClientStates
<1> HIDE DEF w
<1> QED BY <1>1, <1>2, <1>3 DEF GoodState, SoundState, SlotsFit, Kept, OwnSlot, w, Unfinished

LEMMA DhcpFailedGood ==
  ASSUME NEW p \in Clients, NEW v, SoundState(p, v), Kept(v) = OtherSlots(p), NEW name \in Purposes
  PROVE  LET w == dhcp_failed(v, name) IN GoodState(p, w) /\ Unfinished(w.next)
<1> DEFINE r == [op |-> IF name = NoName THEN "dhcp" ELSE "dns", name |-> name, addr |-> Failed]
<1>1. r \in ClientResults
  <2>1. CASE name = NoName
    BY <2>1 DEF ClientResults, DhcpResults
  <2>2. CASE name # NoName
    <3>1. name \in DomainNames
      BY <2>2 DEF Purposes
    <3> QED BY <2>2, <3>1, DnsResultGood
  <2> QED BY <2>1, <2>2
<1> HIDE DEF r
<1> QED BY <1>1, ReturnsGood DEF dhcp_failed, r

LEMMA DhcpReturnGood ==
  ASSUME NEW p \in Clients, NEW v, SoundState(p, v), Kept(v) = OtherSlots(p), NEW name \in Purposes,
         NEW addr \in DhcpServers
  PROVE  LET w == dhcp_return(v, name, addr) IN GoodState(p, w) /\ Unfinished(w.next)
<1>1. CASE name # NoName
  <2>1. name \in DomainNames
    BY <1>1 DEF Purposes
  <2> QED BY <1>1, <2>1, DnsStartGood DEF dhcp_return
<1>2. CASE name = NoName
  <2> DEFINE r == [op |-> "dhcp", name |-> name, addr |-> addr]
  <2>1. r \in ClientResults
    BY <1>2 DEF ClientResults, DhcpResults, Leasable
  <2> HIDE DEF r
  <2> QED BY <1>2, <2>1, ReturnsGood DEF dhcp_return, r
<1> QED BY <1>1, <1>2

LEMMA DhcpCallFields ==
  ASSUME NEW c \in DhcpCalls
  PROVE  /\ c.op = "dhcp" /\ c.name \in Purposes /\ c.out \in DhcpSent /\ c.i \in Nat /\ c.j \in Nat
         /\ [c EXCEPT !.j = @ + 1] \in DhcpCalls /\ [c EXCEPT !.j = 1, !.i = @ + 1] \in DhcpCalls
         /\ \A m \in DhcpSent : [c EXCEPT !.out = m] \in DhcpCalls
<1>1. c.op = "dhcp" /\ c.name \in Purposes /\ c.out \in DhcpSent /\ c.i \in Nat /\ c.j \in Nat
  BY DEF DhcpCalls
<1>2. \A m \in DhcpSent : [c EXCEPT !.out = m] \in DhcpCalls
  BY DEF DhcpCalls
<1>3. PICK i \in Nat, j \in Nat : i = c.i + 1 /\ j = c.j + 1
  BY <1>1
<1>4. [c EXCEPT !.j = j] \in DhcpCalls /\ [c EXCEPT !.j = 1, !.i = i] \in DhcpCalls
  BY DEF DhcpCalls
<1>5. /\ [c EXCEPT !.j = @ + 1] = [c EXCEPT !.j = j]
      /\ [c EXCEPT !.j = 1, !.i = @ + 1] = [c EXCEPT !.j = 1, !.i = i]
  BY <1>3 DEF DhcpCalls
<1> QED BY <1>1, <1>2, <1>4, <1>5

LEMMA DhcpContinueGood ==
  ASSUME ClientInv, NEW p \in Clients, NEW v, GoodState(p, v), v.next \in DhcpCalls
  PROVE  LET w == dhcp_continue(v) IN GoodState(p, w) /\ Unfinished(w.next)
<1>c. PICK c \in DhcpCalls : c = v.next
  OBVIOUS
<1>1. /\ v \in ClientStates /\ SoundState(p, v) /\ c.op = "dhcp" /\ c \in ClientCalls /\ c # Resting
      /\ v.dhcp \in SUBSET DhcpMsgs /\ Acknowledged(v.dhcp)
      /\ Kept(v) = OtherSlots(p) \cup {[service |-> "dhcp", owner |-> p]}
  <2>1. c.op = "dhcp" /\ c \in ClientCalls
    BY <1>c, DhcpCallFields DEF ClientCalls
  <2>2. c # Resting
    BY <2>1, ClientKinds
  <2> QED BY <1>c, <2>1, <2>2 DEF GoodState, SoundState, ClientStates, SlotsFit, Kept, OwnSlot
<1>2. CASE c.j < 3
  <2>1. PICK d \in DhcpCalls : d = [c EXCEPT !.j = @ + 1]
    BY DhcpCallFields
  <2>2. dhcp_continue(v) = [v EXCEPT !.dhcp = v.dhcp, !.next = d]
    BY <1>c, <1>1, <1>2, <2>1 DEF dhcp_continue, ClientStates
  <2>3. LET w == [v EXCEPT !.dhcp = v.dhcp, !.next = d] IN GoodState(p, w) /\ Unfinished(w.next)
    BY <1>1, DhcpChanged
  <2> QED BY <2>2, <2>3
<1>3. CASE ~(c.j < 3) /\ c.i < DHCP_RETRY
  <2>d. PICK d \in DhcpCalls : d = [c EXCEPT !.j = 1, !.i = @ + 1]
    BY DhcpCallFields
  <2>1. d.out = c.out /\ c.out \in DhcpSent
    BY <2>d, DhcpCallFields DEF DhcpCalls
  <2>e. PICK e \in DhcpCalls : e = [d EXCEPT !.out = c.out]
    BY <2>1, DhcpCallFields
  <2>D. PICK D : D = v.dhcp \cup {c.out}
    OBVIOUS
  <2>2. D \in SUBSET DhcpMsgs /\ Acknowledged(D)
    <3>1. c.out \in DhcpMsgs /\ c.out.kind # "ack"
      BY <2>1 DEF DhcpMsgs, DhcpSent
    <3> QED BY <1>1, <2>D, <3>1 DEF Acknowledged
  <2>3. dhcp_continue(v) = [v EXCEPT !.dhcp = D, !.next = e]
    <3>1. v.next = c /\ v.next.i = c.i /\ v.next.j = c.j /\ v.next.out = c.out
      BY <1>c
    <3>2. dhcp_continue(v) = dhcp_send([v EXCEPT !.next.j = 1, !.next.i = @ + 1], c.out)
      BY <1>3, <3>1 DEF dhcp_continue
    <3>3. [v EXCEPT !.next.j = 1, !.next.i = @ + 1] = [v EXCEPT !.next = d]
      BY <1>1, <1>c, <2>d, ZenonT(30) DEF ClientStates
    <3>4. PICK w : w = [v EXCEPT !.next = d]
      OBVIOUS
    <3>6. dhcp_send(w, c.out) = [w EXCEPT !.dhcp = @ \cup {c.out}, !.next.out = c.out]
      BY Zenon DEF dhcp_send
    <3>7. w.next = d /\ w.dhcp = v.dhcp
      BY <1>1, <3>4 DEF ClientStates
    <3>8. [w EXCEPT !.dhcp = @ \cup {c.out}, !.next.out = c.out] = [w EXCEPT !.dhcp = D, !.next = e]
      BY <1>1, <2>D, <2>e, <3>4, <3>7 DEF ClientStates
    <3>9. [w EXCEPT !.dhcp = D, !.next = e] = [v EXCEPT !.dhcp = D, !.next = e]
      BY <1>1, <3>4 DEF ClientStates
    <3> QED BY <3>2, <3>3, <3>4, <3>6, <3>8, <3>9, Zenon
  <2>4. LET w == [v EXCEPT !.dhcp = D, !.next = e] IN GoodState(p, w) /\ Unfinished(w.next)
    BY <1>1, <2>2, DhcpChanged
  <2> QED BY <2>3, <2>4
<1>4. CASE ~(c.j < 3) /\ ~(c.i < DHCP_RETRY)
  <2>1. SoundState(p, released(v, "dhcp")) /\ Kept(released(v, "dhcp")) = OtherSlots(p)
    BY <1>c, <1>1, ReleasedGood
  <2>2. c.name \in Purposes
    BY DhcpCallFields
  <2>3. dhcp_continue(v) = dhcp_failed(released(v, "dhcp"), c.name)
    BY <1>c, <1>4 DEF dhcp_continue
  <2> QED BY <2>1, <2>2, <2>3, DhcpFailedGood
<1> QED BY <1>2, <1>3, <1>4

LEMMA GetlocalipStep ==
  ASSUME ClientInv, NEW p \in Clients, NEW name \in Purposes, getlocalip(p, name)
  PROVE  ClientInv'
<1>v. PICK v : v = ClientState(p)
  OBVIOUS
<1>1. GoodState(p, v) /\ v.next = Resting
  BY <1>v, ClientStateGood DEF getlocalip
<1>2. SoundState(p, v) /\ Kept(v) = OtherSlots(p)
  BY <1>1 DEF GoodState, SlotsFit, Kept, OwnSlot
<1>3. CASE ~registers(v, "dhcp")
  <2>1. clientstep(dhcp_failed(v, name))
    BY <1>3, <1>v DEF getlocalip
  <2> QED BY <1>2, <2>1, DhcpFailedGood, ClientStepInv
<1>4. CASE registers(v, "dhcp")
  <2> DEFINE c == [op |-> "dhcp", name |-> name, out |-> Discover, i |-> 1, j |-> 1]
             u == [v EXCEPT !.slots = @ \cup {pair(v, "dhcp")}, !.next = c]
             D == v.dhcp \cup {Discover}
  <2>1. clientstep(dhcp_send(u, Discover))
    BY <1>4, <1>v DEF getlocalip
  <2>2. Discover \in DhcpSent /\ Discover.kind # "ack" /\ Discover \in DhcpMsgs
    BY DEF Discover, DhcpSent, Leasable, DhcpMsgs
  <2>3. c \in DhcpCalls /\ c \in ClientCalls /\ [c EXCEPT !.out = Discover] \in DhcpCalls
    BY <2>2 DEF DhcpCalls, ClientCalls
  <2>4. D \in SUBSET DhcpMsgs /\ Acknowledged(D)
    BY <1>2, <2>2 DEF SoundState, ClientStates, Acknowledged
  <2> HIDE DEF c, D
  <2>5. pair(v, "dhcp") = [service |-> "dhcp", owner |-> p] /\ pair(v, "dhcp") \in AnySlots
    BY <1>2 DEF pair, SoundState, OwnedSlots, AnySlots
  <2>6. /\ u \in ClientStates /\ u.p = v.p /\ u.data = v.data /\ u.dhcp = v.dhcp /\ u.next = c
        /\ u.slots = v.slots \cup {pair(v, "dhcp")}
    BY <1>2, <2>3, <2>5 DEF SoundState, ClientStates
  <2>7. dhcp_send(u, Discover) = [u EXCEPT !.dhcp = D, !.next = [c EXCEPT !.out = Discover]]
    <3> HIDE DEF u
    <3> QED BY <2>6 DEF dhcp_send, ClientStates, D
  <2> HIDE DEF u
  <2>8. SoundState(p, u) /\ Kept(u) = OtherSlots(p) \cup {[service |-> "dhcp", owner |-> p]}
    <3>1. Kept(u) = Kept(v) \cup {[service |-> "dhcp", owner |-> p]}
      BY <2>5, <2>6, PairKept DEF Kept
    <3> QED BY <1>2, <2>6, <3>1 DEF SoundState
  <2> DEFINE w == dhcp_send(u, Discover)
  <2>d. PICK d \in DhcpCalls : d = [c EXCEPT !.out = Discover]
    BY <2>3
  <2>10. LET x == [u EXCEPT !.dhcp = D, !.next = d] IN GoodState(p, x) /\ Unfinished(x.next)
    BY <2>4, <2>8, DhcpChanged
  <2>9. GoodState(p, w) /\ Unfinished(w.next)
    BY <2>7, <2>d, <2>10
  <2> HIDE DEF w
  <2> QED BY <2>1, <2>9, ClientStepInv DEF w
<1> QED BY <1>3, <1>4

LEMMA DhcpTimeoutStep ==
  ASSUME ClientInv, NEW p \in Clients, dhcp_timeout(p)
  PROVE  ClientInv'
<1>v. PICK v : v = ClientState(p)
  OBVIOUS
<1>1. GoodState(p, v) /\ v.next = clients[p] /\ v.next.op = "dhcp" /\ clientstep(dhcp_continue(v))
  BY <1>v, ClientStateGood DEF dhcp_timeout
<1>2. v.next \in DhcpCalls
  BY <1>1, ClientKinds DEF ClientInv
<1> QED BY <1>1, <1>2, DhcpContinueGood, ClientStepInv

LEMMA DhcpErrorStep ==
  ASSUME ClientInv, NEW p \in Clients, dhcp_error(p)
  PROVE  ClientInv'
<1>v. PICK v : v = ClientState(p)
  OBVIOUS
<1>1. /\ GoodState(p, v) /\ v.next = clients[p] /\ v.next.op = "dhcp"
      /\ clientstep(dhcp_failed(left(v, "dhcp"), v.next.name))
  BY <1>v, ClientStateGood DEF dhcp_error
<1>2. v.next \in DhcpCalls /\ v.next # Resting
  BY <1>1, ClientKinds DEF ClientInv
<1>3. v.next.name \in Purposes
  BY <1>2, DhcpCallFields
<1>4. SoundState(p, left(v, "dhcp")) /\ Kept(left(v, "dhcp")) = OtherSlots(p)
  BY <1>1, <1>2, LeftGood
<1> QED BY <1>1, <1>3, <1>4, DhcpFailedGood, ClientStepInv

LEMMA DhcpReceiveStep ==
  ASSUME ClientInv, NEW p \in Clients, NEW m \in dhcpwire, dhcp_receive(p, m)
  PROVE  ClientInv'
<1>v. PICK v : v = ClientState(p)
  OBVIOUS
<1>1. GoodState(p, v) /\ v.next = clients[p] /\ v.next.op = "dhcp" /\ v.next \in ClientCalls
  BY <1>v, ClientStateGood DEF dhcp_receive, ClientInv
<1>c. PICK c \in DhcpCalls : c = v.next
  BY <1>1, ClientKinds
<1>2. /\ m.kind \in {"offer", "ack", "nak"} /\ m.server \in DhcpServers \cup {NoServer}
      /\ m.yip \in DhcpServers
      /\ m.dns \in BOOLEAN /\ (m.kind = "ack" => m.yip \in leases)
  <2>1. m \in DhcpReplies
    BY DEF ClientInv, dhcp_receive, DhcpMsgs, DhcpSent
  <2> QED BY <2>1 DEF DhcpReplies, ClientInv, Acknowledged
<1>4. /\ SoundState(p, v) /\ v \in ClientStates /\ v.next # Resting
      /\ c.name \in Purposes /\ c.op = "dhcp"
      /\ Kept(v) = OtherSlots(p) \cup {[service |-> "dhcp", owner |-> p]}
  BY <1>1, <1>c, ClientKinds, DhcpCallFields DEF GoodState, SoundState, SlotsFit, Kept, OwnSlot
<1>3. CASE m.kind = "offer" /\ m.server = NoServer
  <2>1. clientstep(dhcp_failed(left(v, "dhcp"), c.name))
    BY <1>1, <1>3, <1>c, <1>v DEF dhcp_receive
  <2>2. SoundState(p, left(v, "dhcp")) /\ Kept(left(v, "dhcp")) = OtherSlots(p)
    BY <1>1, <1>4, LeftGood
  <2> QED BY <1>4, <2>1, <2>2, DhcpFailedGood, ClientStepInv
<1>5. CASE m.kind = "offer" /\ m.server # NoServer
  <2> DEFINE r == [kind |-> "request", server |-> m.server, yip |-> m.yip]
             u == dhcp_send(v, r)
             D == v.dhcp \cup {r}
  <2>1. clientstep(dhcp_continue(u))
    BY <1>5, <1>v DEF dhcp_receive
  <2>2. r \in DhcpSent /\ r.kind # "ack" /\ r \in DhcpMsgs
    BY <1>2, <1>5 DEF DhcpSent, DhcpMsgs, Leasable
  <2> HIDE DEF r
  <2>3. D \in SUBSET DhcpMsgs /\ Acknowledged(D) /\ [c EXCEPT !.out = r] \in DhcpCalls
    BY <1>4, <2>2, DhcpCallFields DEF SoundState, ClientStates, Acknowledged
  <2>4. u = [v EXCEPT !.dhcp = D, !.next = [c EXCEPT !.out = r]]
    BY <1>4, <1>c DEF dhcp_send, ClientStates
  <2>5. u.next = [c EXCEPT !.out = r]
    BY <1>4, <2>4 DEF ClientStates
  <2> HIDE DEF u, D
  <2>d. PICK d \in DhcpCalls : d = [c EXCEPT !.out = r]
    BY <2>3
  <2>7. LET x == [v EXCEPT !.dhcp = D, !.next = d] IN GoodState(p, x)
    BY <1>4, <2>3, DhcpChanged
  <2>6. GoodState(p, u)
    BY <2>4, <2>d, <2>7
  <2> QED BY <2>1, <2>3, <2>5, <2>6, DhcpContinueGood, ClientStepInv
<1>6. CASE m.kind = "nak"
  <2>1. clientstep(dhcp_continue(v))
    BY <1>6, <1>v DEF dhcp_receive
  <2> QED BY <1>1, <1>c, <2>1, DhcpContinueGood, ClientStepInv
<1>7. CASE m.kind = "ack"
  <2> DEFINE data == [v.data EXCEPT !.ipucast = m.yip, !.dnsserver = @ \/ m.dns]
             u == [v EXCEPT !.data.ipucast = m.yip, !.data.dnsserver = @ \/ m.dns]
             w == released(u, "dhcp")
  <2>1. clientstep(dhcp_return(w, c.name, m.yip))
    BY <1>7, <1>c, <1>v, <1>1 DEF dhcp_receive
  <2>2. data \in HostData /\ GrantedAddr(data)
    <3>1. \A x, y \in BOOLEAN : (x \/ y) \in BOOLEAN
      OBVIOUS
    <3>2. v.data \in HostData
      BY <1>4 DEF ClientStates
    <3> QED BY <1>2, <1>7, <3>1, <3>2 DEF HostData, Leasable, GrantedAddr
  <2>3. u = [v EXCEPT !.data = data]
    BY <1>4 DEF ClientStates
  <2> HIDE DEF data, u
  <2>4. /\ u \in ClientStates /\ u.p = v.p /\ u.data = data /\ u.dhcp = v.dhcp /\ u.next = v.next
        /\ u.slots = v.slots
    BY <1>4, <2>2, <2>3 DEF ClientStates
  <2>5. GoodState(p, u) /\ u.next # Resting /\ u.next.op = "dhcp"
    BY <1>1, <1>4, <2>2, <2>4 DEF GoodState, SoundState, SlotsFit, Kept
  <2>6. SoundState(p, w) /\ Kept(w) = OtherSlots(p)
    BY <2>5, ReleasedGood
  <2> HIDE DEF w
  <2> QED BY <1>2, <1>4, <2>1, <2>6, DhcpReturnGood, ClientStepInv
<1> QED BY <1>2, <1>3, <1>5, <1>6, <1>7

LEMMA DnsReceiveStep ==
  ASSUME ClientInv, NEW p \in Clients, NEW m \in dnswire, dns_receive(p, m)
  PROVE  ClientInv'
<1>1. clients[p].op = "dns" /\ m.to = "client" /\ m \in DnsMsgs
  BY DEF dns_receive, ClientInv
<1>2. clients[p].name \in DomainNames
  <2>1. clients[p] \in DnsCalls
    BY <1>1, ClientKinds DEF ClientInv
  <2> QED BY <2>1 DEF DnsCalls
<1>3. PICK addr : addr = dns_geta(clients[p].name, m.answers)
  OBVIOUS
<1>4. addr \in ZoneAddrs \cup {Failed} /\ (addr # Failed => IsAddress(clients[p].name, addr))
  BY <1>1, <1>2, <1>3, AddressFound
<1>5. clientstep(dns_next(ClientState(p), addr))
  BY <1>3 DEF dns_receive
<1> QED BY <1>1, <1>4, <1>5, DnsNextStep

LEMMA DnsTimeoutStep ==
  ASSUME ClientInv, NEW p \in Clients, dns_timeout(p)
  PROVE  ClientInv'
<1>1. Failed \in ZoneAddrs \cup {Failed}
  OBVIOUS
<1> QED BY <1>1, DnsNextStep DEF dns_timeout

-----------------------------------------------------------------------------
(* tftpget()                                                               *)

LEMMA FileHasBlocks == TftpBlocks \in Nat /\ 1 <= TftpBlocks
<1>1. TftpBlocks \in Nat \ {0}
  BY NetClientAssumption
<1> QED BY <1>1

LEMMA TftpCallFields ==
  ASSUME NEW c \in TftpCalls
  PROVE  /\ c.op = "tftp" /\ c.expected \in Nat \ {0} /\ c.remport \in Nat /\ c.i \in Nat
         /\ c.got \in Seq(Nat) /\ InOrder(c.got) /\ c.expected = Len(c.got) + 1
         /\ c \in ClientCalls /\ c # Resting
         /\ \A r \in Nat : [c EXCEPT !.remport = r] \in TftpCalls
         /\ \A i \in Nat : [c EXCEPT !.i = i] \in TftpCalls
<1>1. /\ c.op = "tftp" /\ c.expected \in Nat /\ c.remport \in Nat /\ c.i \in Nat
      /\ c.got \in Seq(Nat) /\ InOrder(c.got) /\ c.expected = Len(c.got) + 1
  BY DEF TftpCalls
<1>2. c.expected # 0
  BY <1>1, LenProperties
<1>3. c \in ClientCalls /\ c # Resting
  BY <1>1, ClientKinds DEF ClientCalls
<1>4. \A r \in Nat : [c EXCEPT !.remport = r] \in TftpCalls
  BY DEF TftpCalls
<1>5. \A i \in Nat : [c EXCEPT !.i = i] \in TftpCalls
  BY DEF TftpCalls
<1> QED BY <1>1, <1>2, <1>3, <1>4, <1>5

\* v in another call c, or with other datagrams to and from the TFTP server.
LEMMA TftpChanged ==
  ASSUME NEW p \in Clients, NEW v, SoundState(p, v),
         Kept(v) = OtherSlots(p) \cup {[service |-> "tftp", owner |-> p]},
         NEW w \in ClientStates, w.p = v.p, w.data = v.data, w.dhcp = v.dhcp, w.slots = v.slots,
         w.next \in TftpCalls
  PROVE  GoodState(p, w)
<1>1. w.next.op = "tftp" /\ w.next # Resting
  BY TftpCallFields
<1> QED BY <1>1 DEF GoodState, SoundState, SlotsFit, Kept, OwnSlot

LEMMA TftpWithCall ==
  ASSUME NEW p \in Clients, NEW v, GoodState(p, v), v.next \in TftpCalls, NEW c \in TftpCalls
  PROVE  LET w == [v EXCEPT !.next = c]
         IN  /\ GoodState(p, w) /\ w.next = c
             /\ Kept(w) = OtherSlots(p) \cup {[service |-> "tftp", owner |-> p]}
<1>1. /\ SoundState(p, v) /\ v \in ClientStates /\ v.next # Resting /\ v.next.op = "tftp"
      /\ c \in ClientCalls
  BY TftpCallFields DEF GoodState, SoundState
<1>2. Kept(v) = OtherSlots(p) \cup {[service |-> "tftp", owner |-> p]}
  BY <1>1 DEF GoodState, SlotsFit, Kept, OwnSlot
<1>3. PICK w : w = [v EXCEPT !.next = c]
  OBVIOUS
<1>4. /\ w \in ClientStates /\ w.p = v.p /\ w.data = v.data /\ w.dhcp = v.dhcp /\ w.slots = v.slots
      /\ w.next = c
  BY <1>1, <1>3 DEF ClientStates
<1>5. GoodState(p, w)
  BY <1>1, <1>2, <1>4, TftpChanged
<1> QED BY <1>2, <1>3, <1>4, <1>5 DEF Kept

\* What tftp_send() adds to the datagrams.
TftpSent(v) ==
  v.tftp \cup {[to |-> "server", who |-> v.p, port |-> v.next.remport,
                kind |-> IF v.next.expected = 1 THEN "rrq" ELSE "ack",
                blk |-> v.next.expected - 1, last |-> FALSE]}

LEMMA TftpSentGood ==
  ASSUME NEW p \in Clients, NEW v, SoundState(p, v), v.next \in TftpCalls
  PROVE  /\ TftpSent(v) \in SUBSET TftpMsgs
         /\ tftp_send(v) = [v EXCEPT !.tftp = TftpSent(v), !.next = v.next]
<1>1. v \in ClientStates /\ v.p = p
  BY DEF SoundState
<1>2. PICK b \in Nat : b = v.next.expected - 1
  BY TftpCallFields
<1>3. PICK k \in {"rrq", "ack"} : k = IF v.next.expected = 1 THEN "rrq" ELSE "ack"
  OBVIOUS
<1>4. PICK r \in Nat : r = v.next.remport
  BY TftpCallFields
<1>5. [to |-> "server", who |-> p, port |-> r, kind |-> k, blk |-> b, last |-> FALSE] \in TftpMsgs
  BY DEF TftpMsgs
<1>6. v.tftp \in SUBSET TftpMsgs
  BY <1>1 DEF ClientStates
<1>7. TftpSent(v) \in SUBSET TftpMsgs
  BY <1>1, <1>2, <1>3, <1>4, <1>5, <1>6 DEF TftpSent
<1>8. tftp_send(v) = [v EXCEPT !.tftp = TftpSent(v)]
  BY DEF tftp_send, TftpSent
<1>9. [v EXCEPT !.tftp = TftpSent(v)] = [v EXCEPT !.tftp = TftpSent(v), !.next = v.next]
  <2>1. PICK D : D = TftpSent(v)
    OBVIOUS
  <2>2. [v EXCEPT !.tftp = D] = [v EXCEPT !.tftp = D, !.next = v.next]
    BY <1>1 DEF ClientStates
  <2> QED BY <2>1, <2>2
<1> QED BY <1>7, <1>8, <1>9

LEMMA TftpSendGood ==
  ASSUME NEW p \in Clients, NEW v, SoundState(p, v), NEW c \in TftpCalls, v.next = c,
         Kept(v) = OtherSlots(p) \cup {[service |-> "tftp", owner |-> p]}
  PROVE  GoodState(p, tftp_send(v)) /\ tftp_send(v).next = c
<1>1. PICK D \in SUBSET TftpMsgs : D = TftpSent(v)
  BY TftpSentGood
<1>2. PICK w : w = tftp_send(v)
  OBVIOUS
<1>3. w = [v EXCEPT !.tftp = D, !.next = c]
  BY <1>1, <1>2, TftpSentGood
<1>4. v \in ClientStates /\ c \in ClientCalls
  BY TftpCallFields DEF SoundState
<1>5. /\ w \in ClientStates /\ w.p = v.p /\ w.data = v.data /\ w.dhcp = v.dhcp /\ w.slots = v.slots
      /\ w.next = c
  BY <1>3, <1>4 DEF ClientStates
<1>6. GoodState(p, w)
  BY <1>5, TftpChanged
<1> QED BY <1>2, <1>5, <1>6

\* A transfer that ends, with the whole file or with nothing.
LEMMA TftpReturnsGood ==
  ASSUME ClientInv, NEW p \in Clients, NEW v, GoodState(p, v), v.next \in TftpCalls,
         NEW got \in Seq(Int),
         got # NoData => Len(got) = TftpBlocks /\ InOrder(got)
  PROVE  GoodState(p, tftp_returns(v, got)) /\ Unfinished(tftp_returns(v, got).next)
<1> DEFINE r == [op |-> "tftp", got |-> got]
<1>1. r \in ClientResults
  BY DEF ClientResults, TftpResults
<1>2. v.next # Resting /\ v.next.op = "tftp"
  BY TftpCallFields
<1>3. SoundState(p, released(v, "tftp")) /\ Kept(released(v, "tftp")) = OtherSlots(p)
  BY <1>2, ReleasedGood
<1> HIDE DEF r
<1> QED BY <1>1, <1>3, ReturnsGood DEF tftp_returns, r

\* What tftpget() returns when it fails.
LEMMA NoDataGood == NoData \in Seq(Int)
BY DEF NoData

LEMMA TftpgetStep ==
  ASSUME ClientInv, NEW p \in Clients, tftpget(p)
  PROVE  ClientInv'
<1>v. PICK v : v = ClientState(p)
  OBVIOUS
<1>1. GoodState(p, v) /\ v.next = Resting
  BY <1>v, ClientStateGood DEF tftpget
<1>2. SoundState(p, v) /\ Kept(v) = OtherSlots(p)
  BY <1>1 DEF GoodState, SlotsFit, Kept, OwnSlot
<1>3. CASE ~registers(v, "tftp")
  <2> DEFINE r == [op |-> "tftp", got |-> NoData]
  <2>1. r \in ClientResults
    BY NoDataGood DEF ClientResults, TftpResults
  <2>2. clientstep(returns(v, r))
    BY <1>3, <1>v DEF tftpget
  <2> HIDE DEF r
  <2> QED BY <1>2, <2>1, <2>2, ReturnsGood, ClientStepInv
<1>4. CASE registers(v, "tftp")
  <2> DEFINE c == [op |-> "tftp", expected |-> 1, remport |-> 0, i |-> 1, got |-> <<>>]
             u == [v EXCEPT !.slots = @ \cup {pair(v, "tftp")}, !.next = c]
  <2>1. clientstep(tftp_send(u))
    BY <1>4, <1>v DEF tftpget
  <2>2. c \in TftpCalls /\ Unfinished(c)
    <3>1. <<>> \in Seq(Nat) /\ Len(<<>>) = 0
      OBVIOUS
    <3>2. c \in [op : {"tftp"}, expected : Nat, remport : Nat, i : Nat, got : Seq(Nat)]
      BY <3>1
    <3>3. InOrder(c.got)
      BY <3>1 DEF InOrder
    <3>4. c \in TftpCalls
      BY <3>1, <3>2, <3>3 DEF TftpCalls
    <3>5. c.expected <= TftpBlocks
      BY FileHasBlocks
    <3> QED BY <3>4, <3>5 DEF Unfinished
  <2> HIDE DEF c
  <2>3. pair(v, "tftp") = [service |-> "tftp", owner |-> p] /\ pair(v, "tftp") \in AnySlots
    BY <1>2 DEF pair, SoundState, OwnedSlots, AnySlots
  <2>4. c \in ClientCalls
    BY <2>2, TftpCallFields
  <2>5. /\ u \in ClientStates /\ u.p = v.p /\ u.data = v.data /\ u.dhcp = v.dhcp /\ u.next = c
        /\ u.slots = v.slots \cup {pair(v, "tftp")}
    BY <1>2, <2>3, <2>4 DEF SoundState, ClientStates
  <2> HIDE DEF u
  <2>6. SoundState(p, u) /\ Kept(u) = OtherSlots(p) \cup {[service |-> "tftp", owner |-> p]}
    <3>1. Kept(u) = Kept(v) \cup {[service |-> "tftp", owner |-> p]}
      BY <2>3, <2>5, PairKept DEF Kept
    <3> QED BY <1>2, <2>5, <3>1 DEF SoundState
  <2>7. GoodState(p, tftp_send(u)) /\ tftp_send(u).next = c
    BY <2>2, <2>5, <2>6, TftpSendGood
  <2> QED BY <2>1, <2>2, <2>7, ClientStepInv
<1> QED BY <1>3, <1>4

LEMMA TftpTimeoutStep ==
  ASSUME ClientInv, NEW p \in Clients, tftp_timeout(p)
  PROVE  ClientInv'
<1>v. PICK v : v = ClientState(p)
  OBVIOUS
<1>1. GoodState(p, v) /\ v.next = clients[p] /\ v.next.op = "tftp" /\ Unfinished(v.next)
  BY <1>v, ClientStateGood DEF tftp_timeout, ClientInv
<1>c. PICK c \in TftpCalls : c = v.next
  BY <1>1, ClientKinds DEF ClientInv
<1>2. CASE v.next.i < TFTP_MAXRETRIES
  <2> DEFINE u == [v EXCEPT !.next.i = @ + 1]
  <2>1. clientstep(tftp_send(u))
    BY <1>2, <1>v DEF tftp_timeout
  <2>2. PICK i \in Nat : i = c.i + 1
    BY TftpCallFields
  <2>3. PICK d \in TftpCalls : d = [c EXCEPT !.i = i]
    BY TftpCallFields
  <2>4. u = [v EXCEPT !.next = d]
    BY <1>1, <1>c, <2>2, <2>3 DEF GoodState, SoundState, ClientStates
  <2>5. /\ GoodState(p, u) /\ u.next = d
        /\ Kept(u) = OtherSlots(p) \cup {[service |-> "tftp", owner |-> p]}
    <3> HIDE DEF u
    <3> QED BY <1>1, <1>c, <2>4, TftpWithCall
  <2> HIDE DEF u
  <2>6. GoodState(p, tftp_send(u)) /\ tftp_send(u).next = d
    BY <2>5, TftpSendGood DEF GoodState
  <2>7. Unfinished(d)
    BY <1>1, <1>c, <2>3 DEF Unfinished, TftpCalls
  <2> QED BY <2>1, <2>6, <2>7, ClientStepInv
<1>3. CASE ~(v.next.i < TFTP_MAXRETRIES)
  <2>1. clientstep(tftp_returns(v, NoData))
    BY <1>3, <1>v DEF tftp_timeout
  <2> QED BY <1>1, <1>c, <2>1, NoDataGood, TftpReturnsGood, ClientStepInv
<1> QED BY <1>2, <1>3

LEMMA TftpErrorStep ==
  ASSUME ClientInv, NEW p \in Clients, tftp_error(p)
  PROVE  ClientInv'
<1>v. PICK v : v = ClientState(p)
  OBVIOUS
<1>1. /\ GoodState(p, v) /\ v.next = clients[p] /\ v.next.op = "tftp"
      /\ clientstep(tftp_returns(v, NoData))
  BY <1>v, ClientStateGood DEF tftp_error
<1>2. v.next \in TftpCalls
  BY <1>1, ClientKinds DEF ClientInv
<1> QED BY <1>1, <1>2, NoDataGood, TftpReturnsGood, ClientStepInv

\* The expected block is stored.
LEMMA BlockStored ==
  ASSUME NEW c \in TftpCalls
  PROVE  LET d == [c EXCEPT !.got = Append(@, c.expected), !.expected = @ + 1, !.i = 1]
         IN  d \in TftpCalls /\ d.expected = c.expected + 1 /\ Len(d.got) = c.expected
<1>1. PICK g : g = Append(c.got, c.expected)
  OBVIOUS
<1>2. PICK e \in Nat : e = c.expected + 1
  BY TftpCallFields
<1>3. c.got \in Seq(Nat) /\ c.expected \in Nat /\ Len(c.got) \in Nat /\ Len(c.got) + 1 = c.expected
  BY TftpCallFields, LenProperties
<1>4. g \in Seq(Nat) /\ Len(g) = c.expected
  BY <1>1, <1>3, AppendProperties
<1>5. InOrder(g)
  <2>1. \A b \in 1..Len(c.got) : g[b] = b
    BY <1>1, <1>3, AppendProperties, TftpCallFields DEF InOrder
  <2>2. g[c.expected] = c.expected
    BY <1>1, <1>3, AppendProperties
  <2> QED BY <1>3, <1>4, <2>1, <2>2 DEF InOrder
<1>6. [c EXCEPT !.got = g, !.expected = e, !.i = 1] \in TftpCalls
  BY <1>2, <1>4, <1>5 DEF TftpCalls
<1>7. [c EXCEPT !.got = Append(@, c.expected), !.expected = @ + 1, !.i = 1]
        = [c EXCEPT !.got = g, !.expected = e, !.i = 1]
  BY <1>1, <1>2 DEF TftpCalls
<1>8. /\ [c EXCEPT !.got = g, !.expected = e, !.i = 1].got = g
      /\ [c EXCEPT !.got = g, !.expected = e, !.i = 1].expected = e
  BY DEF TftpCalls
<1> QED BY <1>2, <1>4, <1>6, <1>7, <1>8

LEMMA TftpReceiveStep ==
  ASSUME ClientInv, NEW p \in Clients, NEW m \in tftpwire, tftp_receive(p, m)
  PROVE  ClientInv'
<1>v. PICK v : v = ClientState(p)
  OBVIOUS
<1>1. GoodState(p, v) /\ v.next = clients[p] /\ v.next.op = "tftp" /\ Unfinished(v.next)
  BY <1>v, ClientStateGood DEF tftp_receive, ClientInv
<1>c. PICK c \in TftpCalls : c = v.next
  BY <1>1, ClientKinds DEF ClientInv
<1>2. m \in TftpMsgs /\ m.to = "client" /\ m.port \in Nat
  BY DEF ClientInv, tftp_receive, TftpMsgs
<1>d. PICK d \in TftpCalls : d = [c EXCEPT !.remport = m.port]
  BY <1>2, TftpCallFields
<1>3. d.expected = c.expected /\ Unfinished(d)
  BY <1>1, <1>c, <1>d DEF TftpCalls, Unfinished
<1> DEFINE u == [v EXCEPT !.next.remport = m.port]
<1>4. u = [v EXCEPT !.next = d] /\ u \in ClientStates
  <2>1. v \in ClientStates /\ d \in ClientCalls
    BY <1>1, TftpCallFields DEF GoodState, SoundState
  <2> QED BY <1>c, <1>d, <2>1 DEF ClientStates
<1>5. /\ GoodState(p, u) /\ u.next = d
      /\ Kept(u) = OtherSlots(p) \cup {[service |-> "tftp", owner |-> p]}
  <2> HIDE DEF u
  <2> QED BY <1>1, <1>c, <1>4, TftpWithCall
<1>6. CASE m.kind = "error"
  <2>1. clientstep(tftp_returns(u, NoData))
    BY <1>6, <1>v DEF tftp_receive
  <2> HIDE DEF u
  <2> QED BY <1>5, <2>1, NoDataGood, TftpReturnsGood, ClientStepInv
<1>7. CASE m.kind # "error" /\ (m.kind # "data" \/ m.blk # c.expected)
  <2>1. clientstep(u)
    BY <1>1, <1>7, <1>c, <1>v DEF tftp_receive
  <2> HIDE DEF u
  <2> QED BY <1>3, <1>5, <2>1, ClientStepInv
<1>8. CASE m.kind = "data" /\ m.blk = c.expected
  <2>e. PICK e \in TftpCalls :
          /\ e = [d EXCEPT !.got = Append(@, d.expected), !.expected = @ + 1, !.i = 1]
          /\ e.expected = d.expected + 1 /\ Len(e.got) = d.expected
    BY BlockStored
  <2> DEFINE w == [u EXCEPT !.next.got = Append(@, m.blk), !.next.expected = @ + 1, !.next.i = 1]
  <2>1. w = [u EXCEPT !.next = e]
    <3>1. u.next = d /\ m.blk = d.expected
      BY <1>3, <1>5, <1>8
    <3> HIDE DEF u
    <3> QED BY <1>4, <2>e, <3>1 DEF ClientStates
  <2>2. /\ GoodState(p, w) /\ w.next = e
        /\ Kept(w) = OtherSlots(p) \cup {[service |-> "tftp", owner |-> p]}
    <3> HIDE DEF u, w
    <3> QED BY <1>5, <2>1, TftpWithCall
  <2>3. clientstep(IF m.last THEN tftp_returns(tftp_send(w), w.next.got) ELSE tftp_send(w))
    BY <1>1, <1>8, <1>c, <1>v DEF tftp_receive
  <2> HIDE DEF u, w
  <2>4. GoodState(p, tftp_send(w)) /\ tftp_send(w).next = e
    BY <2>2, TftpSendGood DEF GoodState
  <2>5. m.last <=> c.expected = TftpBlocks
    BY <1>2, <1>8 DEF TftpMsgs
  <2>6. e.got \in Seq(Nat) /\ InOrder(e.got)
    BY TftpCallFields
  <2>7. CASE m.last
    <3>1. e.got \in Seq(Int) /\ Len(e.got) = TftpBlocks
      BY <1>3, <2>e, <2>5, <2>6, <2>7
    <3>2. clientstep(tftp_returns(tftp_send(w), e.got))
      BY <2>2, <2>3, <2>7
    <3> QED BY <2>4, <2>6, <3>1, <3>2, TftpReturnsGood, ClientStepInv
  <2>8. CASE ~m.last
    <3>1. c.expected <= TftpBlocks /\ c.expected \in Nat
      BY <1>1, <1>c, TftpCallFields DEF Unfinished
    <3>2. Unfinished(e)
      BY <1>3, <2>e, <2>5, <2>8, <3>1, FileHasBlocks DEF Unfinished
    <3> QED BY <2>3, <2>4, <2>8, <3>2, ClientStepInv
  <2> QED BY <2>7, <2>8
<1> QED BY <1>6, <1>7, <1>8

-----------------------------------------------------------------------------
(* The servers                                                             *)

LEMMA DhcpServerStep ==
  ASSUME ClientInv, NEW s \in DhcpServers, NEW m \in dhcpwire, dhcp_server(s, m)
  PROVE  ClientInv'
<1> DEFINE reply(k) == [kind |-> k, server |-> s, yip |-> s, dns |-> s = NamesDns]
<1>d. PICK d \in BOOLEAN : d = (s = NamesDns)
  OBVIOUS
<1>1. \A k \in {"offer", "ack", "nak"}, by \in {s, NoServer} :
        /\ [kind |-> k, server |-> by, yip |-> s, dns |-> d] \in DhcpMsgs
        /\ [reply(k) EXCEPT !.server = by] = [kind |-> k, server |-> by, yip |-> s, dns |-> d]
        /\ reply(k) = [kind |-> k, server |-> s, yip |-> s, dns |-> d]
  BY <1>d DEF DhcpMsgs, DhcpReplies
<1>2. \/ \E by \in {s, NoServer} :
           dhcpwire' = dhcpwire \cup {[reply("offer") EXCEPT !.server = by]} /\ UNCHANGED leases
      \/ dhcpwire' = dhcpwire \cup {reply("ack")} /\ leases' = leases \cup {s}
      \/ dhcpwire' = dhcpwire \cup {reply("nak")} /\ UNCHANGED leases
  BY DEF dhcp_server
<1> HIDE DEF reply
<1>3. \E x \in DhcpMsgs :
        /\ dhcpwire' = dhcpwire \cup {x} /\ x.yip = s
        /\ leases' = IF x.kind = "ack" THEN leases \cup {s} ELSE leases
  <2>1. ASSUME NEW by \in {s, NoServer}, UNCHANGED leases,
               dhcpwire' = dhcpwire \cup {[reply("offer") EXCEPT !.server = by]}
        PROVE  \E x \in DhcpMsgs :
                 /\ dhcpwire' = dhcpwire \cup {x} /\ x.yip = s
                 /\ leases' = IF x.kind = "ack" THEN leases \cup {s} ELSE leases
    <3>1. PICK x \in DhcpMsgs : x = [kind |-> "offer", server |-> by, yip |-> s, dns |-> d]
      BY <1>1
    <3>2. dhcpwire' = dhcpwire \cup {x} /\ x.yip = s /\ x.kind = "offer"
      BY <1>1, <2>1, <3>1
    <3> QED BY <2>1, <3>2
  <2>2. ASSUME NEW k \in {"ack", "nak"}, dhcpwire' = dhcpwire \cup {reply(k)},
               leases' = IF k = "ack" THEN leases \cup {s} ELSE leases
        PROVE  \E x \in DhcpMsgs :
                 /\ dhcpwire' = dhcpwire \cup {x} /\ x.yip = s
                 /\ leases' = IF x.kind = "ack" THEN leases \cup {s} ELSE leases
    <3>1. PICK x \in DhcpMsgs : x = [kind |-> k, server |-> s, yip |-> s, dns |-> d]
      BY <1>1
    <3>2. dhcpwire' = dhcpwire \cup {x} /\ x.yip = s /\ x.kind = k
      BY <1>1, <2>2, <3>1
    <3> QED BY <2>2, <3>2
  <2> QED BY <1>2, <2>1, <2>2
<1>4. dhcpwire' \subseteq DhcpMsgs /\ Acknowledged(dhcpwire)' /\ GrantedAddr(NetData)'
  BY <1>3 DEF ClientInv, Acknowledged, GrantedAddr, dhcp_server, servers_unchanged
<1> QED BY <1>4 DEF ClientInv, SlotsWithOwners, dhcp_server, servers_unchanged

LEMMA DnsServerStep ==
  ASSUME ClientInv, NEW m \in dnswire, dns_server(m)
  PROVE  ClientInv'
<1>1. m \in DnsMsgs /\ m.to = "server" /\ m.name \in DomainNames
  BY DEF ClientInv, dns_server, DnsMsgs, DnsSent, DnsReplies
<1>2. PICK a \in ZoneAnswers[m.name] :
        dnswire' = dnswire \cup {[to |-> "client", name |-> m.name, answers |-> a]}
  BY DEF dns_server
<1>3. [to |-> "client", name |-> m.name, answers |-> a] \in DnsMsgs
  BY <1>1 DEF DnsMsgs, DnsReplies
<1>4. dnswire' \subseteq DnsMsgs
  BY <1>2, <1>3 DEF ClientInv
<1> QED
  BY <1>4 DEF ClientInv, SlotsWithOwners, Acknowledged, GrantedAddr, dns_server, servers_unchanged

LEMMA TftpServerStep ==
  ASSUME ClientInv, NEW m \in tftpwire, tftp_server(m)
  PROVE  ClientInv'
<1> DEFINE data(port, b) == [to |-> "client", who |-> m.who, port |-> port, kind |-> "data",
                             blk |-> b, last |-> b = TftpBlocks]
<1>1. m \in TftpMsgs /\ m.who \in Clients /\ m.port \in Nat /\ m.blk \in Nat
  BY DEF ClientInv, TftpMsgs
<1>2. ASSUME NEW port \in Nat, NEW b \in 1..TftpBlocks PROVE data(port, b) \in TftpMsgs
  <2>1. PICK l \in BOOLEAN : l = (b = TftpBlocks)
    OBVIOUS
  <2>2. data(port, b) = [to |-> "client", who |-> m.who, port |-> port, kind |-> "data",
                         blk |-> b, last |-> l]
    BY <2>1
  <2>3. b \in Nat
    BY FileHasBlocks
  <2>4. [to |-> "client", who |-> m.who, port |-> port, kind |-> "data", blk |-> b, last |-> l]
          \in TftpMsgs
    BY <1>1, <2>1, <2>3 DEF TftpMsgs
  <2> QED BY <2>2, <2>4
<1>3. [data(0, 0) EXCEPT !.kind = "error"] \in TftpMsgs
  <2>1. PICK l \in BOOLEAN : l = (0 = TftpBlocks)
    OBVIOUS
  <2>2. [data(0, 0) EXCEPT !.kind = "error"]
          = [to |-> "client", who |-> m.who, port |-> 0, kind |-> "error", blk |-> 0, last |-> l]
    BY <2>1
  <2>3. [to |-> "client", who |-> m.who, port |-> 0, kind |-> "error", blk |-> 0, last |-> l]
          \in TftpMsgs
    BY <1>1 DEF TftpMsgs
  <2> QED BY <2>2, <2>3
<1>4. sessions \in Nat
  BY DEF ClientInv
<1>5. tftpwire' \subseteq TftpMsgs /\ sessions' \in Nat
  <2>1. CASE sessions' = sessions + 1 /\ tftpwire' = tftpwire \cup {data(sessions + 1, 1)}
    <3>1. sessions + 1 \in Nat /\ 1 \in 1..TftpBlocks
      BY <1>4, FileHasBlocks
    <3>2. data(sessions + 1, 1) \in TftpMsgs
      BY <1>2, <3>1
    <3> QED BY <2>1, <3>1, <3>2 DEF ClientInv
  <2>2. CASE /\ m.blk < TftpBlocks /\ sessions' = sessions
             /\ tftpwire' = tftpwire \cup {data(m.port, m.blk + 1)}
    <3>1. m.blk + 1 \in 1..TftpBlocks
      BY <1>1, <2>2, FileHasBlocks
    <3>2. data(m.port, m.blk + 1) \in TftpMsgs
      BY <1>1, <1>2, <3>1
    <3> QED BY <1>4, <2>2, <3>2 DEF ClientInv
  <2>3. CASE /\ sessions' = sessions
             /\ tftpwire' = tftpwire \cup {[data(0, 0) EXCEPT !.kind = "error"]}
    BY <1>3, <1>4, <2>3 DEF ClientInv
  <2> QED BY <2>1, <2>2, <2>3 DEF tftp_server
<1> QED
  BY <1>5 DEF ClientInv, SlotsWithOwners, Acknowledged, GrantedAddr, tftp_server, servers_unchanged

-----------------------------------------------------------------------------
(* The invariant of the clients                                            *)

LEMMA ClientsBegin == clients_init => ClientInv
<1> SUFFICES ASSUME clients_init PROVE ClientInv
  OBVIOUS
<1>1. clients \in [Clients -> ClientCalls] /\ \A p \in Clients : Unfinished(clients[p])
  <2>1. Resting \in ClientCalls /\ Resting \notin TftpCalls
    BY ClientKinds DEF ClientCalls, Resting, TftpCalls
  <2> QED BY <2>1 DEF clients_init, Unfinished
<1>2. results \in [Clients -> ClientResults]
  BY DEF clients_init, ClientResults
<1>3. NetData \in HostData /\ GrantedAddr(NetData) /\ Acknowledged(dhcpwire)
  BY DEF clients_init, HostData, Leasable, GrantedAddr, Acknowledged
<1>4. SlotsWithOwners
  BY DEF clients_init, SlotsWithOwners, LeftPair
<1> QED BY <1>1, <1>2, <1>3, <1>4 DEF clients_init, ClientInv

LEMMA ClientInvariant == ClientsSpec => []ClientInv
<1>1. ClientInv /\ [ClientsNext]_clientVars => ClientInv'
  <2> SUFFICES ASSUME ClientInv, [ClientsNext]_clientVars PROVE ClientInv'
    OBVIOUS
  <2>1. CASE UNCHANGED clientVars
    BY <2>1 DEF clientVars, ClientInv, SlotsWithOwners, Acknowledged, GrantedAddr
  <2>2. CASE ClientsNext
    <3>1. ASSUME NEW p \in Clients, getlocalip(p, NoName) PROVE ClientInv'
      BY <3>1, GetlocalipStep DEF Purposes
    <3>2. ASSUME NEW p \in Clients, NEW n \in DomainNames, getlocalip(p, n) PROVE ClientInv'
      BY <3>2, GetlocalipStep DEF Purposes
    <3>3. ASSUME NEW p \in Clients,
                 \/ tftpget(p) \/ dhcp_timeout(p) \/ dns_timeout(p) \/ tftp_timeout(p)
                 \/ dhcp_error(p) \/ tftp_error(p)
          PROVE  ClientInv'
      BY <3>3, TftpgetStep, DhcpTimeoutStep, DnsTimeoutStep, TftpTimeoutStep, DhcpErrorStep,
         TftpErrorStep
    <3>4. ASSUME NEW p \in Clients, NEW m \in dhcpwire, dhcp_receive(p, m) PROVE ClientInv'
      BY <3>4, DhcpReceiveStep
    <3>5. ASSUME NEW p \in Clients, NEW m \in dnswire, dns_receive(p, m) PROVE ClientInv'
      BY <3>5, DnsReceiveStep
    <3>6. ASSUME NEW p \in Clients, NEW m \in tftpwire, tftp_receive(p, m) PROVE ClientInv'
      BY <3>6, TftpReceiveStep
    <3>7. ASSUME NEW s \in DhcpServers, NEW m \in dhcpwire, dhcp_server(s, m) PROVE ClientInv'
      BY <3>7, DhcpServerStep
    <3>8. ASSUME NEW m \in dnswire, dns_server(m) PROVE ClientInv'
      BY <3>8, DnsServerStep
    <3>9. ASSUME NEW m \in tftpwire, tftp_server(m) PROVE ClientInv'
      BY <3>9, TftpServerStep
    <3> QED BY <2>2, <3>1, <3>2, <3>3, <3>4, <3>5, <3>6, <3>7, <3>8, <3>9 DEF ClientsNext
  <2> QED BY <2>1, <2>2
<1> QED BY <1>1, ClientsBegin, PTL DEF ClientsSpec

\* The first n blocks in their order, as a function.
LEMMA BlocksInOrder ==
  ASSUME NEW s, s \in Seq(Int), InOrder(s)
  PROVE  s = [b \in 1..Len(s) |-> b]
<1>1. Len(s) \in Nat /\ DOMAIN s = 1..Len(s) /\ s = [b \in 1..Len(s) |-> s[b]]
  BY LenProperties
<1>2. \A b \in 1..Len(s) : s[b] = b
  BY DEF InOrder
<1> QED BY <1>1, <1>2

LEMMA ClientsSafe ==
  ClientInv => AddressGranted /\ SlotsWithOwners /\ AnswerIsForName /\ FileInOrder
<1> SUFFICES ASSUME ClientInv
             PROVE  AddressGranted /\ SlotsWithOwners /\ AnswerIsForName /\ FileInOrder
  OBVIOUS
<1>1. AddressGranted /\ SlotsWithOwners
  BY DEF ClientInv, GrantedAddr, AddressGranted
<1>2. ASSUME NEW p \in Clients, results[p].op = "dns", results[p].addr # Failed
      PROVE  IsAddress(results[p].name, results[p].addr)
  <2>1. results[p] \in DnsResults
    BY <1>2 DEF ClientInv, ClientResults, DhcpResults, TftpResults
  <2> QED BY <1>2, <2>1 DEF DnsResults
<1>3. AnswerIsForName
  BY <1>2 DEF AnswerIsForName, IsAddress
<1>4. ASSUME NEW p \in Clients, clients[p].op = "tftp"
      PROVE  /\ clients[p].got = [b \in 1..Len(clients[p].got) |-> b]
             /\ Len(clients[p].got) < TftpBlocks
  <2>1. PICK c \in TftpCalls : c = clients[p]
    BY <1>4, ClientKinds DEF ClientInv
  <2>2. c.expected <= TftpBlocks
    BY <2>1 DEF ClientInv, Unfinished
  <2>3. c.got \in Seq(Int) /\ InOrder(c.got) /\ c.expected = Len(c.got) + 1 /\ Len(c.got) \in Nat
    BY TftpCallFields, LenProperties
  <2>4. c.got = [b \in 1..Len(c.got) |-> b]
    BY <2>3, BlocksInOrder
  <2>5. Len(c.got) < TftpBlocks
    BY <2>2, <2>3, FileHasBlocks
  <2> QED BY <2>1, <2>4, <2>5
<1>5. ASSUME NEW p \in Clients, results[p].op = "tftp", results[p].got # NoData
      PROVE  results[p].got = [b \in 1..TftpBlocks |-> b]
  <2>1. results[p] \in TftpResults
    BY <1>5 DEF ClientInv, ClientResults, DhcpResults, DnsResults
  <2>2. PICK g : g = results[p].got
    OBVIOUS
  <2>3. g \in Seq(Int) /\ Len(g) = TftpBlocks /\ InOrder(g)
    BY <1>5, <2>1, <2>2 DEF TftpResults
  <2> QED BY <2>2, <2>3, BlocksInOrder
<1>6. FileInOrder
  BY <1>4, <1>5 DEF FileInOrder
<1> QED BY <1>1, <1>3, <1>6

-----------------------------------------------------------------------------
(* The theorems                                                            *)

\* There is never more than one call between the wait() for the mutex and the signal(),
\* each of the ways out of a call gives the mutex back once, with and without an answer,
\* and only a process that is killed inside a call takes it along (rfsopen.c:36-110,
\* rfscontrol.c:40-113, rflread.c, rflwrite.c, rflclose.c, rflseek.c); so the entry that
\* rfsopen() has chosen stays free, and keeps the name and the mode it was given, until
\* the server has answered.
THEOREM RfsMutexCorrect ==
  RfsSpec => [](RfsMutexAccounted /\ OpensKeepTheirSlot) /\ []RfsMutexReturned
<1>1. RfsInv => RfsMutexAccounted /\ OpensKeepTheirSlot
  BY RfsInvContext, OneInside DEF RfsContext, RfsInv, MutexInv, Active, RfsMutexAccounted
<1>2. RfsMutexAccounted /\ OpensKeepTheirSlot => RfsMutexReturned
  BY DEF RfsMutexReturned
<1> QED BY <1>1, <1>2, RfsInvariant, PTL

\* An answer that rfscomm() accepts is the server's to this very request, and what the
\* caller makes of it is true of the file system of the server, however many times the
\* request was lost, sent again and executed, and whatever replies to other requests come
\* late (rfscomm.c:34-79): when the caller is told, and afterwards until the server
\* executes an older request under the same name, which the network may have kept.  Of a
\* size that is reported nothing is known unless there is a file (rfscontrol.c:94-103).  A
\* request that was executed once and refused has changed nothing.
THEOREM RfsAnswersCorrect ==
  RfsSpec => [](AnswerHolds /\ RefusedUnchanged) /\ []RfsAnswersHold
<1>1. RfsInv => AnswerHolds /\ RefusedUnchanged
  <2> SUFFICES ASSUME RfsInv PROVE AnswerHolds /\ RefusedUnchanged
    OBVIOUS
  <2>r. PICK r : r = answered
    OBVIOUS
  <2>1. CASE r = NoAnswer
    BY <2>r, <2>1 DEF AnswerHolds, RefusedUnchanged
  <2>2. CASE fate = "overtaken"
    BY <2>2 DEF AnswerHolds, RefusedUnchanged
  <2>3. CASE r # NoAnswer /\ fate # "overtaken"
    <3>1. /\ Told(latest, r)
          /\ r.status # 0 /\ fate = "done" => rfserver[latest.name] = before
      BY <2>r, <2>3 DEF RfsInv, HistoryInv, Truthful
    <3>2. RefusedUnchanged
      BY <2>r, <3>1 DEF RefusedUnchanged
    <3>3. CASE r.status = 0
      <4>1. told(latest, r) = r.len
        BY <3>3 DEF told
      <4> QED BY <2>r, <3>1, <3>2, <3>3, <4>1 DEF AnswerHolds, Told
    <3>4. CASE r.status # 0
      <4>1. latest.type # "size" => told(latest, r) = SYSERR
        BY <3>4 DEF told
      <4> QED BY <2>r, <3>1, <3>2, <3>4, <4>1 DEF AnswerHolds, Told
    <3> QED BY <3>3, <3>4
  <2> QED BY <2>1, <2>2, <2>3
<1>2. AnswerHolds /\ RefusedUnchanged => RfsAnswersHold
  BY DEF RfsAnswersHold
<1> QED BY <1>1, <1>2, RfsInvariant, PTL

\* The host has no address but one that a server has granted it, whatever offers, refusals
\* and datagrams of earlier exchanges come (dhcp.c:161-284); dnslookup() returns an address
\* that the server has for this name or for one that begins with it (dns.c:46-77,
\* dns.c:190-262); tftpget() stores each block of the file once and in order, and succeeds
\* only with all of them (tftp.c:82-246); and two of the ways out of a call leave its pair
\* of ports behind, none of the others: an error of udp_recv() in getlocalip() (dhcp.c:186)
\* and an offer that names no server (dhcp.c:237).
THEOREM ClientsCorrect ==
  ClientsSpec => [](AddressGranted /\ SlotsWithOwners /\ AnswerIsForName /\ FileInOrder)
                 /\ []ClientsAnswered
<1>1. AddressGranted /\ SlotsWithOwners /\ AnswerIsForName /\ FileInOrder => ClientsAnswered
  BY DEF ClientsAnswered
<1> QED BY <1>1, ClientInvariant, ClientsSafe, PTL
=============================================================================
