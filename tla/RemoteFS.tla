------------------------------ MODULE RemoteFS ------------------------------
(***************************************************************************)
(* The remote file system: every call is one exchange of messages with a   *)
(* file server, under a mutex, over a network that loses, duplicates and   *)
(* delays datagrams.                                                       *)
(*                                                                         *)
(* A call is made with interrupts disabled (open.c:19, read.c:19) and      *)
(* loses the CPU in wait(), udp_send() and udp_recv() only; its steps here *)
(* are wait(), the part up to the first udp_send(), and the parts between  *)
(* the returns of udp_recv(), and others may run, and kill it, before each *)
(* of them.  What was sent stays in the network for ever: the server may   *)
(* execute a request at any time later and as often as it likes, after the *)
(* caller has given up and after requests that are newer, or never; and    *)
(* udp_recv() may return each reply at any time, or none.  It may time out *)
(* although a reply has come: with the send() of this repository, which    *)
(* wakes nobody, it does whenever it has to wait.                          *)
(***************************************************************************)
EXTENDS Calls

CONSTANTS
  RfsProcs,         \* the processes that use the file system
  RfNames,          \* names of fewer than RF_NAMLEN characters
  RfLongNames,      \* those that have RF_NAMLEN - 1
  Nrfl,             \* pseudo-devices for open files
  RF_DATALEN,       \* bytes in a request or a reply
  RF_RETRIES,
  RfBytes, RfModes, \* bytes that are written, modes that files are opened with
  RfMaxSize, RfMaxSeq \* bounds of the model: size of a file, exchanges

rf_mutex == 0
Rfl == 0..(Nrfl - 1)
NoFile == <<"nothing">>    \* what the server has under a name: nothing,
Dir == <<"directory">>    \* a directory, or a file (a sequence of bytes)
NoAnswer == [type |-> "none"]
TooLong == "a name of RF_NAMLEN characters or more"

ASSUME RfAssumption ==
  /\ RfsProcs \subseteq Procs /\ rf_mutex \in SemIds
  /\ Nrfl \in Nat \ {0} /\ RF_DATALEN \in Nat /\ RfMaxSize \in Nat
  /\ RfLongNames \subseteq RfNames /\ {None, TooLong} \cap RfNames = {}
  /\ {"nothing", "directory"} \cap RfBytes = {}   \* no file looks like NoFile or Dir

VARIABLES
  rf_seq, rf_registered,  \* Rf_data
  rfltab,                 \* the pseudo-devices
  rfserver,               \* external: what the server has under each name
  rfrequests, rfreplies,  \* what was sent
  latest,                 \* history: the last request that was sent for the first time,
  before,                 \*   what the server had under its name then,
  fate,                   \*   what the server has done with it since,
  answered,               \*   and the reply that its caller has taken for the answer
  rfabandoned             \* history: calls killed with the mutex

historyVars == <<latest, before, fate>>
rfVars == <<rf_seq, rf_registered, rfltab, rfserver, rfrequests, rfreplies, historyVars,
            answered, rfabandoned>>

IsFile(n) == rfserver[n] \notin {NoFile, Dir}

Request(type, name) ==
  [type |-> type, name |-> name, seq |-> 0, pos |-> 0, len |-> 0, mode |-> {}, data |-> <<>>]

\* The name None is the empty one.
rflinit == [used |-> FALSE, name |-> None, pos |-> 0, mode |-> {}]

rfs_processes ==
  /\ CallInit
  /\ semtab = [s \in SemIds |->
                 IF s = rf_mutex THEN [used |-> TRUE, count |-> 1, queue |-> <<>>] ELSE Unused]

rfsinit ==
  /\ rf_seq = 1 /\ rf_registered = FALSE
  /\ rfltab = [d \in Rfl |-> rflinit]
  /\ rfserver = [n \in RfNames \cup {None} |-> NoFile]
  /\ rfrequests = {} /\ rfreplies = {}
  /\ latest = Request("open", None) /\ before = NoFile /\ fate = "sent"
  /\ answered = NoAnswer /\ rfabandoned = 0

RfsInit == rfs_processes /\ rfsinit

-----------------------------------------------------------------------------
(* The server                                                              *)

\* The bytes with which n bytes end after those at pos have been replaced; a gap
\* is filled with a byte that nobody writes.
Gap == "gap"
patched(bytes, pos, data) ==
  [i \in 1..Max({Len(bytes), pos + Len(data)}) |->
     IF i \in (pos + 1)..(pos + Len(data)) THEN data[i - pos]
     ELSE IF i <= Len(bytes) THEN bytes[i] ELSE Gap]

Refused(m) == [type |-> m.type, seq |-> m.seq, status |-> 1, data |-> <<>>, len |-> 0]
Done(m, data, len) == [Refused(m) EXCEPT !.status = 0, !.data = data, !.len = len]

\* A request m that can be done leaves `after` under its name.
serves(m, can, after, data, len) ==
  /\ rfserver' = IF can THEN [rfserver EXCEPT ![m.name] = after] ELSE rfserver
  /\ rfreplies' = rfreplies \cup {IF can THEN Done(m, data, len) ELSE Refused(m)}

execute(m) ==
  LET here == rfserver[m.name]
      file == IF IsFile(m.name) THEN here ELSE <<>>
      read == SubSeq(file, m.pos + 1, Min({Len(file), m.pos + m.len}))
  IN  \/ /\ m.type = "open"
         /\ serves(m, here # Dir /\ (IF IsFile(m.name) THEN "n" \notin m.mode ELSE "o" \notin m.mode),
                   file, <<>>, 0)
      \/ m.type = "read"     /\ serves(m, IsFile(m.name), here, read, Len(read))
      \/ m.type = "write"    /\ serves(m, IsFile(m.name), patched(file, m.pos, m.data), <<>>, m.len)
      \/ m.type = "size"     /\ serves(m, IsFile(m.name), here, <<>>, Len(file))
      \/ m.type = "truncate" /\ serves(m, IsFile(m.name), <<>>, <<>>, 0)
      \/ m.type = "delete"   /\ serves(m, IsFile(m.name), NoFile, <<>>, 0)
      \/ m.type = "mkdir"    /\ serves(m, here = NoFile, Dir, <<>>, 0)
      \/ m.type = "rmdir"    /\ serves(m, here = Dir, NoFile, <<>>, 0)

\* The latest request is executed once, or again; or one that is older is, under the
\* same name, and may undo it.
fate_after(m) ==
  IF m = latest THEN (IF fate = "sent" THEN "done" ELSE IF fate = "done" THEN "redone" ELSE fate)
  ELSE IF m.name = latest.name THEN "overtaken" ELSE fate

rf_server ==
  /\ \E m \in rfrequests : execute(m) /\ fate' = fate_after(m)
  /\ UNCHANGED <<callVars, rf_seq, rf_registered, rfltab, rfrequests, latest, before, answered,
                 rfabandoned>>

-----------------------------------------------------------------------------
(* The exchange of messages                                                *)

\* A call begins: it waits for the mutex.
rfs_wait(p, c) ==
  LET t == wait(semtab, rf_mutex, p)
  IN  /\ InUser(p)
      /\ semtab' = t
      /\ call' = [call EXCEPT ![p] = c]
      /\ UNCHANGED <<masked, panicked, kills, rfVars>>

rfs_return(p) ==
  /\ semtab' = signal(semtab, rf_mutex)
  /\ Return(p)
  /\ UNCHANGED <<masked, panicked, kills, rfabandoned>>

\* A call ends without an exchange.
rfs_ends(p) ==
  /\ rfs_return(p)
  /\ UNCHANGED <<rf_seq, rf_registered, rfserver, rfrequests, rfreplies, historyVars, answered>>

\* rfscomm() up to the first udp_send(): the registration of the port and udp_send()
\* may fail.
rfscomm(p, d, msg) ==
  LET m == [msg EXCEPT !.seq = rf_seq]
  IN  \/ ~rf_registered /\ rfs_ends(p)
      \/ /\ rf_seq <= RfMaxSeq   \* bound of the model
         /\ rf_registered' = TRUE
         /\ rf_seq' = rf_seq + 1
         /\ \/ rfs_return(p) /\ UNCHANGED <<rfrequests, historyVars, answered>>
            \/ /\ rfrequests' = rfrequests \cup {m}
               /\ latest' = m /\ before' = rfserver[m.name] /\ fate' = "sent"
               /\ answered' = NoAnswer
               /\ call' = [call EXCEPT ![p] = [op |-> "rfscomm", dev |-> d, msg |-> m, tries |-> 1]]
               /\ UNCHANGED <<semtab, masked, panicked, kills, rfabandoned>>
         /\ UNCHANGED <<rfserver, rfreplies>>

\* udp_recv() has returned TIMEOUT, or a reply that is not looked at: the request is
\* sent again, or the call fails, because that was the last try or udp_send() fails.
rfs_again(p) ==
  /\ \/ /\ call[p].tries < RF_RETRIES
        /\ rfrequests' = rfrequests \cup {call[p].msg}
        /\ call' = [call EXCEPT ![p].tries = @ + 1]
        /\ UNCHANGED <<semtab, masked, panicked, kills, rfabandoned>>
     \/ rfs_return(p) /\ UNCHANGED rfrequests
  /\ UNCHANGED <<rf_seq, rf_registered, rfltab, rfserver, rfreplies, historyVars, answered>>

rfscomm_timeout(p) == Resumes(p, "rfscomm") /\ rfs_again(p)

\* udp_recv() fails: its caller has got a message that is not OK (udp.c:194).
rfscomm_error(p) == Resumes(p, "rfscomm") /\ rfs_ends(p) /\ UNCHANGED rfltab

\* (Variant: the sequence number is not compared.)
accepts_type(m, r) == r.type = m.type

accepts(m, r) == r.seq = m.seq /\ r.type = m.type

\* A reply that is refused uses up one of the tries.
rfscomm_stale(p) ==
  /\ Resumes(p, "rfscomm")
  /\ \E r \in rfreplies : ~accepts(call[p].msg, r)
  /\ rfs_again(p)

\* The pseudo-device after the answer r to a request of its.
advanced(f, m, r) ==
  IF r.status # 0 THEN f
  ELSE IF m.type = "open" THEN [f EXCEPT !.used = TRUE, !.pos = 0]
  ELSE IF m.type \in {"read", "write"} THEN [f EXCEPT !.pos = @ + r.len]
  ELSE f

rfscomm_reply(p) ==
  LET c == call[p]
  IN  /\ Resumes(p, "rfscomm")
      /\ \E r \in rfreplies :
           /\ accepts(c.msg, r)
           /\ rfltab' = [rfltab EXCEPT ![c.dev] = advanced(@, c.msg, r)]
           /\ answered' = r
      /\ rfs_return(p)
      /\ UNCHANGED <<rf_seq, rf_registered, rfserver, rfrequests, rfreplies, historyVars>>

-----------------------------------------------------------------------------
(* Calls                                                                   *)

\* The set of the letters, or {} for SYSERR.
rfsgetmode(mode) ==
  IF ~IsInjective(mode) \/ ~Range(mode) \subseteq {"r", "w", "o", "n"}
       \/ {"o", "n"} \subseteq Range(mode)
  THEN {}
  ELSE IF Range(mode) \cap {"r", "w"} = {} THEN Range(mode) \cup {"r", "w"}
  ELSE Range(mode)

\* The name and the mode go into the free entry before the server has answered,
\* and stay there if it refuses; a name that is too long stays there without an end.
rfsopen(p) ==
  LET c == call[p]
      free == {d \in Rfl : ~rfltab[d].used}
      d == Min(free)
      mode == rfsgetmode(c.mode)
  IN  /\ Resumes(p, "rfs open")
      /\ IF free = {} THEN rfs_ends(p) /\ UNCHANGED rfltab
         ELSE IF c.name \in {None, TooLong}
         THEN rfs_ends(p) /\ rfltab' = [rfltab EXCEPT ![d].name = c.name]
         ELSE IF mode = {}
         THEN rfs_ends(p) /\ rfltab' = [rfltab EXCEPT ![d].name = c.name, ![d].mode = {}]
         ELSE /\ rfltab' = [rfltab EXCEPT ![d].name = c.name, ![d].mode = mode]
              /\ rfscomm(p, d, [Request("open", c.name) EXCEPT !.mode = mode])

rflread(p) ==
  LET c == call[p]
      f == rfltab[c.dev]
  IN  /\ Resumes(p, "rfs read")
      /\ IF c.len \in 1..RF_DATALEN /\ f.used /\ "r" \in f.mode /\ f.name # TooLong
         THEN rfscomm(p, c.dev, [Request("read", f.name) EXCEPT !.pos = f.pos, !.len = c.len])
         ELSE rfs_ends(p)
      /\ UNCHANGED rfltab

rflwrite(p) ==
  LET c == call[p]
      f == rfltab[c.dev]
      count == Len(c.data)
  IN  /\ Resumes(p, "rfs write")
      /\ IF count \in 1..RF_DATALEN /\ f.used /\ "w" \in f.mode /\ f.name # TooLong
         THEN /\ f.pos + count <= RfMaxSize   \* bound of the model
              /\ rfscomm(p, c.dev, [Request("write", f.name) EXCEPT
                                      !.pos = f.pos, !.len = count, !.data = c.data])
         ELSE rfs_ends(p)
      /\ UNCHANGED rfltab

rflclose(p) ==
  /\ Resumes(p, "rfs close")
  /\ rfltab' = [rfltab EXCEPT ![call[p].dev].used = FALSE]
  /\ rfs_ends(p)

\* (Variant: a call that is refused keeps the mutex.)
rflseek_keeps(p) ==
  LET c == call[p]
  IN  /\ Resumes(p, "rfs seek")
      /\ rfltab' = IF rfltab[c.dev].used THEN [rfltab EXCEPT ![c.dev].pos = c.pos] ELSE rfltab
      /\ IF rfltab[c.dev].used THEN rfs_ends(p)
         ELSE /\ Return(p)
              /\ UNCHANGED <<semtab, masked, panicked, kills, rf_seq, rf_registered, rfserver,
                             rfrequests, rfreplies, historyVars, answered, rfabandoned>>

\* Any position: the file may be shorter.
rflseek(p) ==
  LET c == call[p]
  IN  /\ Resumes(p, "rfs seek")
      /\ rfltab' = IF rfltab[c.dev].used THEN [rfltab EXCEPT ![c.dev].pos = c.pos] ELSE rfltab
      /\ rfs_ends(p)

\* Every function looks at the name in the first entry, used or not, and fails if
\* it has more than RF_NAMLEN - 2 characters: the control functions are those of the
\* master device, whose minor number is 0.  Its size is the one that is asked for;
\* the other functions have the name, which is to fit, as an argument.
rfscontrol(p) ==
  LET c == call[p]
      name == rfltab[0].name
  IN  /\ Resumes(p, "rfs control")
      /\ IF name \in RfLongNames \cup {TooLong} THEN rfs_ends(p)
         ELSE rfscomm(p, 0, Request(c.func, IF c.func = "size" THEN name ELSE c.name))
      /\ UNCHANGED rfltab

\* What the caller of request m is told when r is the answer.  Who asks for the size
\* is told what is in its place also when the server has refused.
told(m, r) == IF r.status = 0 \/ m.type = "size" THEN r.len ELSE SYSERR

rfs_call(p) ==
  \/ \E n \in RfNames \cup {None, TooLong}, m \in RfModes :
       rfs_wait(p, [op |-> "rfs open", name |-> n, mode |-> m])
  \/ \E d \in Rfl :
       \/ \E n \in 0..RF_DATALEN : rfs_wait(p, [op |-> "rfs read", dev |-> d, len |-> n])
       \/ \E b \in BoundedSeq(RfBytes, RF_DATALEN) : rfs_wait(p, [op |-> "rfs write", dev |-> d, data |-> b])
       \/ rfs_wait(p, [op |-> "rfs close", dev |-> d])
       \/ \E n \in 0..RfMaxSize : rfs_wait(p, [op |-> "rfs seek", dev |-> d, pos |-> n])
  \/ \E n \in RfNames, f \in {"size", "truncate", "delete", "mkdir", "rmdir"} :
       rfs_wait(p, [op |-> "rfs control", func |-> f, name |-> n])

\* A process that is killed with the mutex leaves it taken.
rfs_kill(p) ==
  /\ killcaller(p)
  /\ rfabandoned' = rfabandoned + (IF Waiting(p) THEN 0 ELSE 1)
  /\ UNCHANGED <<rf_seq, rf_registered, rfltab, rfserver, rfrequests, rfreplies, historyVars,
                 answered>>

RfsNext ==
  \/ \E p \in RfsProcs :
       \/ rfs_call(p)
       \/ rfsopen(p) \/ rflread(p) \/ rflwrite(p) \/ rflclose(p) \/ rflseek(p) \/ rfscontrol(p)
       \/ rfscomm_timeout(p) \/ rfscomm_error(p) \/ rfscomm_stale(p) \/ rfscomm_reply(p)
       \/ rfs_kill(p)
  \/ rf_server

RfsSpec == RfsInit /\ [][RfsNext]_<<callVars, rfVars>>

-----------------------------------------------------------------------------
(* Properties                                                              *)

Inside == {p \in RfsProcs : call[p] # Idle /\ ~Waiting(p)}

\* The mutex is given back once by each of the ways out of a call, and is lost
\* only with a process that is killed (rfsopen.c:38-110, rfscontrol.c:40-113).
RfsMutexAccounted ==
  /\ Cardinality(Inside) <= 1
  /\ semtab[rf_mutex].count
       = 1 - Cardinality({p \in RfsProcs : call[p] # Idle}) - rfabandoned

\* What a caller is told is true, however often its request was sent and executed and
\* whatever replies of others come late (rfscomm.c:34, rfscomm.c:62), until the server
\* executes an older request under the same name: nothing in the protocol keeps one
\* that was given up from arriving late.  A size is that of the file; the call does not
\* say whether there is one (rfscontrol.c:94-103).
AnswerHolds ==
  LET m == latest
      r == answered
      here == rfserver[m.name]
  IN  answered # NoAnswer /\ fate # "overtaken" /\ told(m, r) # SYSERR =>
        \/ m.type = "open" /\ IsFile(m.name)
        \/ m.type = "read" /\ IsFile(m.name) /\ told(m, r) <= m.len
             /\ r.data = SubSeq(here, m.pos + 1, m.pos + told(m, r))
        \/ m.type = "write" /\ IsFile(m.name) /\ told(m, r) = m.len
             /\ SubSeq(here, m.pos + 1, m.pos + told(m, r)) = m.data
        \/ m.type = "size" /\ (IsFile(m.name) => told(m, r) = Len(here))
        \/ m.type = "truncate" /\ here = <<>>
        \/ m.type \in {"delete", "rmdir"} /\ here = NoFile
        \/ m.type = "mkdir" /\ here = Dir

\* A request that was executed once and refused has changed nothing.  (One that was
\* executed twice may be refused because it has been done.)
RefusedUnchanged ==
  answered # NoAnswer /\ answered.status # 0 /\ fate = "done" =>
    rfserver[latest.name] = before

\* While the server is asked to open a file, the entry that was chosen for it is
\* still free and has its name and its mode (rfsopen.c:36, rfsopen.c:73).
OpensKeepTheirSlot ==
  \A p \in RfsProcs :
    call[p].op = "rfscomm" /\ call[p].msg.type = "open" =>
      LET f == rfltab[call[p].dev]
      IN  ~f.used /\ f.name = call[p].msg.name /\ f.mode = call[p].msg.mode
=============================================================================
