----------------------------- MODULE AsyncProofs -----------------------------
(***************************************************************************)
(* Theorems about AsyncIPC for process tables of any size, any messages    *)
(* and any depths of calls.                                                *)
(*                                                                         *)
(* Every step of AsyncIPC is a step of Kernel or leaves its variables      *)
(* alone, so ASpec implements Spec and IInv holds of it.  AInv adds the    *)
(* types of the fields of asynchronous message passing and what relates    *)
(* them: a changed return address comes with a message.                    *)
(***************************************************************************)
EXTENDS AsyncIPC, KernelProofs

ipcFlags ==
  /\ prcbvalid \in [Pids -> BOOLEAN]
  /\ prtmpvalid \in [Pids -> BOOLEAN]
  /\ intr \in [Pids -> BOOLEAN]
  /\ wild \in BOOLEAN

ipcFields ==
  /\ prcbptr \in [Pids -> {"NULL", "usercb"}]
  /\ prmbufptr \in [Pids -> {"NULL", "buffer", "message"}]
  /\ prtmpbuf \in [Pids -> {NoMsg, ExitMsg} \cup Msgs]
  /\ prparent \in [Pids -> Pids]
  /\ depth \in [Pids -> 1..3]
  /\ frame3 \in [Pids -> {"caller", "callback", "address 3"}]

ipcTypes == ipcFlags /\ ipcFields

AInv == IInv /\ ipcTypes /\ CallbackFindsMessage

-----------------------------------------------------------------------------
(* The kernel under AsyncIPC                                               *)

\* Every step of AsyncIPC is one of Kernel, as far as Kernel can see.
LEMMA AsyncStep == [ANext]_ipcall => [Next]_vars
<1> SUFFICES ASSUME [ANext]_ipcall PROVE [Next]_vars
  OBVIOUS
<1>1. CASE UNCHANGED ipcall
  BY <1>1 DEF ipcall
<1>2. ASSUME NEW prio \in Prios, acreate(prio) \/ anulluser(prio) PROVE Next
  BY <1>2 DEF acreate, anulluser, Next, ProcessCalls
<1>3. CASE cbregister \/ cbunregister
  BY <1>3 DEF cbregister, cbunregister
<1>4. ASSUME NEW p \in Pids, NEW msg \in Msgs, send(p, msg) PROVE UNCHANGED vars
  BY <1>4 DEF send
<1>5. ASSUME NEW p \in Pids, akill(p) PROVE Next
  BY <1>5 DEF akill, Next, ProcessCalls
<1>6. ASSUME NEW delay \in Delays, NEW d \in Depths, asleep(delay, d) PROVE Next
  BY <1>6 DEF asleep, Next, BlockingCalls
<1>7. CASE sleepreturn \/ return3
  BY <1>7 DEF sleepreturn, return3, detour
<1>8. CASE userstep
  BY <1>8 DEF userstep, Next, ProcessCalls, BlockingCalls
<1>9. CASE clockstep \/ kernelstep
  BY <1>9 DEF clockstep, kernelstep, Next
<1>10. CASE lost
  BY <1>10 DEF lost, ipcall
<1> QED BY <1>1, <1>2, <1>3, <1>4, <1>5, <1>6, <1>7, <1>8, <1>9, <1>10 DEF ANext

\* Asynchronous message passing changes nothing of what Kernel promises: it
\* adds registrations, messages and changed stacks to a behaviour of Kernel.
THEOREM AsyncImplementsKernel == ASpec => Spec
<1>1. AInit => Init
  BY DEF AInit
<1> QED BY <1>1, AsyncStep, PTL DEF ASpec, Spec

-----------------------------------------------------------------------------
(* Registrations, messages and changed stacks                              *)

\* The flags keep their type.
LEMMA NextIpcFlags ==
  ASSUME ipcFlags, [ANext]_ipcall
  PROVE  ipcFlags'
<1>1. CASE UNCHANGED <<prcbvalid, prtmpvalid, intr, wild>>
  BY <1>1 DEF ipcFlags
<1>2. ASSUME NEW p, NewStack(p)
      PROVE  intr' \in [Pids -> BOOLEAN] /\ wild' \in BOOLEAN
  BY <1>2 DEF NewStack, ipcFlags
<1>3. ASSUME NEW prio \in Prios, acreate(prio) PROVE ipcFlags'
  <2>1. prcbvalid' \in [Pids -> BOOLEAN] /\ prtmpvalid' \in [Pids -> BOOLEAN]
    BY <1>3 DEF acreate, ipcFlags
  <2> QED BY <1>2, <1>3, <2>1 DEF acreate, ipcFlags
<1>4. ASSUME NEW prio \in Prios, anulluser(prio) PROVE ipcFlags'
  BY <1>2, <1>4 DEF anulluser, ipcFlags
<1>5. CASE cbregister \/ cbunregister
  <2>1. prcbvalid' \in [Pids -> BOOLEAN]
    BY <1>5 DEF cbregister, cbunregister, ipcFlags
  <2>2. UNCHANGED <<prtmpvalid, intr, wild>>
    BY <1>5 DEF cbregister, cbunregister
  <2> QED BY <2>1, <2>2 DEF ipcFlags
<1>6. ASSUME UNCHANGED <<prcbvalid, intr, wild>>, NEW q, NEW msg, post(q, msg)
      PROVE  ipcFlags'
  <2>1. prtmpvalid' \in [Pids -> BOOLEAN]
    BY <1>6 DEF post, ipcFlags
  <2> QED BY <1>6, <2>1 DEF ipcFlags
<1>7. ASSUME NEW q \in Pids, NEW msg \in Msgs, send(q, msg) PROVE ipcFlags'
  BY <1>6, <1>7 DEF send
<1>8. ASSUME NEW q \in Pids, akill(q) PROVE ipcFlags'
  <2>1. UNCHANGED <<prcbvalid, intr, wild>>
    BY <1>8 DEF akill
  <2>2. UNCHANGED prtmpvalid \/ post(prparent[q], ExitMsg)
    BY <1>8 DEF akill, ssend
  <2> QED BY <1>1, <1>6, <2>1, <2>2
<1>9. CASE usercb
  <2>1. intr' \in [Pids -> BOOLEAN]
    BY <1>9 DEF usercb, ipcFlags
  <2> QED BY <1>9, <2>1 DEF usercb, ipcFlags
<1>10. CASE jump
  BY <1>10 DEF jump, ipcFlags
<1>11. CASE sleepreturn \/ return3
  BY <1>9, <1>10, <1>11 DEF sleepreturn, return3, detour
<1>12. ASSUME NEW delay \in Delays, NEW d \in Depths, asleep(delay, d) PROVE ipcFlags'
  BY <1>1, <1>12 DEF asleep
<1>13. CASE userstep \/ clockstep \/ kernelstep \/ lost \/ UNCHANGED ipcall
  BY <1>1, <1>13 DEF userstep, clockstep, kernelstep, lost, ipcall, ipcVars
<1> QED BY <1>3, <1>4, <1>5, <1>7, <1>8, <1>11, <1>12, <1>13 DEF ANext

\* The other fields keep their types.
LEMMA NextIpcFields ==
  ASSUME ipcFields, currpid \in Pids, [ANext]_ipcall
  PROVE  ipcFields'
<1> DEFINE D == 1..3
<1>0. 1 \in D /\ Depths \subseteq D /\ depth \in [Pids -> D]
  <2>1. 1 \in D
    OBVIOUS
  <2>2. Depths \subseteq D
    BY DepthAssumption
  <2>3. depth \in [Pids -> D]
    BY DEF ipcFields
  <2> QED BY <2>1, <2>2, <2>3
<1>1. CASE UNCHANGED <<prcbptr, prmbufptr, prtmpbuf, prparent, depth, frame3>>
  BY <1>1 DEF ipcFields
<1>2. ASSUME NEW p, NewStack(p)
      PROVE  /\ prparent' \in [Pids -> Pids] /\ depth' \in [Pids -> 1..3]
             /\ frame3' \in [Pids -> {"caller", "callback", "address 3"}]
  <2>1. /\ depth' = [depth EXCEPT ![p] = 1]
        /\ frame3' = [frame3 EXCEPT ![p] = "caller"]
        /\ prparent' = [prparent EXCEPT ![p] = currpid]
    BY <1>2 DEF NewStack
  <2>2. depth' \in [Pids -> D]
    <3> HIDE DEF D
    <3> QED BY <1>0, <2>1
  <2> QED BY <2>1, <2>2 DEF ipcFields
<1>3. ASSUME NEW prio \in Prios, acreate(prio) PROVE ipcFields'
  <2>1. PICK p : /\ NewStack(p)
                 /\ prcbptr' = [prcbptr EXCEPT ![p] = "NULL"]
                 /\ prmbufptr' = [prmbufptr EXCEPT ![p] = "NULL"]
                 /\ prtmpbuf' = [prtmpbuf EXCEPT ![p] = NoMsg]
    BY <1>3 DEF acreate
  <2>2. /\ prcbptr' \in [Pids -> {"NULL", "usercb"}]
        /\ prmbufptr' \in [Pids -> {"NULL", "buffer", "message"}]
        /\ prtmpbuf' \in [Pids -> {NoMsg, ExitMsg} \cup Msgs]
    BY <2>1 DEF ipcFields
  <2> QED BY <1>2, <2>1, <2>2 DEF ipcFields
<1>4. ASSUME NEW prio \in Prios, anulluser(prio) PROVE ipcFields'
  <2>1. UNCHANGED <<prcbptr, prmbufptr, prtmpbuf>>
    BY <1>4 DEF anulluser
  <2>2. PICK p : NewStack(p)
    BY <1>4 DEF anulluser
  <2> QED BY <1>2, <2>1, <2>2 DEF ipcFields
<1>5. CASE cbregister
  <2>1. /\ prcbptr' = [prcbptr EXCEPT ![currpid] = "usercb"]
        /\ prmbufptr' = [prmbufptr EXCEPT ![currpid] = "buffer"]
        /\ UNCHANGED <<prtmpbuf, prparent, depth, frame3>>
    BY <1>5 DEF cbregister
  <2> QED BY <2>1 DEF ipcFields
<1>6. ASSUME UNCHANGED <<prcbptr, prmbufptr, prparent, depth>>,
             NEW q, NEW msg \in {ExitMsg} \cup Msgs, post(q, msg)
      PROVE  ipcFields'
  <2>1. prtmpbuf' \in [Pids -> {NoMsg, ExitMsg} \cup Msgs]
    BY <1>6 DEF post, ipcFields
  <2>2. frame3' \in [Pids -> {"caller", "callback", "address 3"}]
    BY <1>6 DEF post, ipcFields
  <2> QED BY <1>6, <2>1, <2>2 DEF ipcFields
<1>7. ASSUME NEW q \in Pids, NEW msg \in Msgs, send(q, msg) PROVE ipcFields'
  BY <1>6, <1>7 DEF send
<1>8. ASSUME NEW q \in Pids, akill(q) PROVE ipcFields'
  <2>1. UNCHANGED <<prcbptr, prmbufptr, prparent, depth>>
    BY <1>8 DEF akill
  <2>2. UNCHANGED <<prtmpbuf, frame3>> \/ post(prparent[q], ExitMsg)
    BY <1>8 DEF akill, ssend
  <2> QED BY <1>1, <1>6, <2>1, <2>2
<1>9. CASE usercb
  <2>1. /\ prmbufptr' = [prmbufptr EXCEPT ![currpid] = "message"]
        /\ frame3' = [frame3 EXCEPT ![currpid] = "caller"]
        /\ depth' = [depth EXCEPT ![currpid] = 1]
        /\ UNCHANGED <<prcbptr, prtmpbuf, prparent>>
    BY <1>9 DEF usercb
  <2>2. depth' \in [Pids -> D]
    <3> HIDE DEF D
    <3> QED BY <1>0, <2>1
  <2> QED BY <2>1, <2>2 DEF ipcFields
<1>10. CASE sleepreturn \/ return3
  BY <1>1, <1>9, <1>10 DEF sleepreturn, return3, detour, jump
<1>11. ASSUME depth' \in [Pids -> 1..3],
              UNCHANGED <<prcbptr, prmbufptr, prtmpbuf, prparent, frame3>>
       PROVE  ipcFields'
  BY <1>11 DEF ipcFields
<1>12. ASSUME NEW delay \in Delays, NEW d \in Depths, asleep(delay, d) PROVE ipcFields'
  <2>1. depth' = [depth EXCEPT ![currpid] = IF frame3[currpid] = "caller" THEN d ELSE @]
    BY <1>12 DEF asleep
  <2>2. depth' \in [Pids -> D]
    <3> HIDE DEF D
    <3> QED BY <1>0, <2>1
  <2> QED BY <1>11, <1>12, <2>2 DEF asleep
<1>13. CASE kernelstep
  <2>1. depth' = [p \in Pids |->
                   IF prstate[p] = PR_SLEEP /\ prstate'[p] # PR_SLEEP /\ frame3[p] = "caller"
                   THEN 1 ELSE depth[p]]
    BY <1>13 DEF kernelstep
  <2>2. depth' \in [Pids -> D]
    <3> HIDE DEF D
    <3> QED BY <1>0, <2>1
  <2> QED BY <1>11, <1>13, <2>2 DEF kernelstep
<1> QED BY <1>1, <1>3, <1>4, <1>5, <1>7, <1>8, <1>10, <1>12, <1>13
       DEF ANext, cbunregister, userstep, clockstep, lost, ipcall, ipcVars

\* Every message sets prtmpvalid, and only the creation of a process, which has
\* a new stack, clears it.
LEMMA NextFindsMessage ==
  ASSUME ipcTypes, CallbackFindsMessage, [ANext]_ipcall
  PROVE  CallbackFindsMessage'
<1>1. CASE UNCHANGED <<frame3, prtmpvalid>>
  BY <1>1 DEF CallbackFindsMessage
<1>2. ASSUME NEW prio \in Prios, acreate(prio) PROVE CallbackFindsMessage'
  BY <1>2 DEF acreate, NewStack, ipcTypes, ipcFlags, ipcFields, CallbackFindsMessage
<1>3. ASSUME NEW prio \in Prios, anulluser(prio) PROVE CallbackFindsMessage'
  BY <1>3 DEF anulluser, NewStack, ipcTypes, ipcFlags, ipcFields, CallbackFindsMessage
<1>4. ASSUME NEW q, NEW msg, post(q, msg) PROVE CallbackFindsMessage'
  BY <1>4 DEF post, ipcTypes, ipcFlags, ipcFields, CallbackFindsMessage
<1>5. ASSUME NEW q \in Pids, akill(q) PROVE CallbackFindsMessage'
  BY <1>1, <1>4, <1>5 DEF akill, ssend
<1>6. CASE usercb
  BY <1>6 DEF usercb, ipcTypes, ipcFlags, ipcFields, CallbackFindsMessage
<1>7. CASE sleepreturn \/ return3
  BY <1>1, <1>6, <1>7 DEF sleepreturn, return3, detour, jump
<1> QED BY <1>1, <1>2, <1>3, <1>4, <1>5, <1>7
       DEF ANext, cbregister, cbunregister, send, asleep, userstep, clockstep, kernelstep,
           lost, ipcall, ipcVars

\* AInv is inductive.
LEMMA NextAInv == AInv /\ [ANext]_ipcall => AInv'
<1> SUFFICES ASSUME AInv, [ANext]_ipcall PROVE AInv'
  OBVIOUS
<1>1. currpid \in Pids /\ prstate \in [Pids -> States] /\ ipcTypes
  BY DEF AInv, IInv, SchedInv
<1>2. IInv'
  BY AsyncStep, NextIInv DEF AInv
<1>3. ipcTypes' /\ CallbackFindsMessage'
  BY <1>1, NextIpcFlags, NextIpcFields, NextFindsMessage DEF AInv, ipcTypes
<1> QED BY <1>2, <1>3 DEF AInv

LEMMA InitAInv == AInit => AInv
<1> SUFFICES ASSUME AInit PROVE AInv
  OBVIOUS
<1>1. IInv
  BY InitIInv DEF AInit
<1>2. ipcFlags
  BY DEF AInit, ipcFlags
<1>3. ipcFields
  BY Constants DEF AInit, ipcFields
<1>4. CallbackFindsMessage
  BY DEF AInit, CallbackFindsMessage
<1> QED BY <1>1, <1>2, <1>3, <1>4 DEF AInv, ipcTypes

\* AInv is an invariant of asynchronous message passing.
THEOREM AInvCorrect == ASpec => []AInv
BY InitAInv, NextAInv, PTL DEF ASpec

\* The fields of asynchronous message passing have their types in every state.
THEOREM AsyncTypeCorrect == ASpec => []ATypeOK
<1>1. AInv => ATypeOK
  BY IInvTypeOK DEF AInv, ipcTypes, ipcFlags, ipcFields, ATypeOK
<1> QED BY <1>1, AInvCorrect, PTL

\* A stack with a changed return address always has a message for the callback,
\* so that usercb() enables interrupts again (usercb.c:22).
THEOREM CallbackFindsMessageCorrect == ASpec => []CallbackFindsMessage
<1>1. AInv => CallbackFindsMessage
  BY DEF AInv
<1> QED BY <1>1, AInvCorrect, PTL

\* The message of a registered process is not replaced before its callback has run
\* (send.c:36), neither by a sender nor by the exit message of kill().
THEOREM FirstMessageWinsCorrect == ASpec => FirstMessageWins
<1> DEFINE Kept(p) ==
      prcbvalid[p] /\ prtmpvalid[p] /\ prcbvalid'[p]
      => \/ prtmpvalid'[p] /\ prtmpbuf'[p] = prtmpbuf[p]
         \/ p = currpid /\ frame3[p] = "callback" /\ frame3'[p] = "caller"
<1>1. ASSUME ipcTypes, [ANext]_ipcall, NEW p \in Pids PROVE Kept(p)
  <2>1. CASE UNCHANGED <<prtmpvalid, prtmpbuf>>
    BY <2>1
  <2>2. ASSUME NEW prio \in Prios, acreate(prio) PROVE Kept(p)
    BY <1>1, <2>2 DEF acreate, ipcTypes, ipcFlags, ipcFields
  <2>3. ASSUME NEW q, NEW msg, ~refused(q), post(q, msg) PROVE Kept(p)
    BY <1>1, <2>3 DEF post, refused, ipcTypes, ipcFlags, ipcFields
  <2>4. ASSUME NEW q \in Pids, akill(q) PROVE Kept(p)
    BY <2>1, <2>3, <2>4 DEF akill, ssend
  <2> QED BY <1>1, <2>1, <2>2, <2>3, <2>4
         DEF ANext, anulluser, cbregister, cbunregister, send, asleep, sleepreturn, return3,
             detour, usercb, jump, userstep, clockstep, kernelstep, lost, ipcall, ipcVars
<1>2. AInv /\ [ANext]_ipcall => [\A p \in Pids : Kept(p)]_ipcall
  BY <1>1 DEF AInv
<1> QED BY <1>2, AInvCorrect, PTL DEF ASpec, FirstMessageWins
=============================================================================
