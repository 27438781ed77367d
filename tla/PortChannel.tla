---------------------------- MODULE PortChannel ----------------------------
(***************************************************************************)
(* What a port promises: a bounded first-in first-out channel.  A call     *)
(* that waits takes effect only in the incarnation of the channel in which *)
(* it was made; opening, closing and emptying a channel each begin a new   *)
(* incarnation.                                                            *)
(***************************************************************************)
EXTENDS Integers, Sequences

CONSTANTS Chans, Users, Items

VARIABLES
  chan,   \* the channels: open or not, incarnation, size, contents
  pend    \* the call that each user waits in

Waits(op, c, inc) == [op |-> op, chan |-> c, inc |-> inc]
NoCall == [op |-> "none"]

ChanInit ==
  /\ chan = [c \in Chans |-> [open |-> FALSE, inc |-> 0, size |-> 0, items |-> <<>>]]
  /\ pend = [u \in Users |-> NoCall]

\* The user's call takes effect now: at once, or after a wait.
Takes(u, op, c) ==
  /\ chan[c].open
  /\ pend[u] \in {NoCall, Waits(op, c, chan[c].inc)}
  /\ pend' = [pend EXCEPT ![u] = NoCall]

Put(u, c, item) ==
  /\ Takes(u, "send", c)
  /\ Len(chan[c].items) < chan[c].size
  /\ chan' = [chan EXCEPT ![c].items = Append(@, item)]

Get(u, c) ==
  /\ Takes(u, "recv", c)
  /\ chan[c].items # <<>>
  /\ chan' = [chan EXCEPT ![c].items = Tail(@)]

Begin(u, op, c) ==
  /\ pend[u] = NoCall /\ chan[c].open
  /\ pend' = [pend EXCEPT ![u] = Waits(op, c, chan[c].inc)]
  /\ UNCHANGED chan

\* The call fails, or its user is gone.
GiveUp(u) == pend' = [pend EXCEPT ![u] = NoCall] /\ UNCHANGED chan

Close(c) ==
  /\ chan[c].open
  /\ chan' = [chan EXCEPT ![c].open = FALSE, ![c].inc = @ + 1]
  /\ UNCHANGED pend

Empty(c) ==
  /\ ~chan[c].open
  /\ chan' = [chan EXCEPT ![c].items = <<>>]
  /\ UNCHANGED pend

Reopen(c) ==
  /\ chan[c].items = <<>>
  /\ chan' = [chan EXCEPT ![c].open = TRUE]
  /\ UNCHANGED pend

\* A closed channel is opened with any size.
Create(c) ==
  /\ ~chan[c].open
  /\ chan' = [chan EXCEPT ![c] = [open |-> TRUE, inc |-> @.inc + 1,
                                 size |-> chan'[c].size, items |-> <<>>]]
  /\ UNCHANGED pend

ChanNext ==
  \/ \E u \in Users, c \in Chans :
       \/ \E item \in Items : Put(u, c, item)
       \/ Get(u, c)
       \/ \E op \in {"send", "recv"} : Begin(u, op, c)
  \/ \E u \in Users : GiveUp(u)
  \/ \E c \in Chans : Close(c) \/ Empty(c) \/ Reopen(c) \/ Create(c)

ChanSpec == ChanInit /\ [][ChanNext]_<<chan, pend>>
=============================================================================
