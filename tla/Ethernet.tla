------------------------------ MODULE Ethernet ------------------------------
(***************************************************************************)
(* The Ethernet driver: two rings of descriptors that the driver shares    *)
(* with the device, a semaphore that counts each, and the interrupt        *)
(* handler between them.                                                   *)
(*                                                                         *)
(* A descriptor with the OWN bit is the device's.  read(), write() and     *)
(* control() call the driver with interrupts disabled: a call loses the    *)
(* CPU only where it waits, but the device goes on during a call.          *)
(***************************************************************************)
EXTENDS Calls

CONSTANTS
  Writers,                      \* processes that send
  Reader,                       \* the process that reads
  TxRingSize, RxRingSize,
  ETH_NUM_MCAST,
  Frames,                       \* frames that are sent
  EthUcast, EthBcast, Eaddrs,   \* destinations of frames that arrive
  MaxCounted                    \* bound of the model: frames counted by isem

osem == 0
isem == 1
TxSlots == 0..(TxRingSize - 1)
RxSlots == 0..(RxRingSize - 1)

VARIABLES
  txRing, txHead, txTail,   \* the frame of a descriptor, and its OWN bit
  rxRing, rxHead, rxTail,
  ed_mca,                   \* multicast addresses
  sr,                       \* status register: interrupts that are pending
  txdma, rxdma,             \* external: the descriptor that the device is at
  unsent, unread,           \* history: frames written and not sent, arrived and not read
  rxfull                    \* history: the handler has found the receive ring full

ethRings == <<txRing, txHead, txTail, rxRing, rxHead, rxTail>>
ethVars == <<ethRings, ed_mca, sr, txdma, rxdma, unsent, unread, rxfull>>

NoFrame == None

eth_processes ==
  /\ semtab = [s \in SemIds |->
                 [used |-> TRUE, count |-> IF s = osem THEN TxRingSize ELSE 0, queue |-> <<>>]]
  /\ CallInit

eth_rings ==
  /\ txRing = [d \in TxSlots |-> [own |-> FALSE, frame |-> NoFrame]]
  /\ rxRing = [d \in RxSlots |-> [own |-> TRUE, frame |-> NoFrame]]
  /\ txHead = 0 /\ txTail = 0 /\ rxHead = 0 /\ rxTail = 0
  /\ ed_mca = <<>> /\ sr = {}
  /\ txdma = 0 /\ rxdma = 0
  /\ unsent = <<>> /\ unread = <<>> /\ rxfull = FALSE

ethinit == eth_processes /\ eth_rings

-----------------------------------------------------------------------------
(* Sending                                                                 *)

\* ethwrite() waits for a descriptor, and goes on at once if there is one.
ethwrite(p, f) ==
  LET t == wait(semtab, osem, p)
  IN  /\ InUser(p)
      /\ semtab' = t
      /\ call' = [call EXCEPT ![p] = [op |-> "tx", frame |-> f]]
      /\ masked' = IF WaitsIn(t, p) THEN None ELSE p
      /\ UNCHANGED <<panicked, kills, ethVars>>

after(d, size) == (d + 1) % size

eth_fill(p) ==
  /\ Resumes(p, "tx")
  /\ txRing' = [txRing EXCEPT ![txTail] = [own |-> TRUE, frame |-> call[p].frame]]
  /\ txTail' = after(txTail, TxRingSize)
  /\ unsent' = Append(unsent, call[p].frame)
  /\ Return(p) /\ masked' = None
  /\ UNCHANGED <<semtab, panicked, kills, txHead, rxRing, rxHead, rxTail, ed_mca, sr, txdma,
                 rxdma, unread, rxfull>>

\* external: the device sends the next frame.
dma_send ==
  /\ txRing[txdma].own
  /\ txRing' = [txRing EXCEPT ![txdma].own = FALSE]
  /\ txdma' = after(txdma, TxRingSize)
  /\ sr' = sr \cup {"TI"}
  /\ unsent' = RemoveFirst(unsent, txRing[txdma].frame)
  /\ UNCHANGED <<callVars, txHead, txTail, rxRing, rxHead, rxTail, ed_mca, rxdma, unread, rxfull>>

-----------------------------------------------------------------------------
(* The interrupt handler                                                   *)

\* The number of descriptors from d on, at most n, that the device has finished.
finished(ring, d, n, size) ==
  LET done(k) == \A j \in 0..(k - 1) : ~ring[(d + j) % size].own
  IN  CHOOSE k \in 0..n : done(k) /\ (k < n => ~done(k + 1))

\* Of the transmit ring, those up to the tail.  A tail that has come round to the head
\* looks like an empty ring: of a full one, none is ever handed back.
tx_finished == finished(txRing, txHead, (txTail - txHead + TxRingSize) % TxRingSize, TxRingSize)

\* Of the receive ring, one more than there are when it is full, those already counted
\* among them.
rx_finished == finished(rxRing, rxTail, RxRingSize + 1, RxRingSize)

ethhandler ==
  LET tx == IF "TI" \in sr THEN tx_finished ELSE 0
      rx == IF "RI" \in sr THEN rx_finished ELSE 0
      t == signaln(signaln(semtab, osem, tx), isem, rx)
  IN  /\ ~panicked /\ masked = None
      /\ sr # {} /\ sr' = {}
      /\ txHead' = (txHead + tx) % TxRingSize
      /\ rxTail' = (rxTail + rx) % RxRingSize
      /\ rxfull' = (rxfull \/ rx > RxRingSize)
      /\ semtab' = t
      /\ UNCHANGED <<call, masked, panicked, kills, txRing, txTail, rxRing, rxHead, ed_mca, txdma,
                     rxdma, unsent, unread>>

-----------------------------------------------------------------------------
(* Receiving                                                               *)

\* external: a frame arrives, or is lost if the driver has the descriptor.
dma_receive(to) ==
  /\ semtab[isem].count < MaxCounted   \* bound of the model
  /\ rxRing[rxdma].own
  /\ rxRing' = [rxRing EXCEPT ![rxdma] = [own |-> FALSE, frame |-> to]]
  /\ rxdma' = after(rxdma, RxRingSize)
  /\ sr' = sr \cup {"RI"}
  /\ unread' = Append(unread, to)
  /\ UNCHANGED <<callVars, txRing, txHead, txTail, rxHead, rxTail, ed_mca, txdma, unsent, rxfull>>

\* ethread() waits for a frame.
reads(p, t) ==
  /\ semtab' = t
  /\ call' = [call EXCEPT ![p] = [op |-> "rx"]]
  /\ masked' = IF WaitsIn(t, p) THEN None ELSE p

ethread(p) ==
  /\ InUser(p)
  /\ reads(p, wait(semtab, isem, p))
  /\ UNCHANGED <<panicked, kills, ethVars>>

\* The driver gives the descriptor at the head back to the device.
eth_takes ==
  /\ rxRing' = [rxRing EXCEPT ![rxHead].own = TRUE]
  /\ rxHead' = after(rxHead, RxRingSize)
  /\ unread' = IF unread = <<>> THEN unread ELSE Tail(unread)
  /\ UNCHANGED <<panicked, kills, txRing, txHead, txTail, rxTail, ed_mca, sr, txdma, rxdma, unsent,
                 rxfull>>

valid_addr == rxRing[rxHead].frame \in {EthUcast, EthBcast} \cup Range(ed_mca)

\* (Variant: no wait() after a frame that is thrown away.)
eth_take_nowait(p) ==
  /\ Resumes(p, "rx") /\ eth_takes
  /\ IF valid_addr THEN Return(p) /\ masked' = None /\ UNCHANGED semtab
     ELSE reads(p, semtab)

\* The frame at the head is returned, or thrown away and another one waited for.
eth_take(p) ==
  /\ Resumes(p, "rx") /\ eth_takes
  /\ IF valid_addr THEN Return(p) /\ masked' = None /\ UNCHANGED semtab
     ELSE reads(p, wait(semtab, isem, p))

ethmcast_add(p, addr) ==
  /\ InUser(p)
  /\ Len(ed_mca) < ETH_NUM_MCAST
  /\ ed_mca' = Append(ed_mca, addr)
  /\ UNCHANGED <<callVars, ethRings, sr, txdma, rxdma, unsent, unread, rxfull>>

\* The first entry with the address.
ethmcast_remove(p, addr) ==
  /\ InUser(p)
  /\ addr \in Range(ed_mca)
  /\ ed_mca' = RemoveFirst(ed_mca, addr)
  /\ UNCHANGED <<callVars, ethRings, sr, txdma, rxdma, unsent, unread, rxfull>>

\* What ethcontrol() does, apart from reading the address of the interface.
ethcontrol(p) == \E a \in Eaddrs : ethmcast_add(p, a) \/ ethmcast_remove(p, a)

EthNext ==
  \/ \E p \in Writers : eth_fill(p) \/ \E f \in Frames : ethwrite(p, f)
  \/ dma_send
  \/ \E to \in {EthUcast, EthBcast} \cup Eaddrs : dma_receive(to)
  \/ ethhandler
  \/ ethread(Reader) \/ eth_take(Reader)
  \/ \E p \in Writers : ethcontrol(p)

EthSpec == ethinit /\ [][EthNext]_<<callVars, ethVars>>

-----------------------------------------------------------------------------
(* Properties                                                              *)

\* When the device has sent everything and the handler has seen it, every
\* descriptor is free again, unless the ring was full once: then none is free, and the
\* handler, for which it looks empty, frees none (ethhandler.c:51-78).
SlotsReturned ==
  (\A d \in TxSlots : ~txRing[d].own) /\ sr = {} /\ (\A p \in Procs : Runs(p) => call[p].op # "tx") =>
    \/ semtab[osem].count = TxRingSize
    \/ semtab[osem].count <= 0 /\ txHead = txTail

\* A writer waits only for a ring that is full, which is to wait for ever: the head is
\* at the tail, and no later call of the handler moves it (ethwrite.c:26,
\* ethhandler.c:51).
WaitsForFull == semtab[osem].queue # <<>> => txHead = txTail

\* No frame is written over one that has not been sent, and the device finds the
\* frames in the order in which they were written (ethwrite.c:27-66).
FramesToSend ==
  /\ Len(unsent) = Cardinality({d \in TxSlots : txRing[d].own})
  /\ \A k \in 1..Len(unsent) :
       txRing[(txdma + k - 1) % TxRingSize] = [own |-> TRUE, frame |-> unsent[k]]

\* The frames that have arrived and were not read are in the ring behind the head,
\* in their order, and the semaphore counts those that the handler has seen, as long as
\* the handler has never found the ring full (ethhandler.c:95, ethread.c:30-97).
FramesToRead ==
  LET reading == IF call[Reader].op = "rx" THEN 1 ELSE 0
  IN  ~rxfull =>
        /\ \A k \in 1..Len(unread) :
             rxRing[(rxHead + k - 1) % RxRingSize] = [own |-> FALSE, frame |-> unread[k]]
        /\ semtab[isem].count + reading = (rxTail - rxHead + RxRingSize) % RxRingSize
=============================================================================
