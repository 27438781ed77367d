------------------------------- MODULE Network -------------------------------
(***************************************************************************)
(* The network: packets in the buffers of one pool, that the process netin *)
(* reads from the Ethernet and gives to ARP, UDP or ICMP, that the process *)
(* ipout sends, and that users send and receive.                           *)
(*                                                                         *)
(* Every function runs with interrupts disabled until it blocks, so a step *)
(* ends where a process waits for a buffer, a message, a packet or a frame.*)
(* The two network processes have the higher priority (NETPRIO).  Byte     *)
(* order and checksums are left out; frames are sent at once, and only who *)
(* they are sent to is kept.  What a packet in the queue of a user says,   *)
(* or one that waits for an address, is kept no longer.                    *)
(*                                                                         *)
(* A process that waits for a packet or an address waits in recvtime() for *)
(* a message.  In this repository send() delivers none and wakes nobody    *)
(* (the lines that do, system/send.c:111-121, are commented out), so that  *)
(* every wait ends with TIMEOUT.  The model has both: netwakes says        *)
(* whether send() does what these callers expect of it.                    *)
(***************************************************************************)
EXTENDS Calls

CONSTANTS
  netin, ipout,                 \* the processes of the network
  NetUsers,                     \* and those that use it
  NBUFS,                        \* buffers of the pool
  UDP_SLOTS, UDP_QSIZ, ICMP_SLOTS, ICMP_QSIZ, ARP_SIZ, ARP_RETRY, IP_OQSIZ,
  LocalHosts, FarHosts,         \* addresses of other hosts
  iprouter,                     \* the default router, or Zero
  Macs, UdpPorts,
  PingMax                       \* bound of the model: replies to one registration

netbufs == 0                    \* the semaphore of the buffer pool
iqsem == 1
NetBufs == 1..NBUFS
UdpSlots == 0..(UDP_SLOTS - 1)
IcmpSlots == 0..(ICMP_SLOTS - 1)
ArpSlots == 0..(ARP_SIZ - 1)
Zero == "0"                     \* no address, any address
Me == "me"
IP_BCAST == "bcast"             \* the limited broadcast and that of the network
Loop == "127"
NoMac == "00"
NoNetMsg == "none"
NoNetBuf == 0

VARIABLES
  netfree, netpkt,              \* free buffers, and the packet in each
  udptab, icmptab, arpcache,
  ipoqueue,                     \* the IP output queue
  ipvalid,                      \* NetData: the address is known
  netinbox,                     \* the message that each process has been sent
  netwakes,                     \* send() delivers messages: constant, FALSE in the repository
  wild,                         \* a queue has been read or written beyond its packets
  announced,                    \* history: the addresses that hosts have announced
  misdirected                   \* history: a frame went to an address not announced

netVars == <<netfree, netpkt, udptab, icmptab, arpcache, ipoqueue, ipvalid, netinbox, netwakes, wild,
             announced, misdirected>>

Udp(src, dst, sport, dport) ==
  [proto |-> "udp", src |-> src, dst |-> dst, sport |-> sport, dport |-> dport, ident |-> 0]
Icmp(type, src, dst, ident) ==
  [proto |-> type, src |-> src, dst |-> dst, sport |-> 0, dport |-> 0, ident |-> ident]
NoPkt == Udp(Zero, Zero, 0, 0)

udp_free == [state |-> "free", locport |-> 0, remport |-> 0, remip |-> Zero, queue |-> <<>>,
             pid |-> None]
icmp_free == [state |-> "free", remip |-> Zero, head |-> 0, tail |-> 0, count |-> 0,
              queue |-> [i \in 0..(ICMP_QSIZ - 1) |-> NoNetBuf], pid |-> None, seen |-> 0]
arp_free == [state |-> "free", addr |-> Zero, pid |-> None, haddr |-> NoMac]

\* After net_init(), ipout waits for a packet, and netin has a buffer to read into.
net_processes ==
  /\ semtab = [s \in SemIds |->
                 IF s = netbufs THEN [used |-> TRUE, count |-> NBUFS - 1, queue |-> <<>>]
                 ELSE IF s = iqsem THEN [used |-> TRUE, count |-> -1, queue |-> <<ipout>>]
                 ELSE Unused]
  /\ call = [p \in Procs |-> IF p = ipout THEN [op |-> "ipout"]
                             ELSE IF p = netin THEN [op |-> "read", buf |-> 1] ELSE Idle]
  /\ masked = None /\ panicked = FALSE /\ kills = 0

net_tables ==
  /\ netfree = NetBufs \ {1} /\ netpkt = [b \in NetBufs |-> NoPkt]
  /\ udptab = [s \in UdpSlots |-> udp_free]
  /\ icmptab = [s \in IcmpSlots |-> icmp_free]
  /\ arpcache = [i \in ArpSlots |-> arp_free]
  /\ ipoqueue = <<>> /\ ipvalid \in BOOLEAN
  /\ netinbox = [p \in Procs |-> NoNetMsg] /\ netwakes \in BOOLEAN
  /\ wild = FALSE /\ announced = {} /\ misdirected = FALSE

net_init == net_processes /\ net_tables

-----------------------------------------------------------------------------
(* The functions below map records v of what a step of the process v.p     *)
(* changes; v.next is the call that it is in afterwards.                   *)

NetState(p) ==
  [p |-> p, sem |-> semtab, free |-> netfree, pkt |-> netpkt, udp |-> udptab, icmp |-> icmptab,
   arp |-> arpcache, oq |-> ipoqueue, box |-> netinbox, wild |-> wild,
   misdirected |-> misdirected, next |-> Idle]

netstep(v) ==
  /\ semtab' = v.sem /\ netfree' = v.free /\ netpkt' = v.pkt /\ udptab' = v.udp
  /\ icmptab' = v.icmp /\ arpcache' = v.arp /\ ipoqueue' = v.oq /\ netinbox' = v.box
  /\ wild' = v.wild /\ misdirected' = v.misdirected
  /\ call' = [call EXCEPT ![v.p] = v.next]
  /\ masked' = IF v.next.op # "getbuf" \/ WaitsIn(v.sem, v.p) THEN None ELSE Preempts(v.sem, v.p)
  /\ UNCHANGED <<panicked, kills, ipvalid, netwakes>>

freebuf(v, b) ==
  [v EXCEPT !.free = @ \cup {b}, !.sem = signal(@, netbufs), !.pkt[b] = NoPkt]

sendok(v, pid) == [v EXCEPT !.box[pid] = IF @ = NoNetMsg /\ netwakes THEN "OK" ELSE @]

\* getbuf(): the process goes on with c at once or when it has been given a buffer.
getbuf(v, c) ==
  [v EXCEPT !.sem = wait(@, netbufs, v.p), !.next = [op |-> "getbuf", then |-> c]]

-----------------------------------------------------------------------------
(* Incoming packets                                                        *)

takes(e, k) ==
  /\ e.state # "free" /\ k.dport = e.locport
  /\ e.remport \in {0, k.sport} /\ e.remip \in {Zero, k.src}

udp_in(v, b) ==
  LET room == {s \in UdpSlots : takes(v.udp[s], v.pkt[b]) /\ Len(v.udp[s].queue) < UDP_QSIZ}
      s == Min(room)
      w == [v EXCEPT !.udp[s].queue = Append(@, b), !.udp[s].state = "used", !.pkt[b] = NoPkt]
  IN  IF room = {} THEN freebuf(v, b)
      ELSE IF v.udp[s].state = "recv" THEN sendok(w, v.udp[s].pid) ELSE w

\* ip_enqueue(): the semaphore counts the packets in the queue.
ip_enqueue(v, b) ==
  IF v.sem[iqsem].count >= IP_OQSIZ THEN freebuf(v, b)
  ELSE [v EXCEPT !.oq = Append(@, b), !.sem = signal(@, iqsem)]

\* The reply to the echo request in b waits for a buffer; nobody checks whether
\* the queue of the entry has room for a reply.
icmp_in(v, b) ==
  LET k == v.pkt[b]
      s == k.ident
      e == v.icmp[s]
      w == [v EXCEPT !.icmp[s] = [e EXCEPT !.count = @ + 1, !.queue[e.tail] = b,
                                           !.tail = (@ + 1) % ICMP_QSIZ, !.seen = @ + 1,
                                           !.state = "used"],
                     !.pkt[b] = NoPkt,
                     !.wild = @ \/ e.count = ICMP_QSIZ]
  IN  IF k.proto = "echo" THEN getbuf(v, [op |-> "reply", buf |-> b])
      ELSE IF s \notin IcmpSlots \/ e.state = "free" \/ k.src # e.remip THEN freebuf(v, b)
      ELSE IF e.state = "recv" THEN sendok(w, e.pid) ELSE w

ip_local(v, b) ==
  IF v.pkt[b].proto = "udp" THEN udp_in(v, b)
  ELSE IF v.pkt[b].proto \in {"echo", "echo reply"} THEN icmp_in(v, b)
  ELSE freebuf(v, b)

\* Until the address is known, only UDP is taken (for DHCP).
ip_in(v, b) ==
  LET k == v.pkt[b]
  IN  IF k.dst = IP_BCAST \/ (IF ipvalid THEN k.dst = Me ELSE k.proto = "udp") THEN ip_local(v, b)
      ELSE freebuf(v, b)

-----------------------------------------------------------------------------
(* ARP and output                                                          *)

\* A free entry or else the first resolved one, which is forgotten.
arp_alloc(v) ==
  LET free == {i \in ArpSlots : v.arp[i].state = "free"}
      resolved == {i \in ArpSlots : v.arp[i].state = "resolved"}
  IN  IF free # {} THEN Min(free) ELSE IF resolved # {} THEN Min(resolved) ELSE SYSERR

arpslot(v, addr) ==
  LET here == {i \in ArpSlots : v.arp[i].state # "free" /\ v.arp[i].addr = addr}
  IN  IF here = {} THEN SYSERR ELSE Min(here)

\* arp_in() with a packet in b that announces that the host spa has the address
\* sha, and may be a request for the address of tpa.
arp_in(v, b, spa, sha, request, tpa) ==
  LET i == arpslot(v, spa)
      e == v.arp[i]
      w == IF i = SYSERR THEN v
           ELSE IF e.state = "pending"
           THEN sendok([v EXCEPT !.arp[i].haddr = sha, !.arp[i].state = "resolved"], e.pid)
           ELSE [v EXCEPT !.arp[i].haddr = sha]
      n == arp_alloc(v)
      new == [arp_free EXCEPT !.state = "resolved", !.addr = spa, !.haddr = sha]
  IN  IF request /\ ipvalid /\ tpa = Me /\ i = SYSERR /\ n # SYSERR
      THEN freebuf([v EXCEPT !.arp[n] = new], b)
      ELSE freebuf(w, b)

\* ip_out(): the frame with the packet in b goes to mac, which is host's.
ip_out(v, b, host, mac) ==
  freebuf([v EXCEPT !.misdirected = @ \/ <<host, mac>> \notin announced], b)

nexthop(dest) ==
  IF ~ipvalid \/ dest \in LocalHosts THEN dest ELSE iprouter

\* arp_resolve() and ip_out().  A second process that asks for an address is
\* refused while the first one waits.
resolve_and_send(v, b) ==
  LET host == nexthop(v.pkt[b].dst)
      i == arpslot(v, host)
      n == arp_alloc(v)
  IN  IF host = Zero THEN freebuf(v, b)
      ELSE IF i # SYSERR
      THEN IF v.arp[i].state = "resolved" THEN ip_out(v, b, host, v.arp[i].haddr) ELSE freebuf(v, b)
      ELSE IF n = SYSERR THEN freebuf(v, b)
      ELSE [v EXCEPT !.arp[n] = [arp_free EXCEPT !.state = "pending", !.addr = host, !.pid = v.p],
                     !.box[v.p] = NoNetMsg, !.pkt[b] = NoPkt,
                     !.next = [op |-> "arp", buf |-> b, slot |-> n, host |-> host, tries |-> 1]]

ip_send(v, b) ==
  LET dest == v.pkt[b].dst
  IN  IF dest = Loop \/ (ipvalid /\ dest = Me) THEN ip_local(v, b)
      ELSE IF dest = IP_BCAST THEN freebuf(v, b)
      ELSE resolve_and_send(v, b)

-----------------------------------------------------------------------------
(* The processes                                                           *)

Ready(p) == call[p] # Idle /\ ~Waiting(p) /\
  (call[p].op \in {"getbuf", "ipout"} \/ netinbox[p] # NoNetMsg)

\* The network processes come first, and a process in a call before the next one.
NetTurn(p, op) ==
  /\ ~wild
  /\ Resumes(p, op)
  /\ \A q \in {netin, ipout} \ {p} : ~Ready(q)

\* A network process goes back to the start of its loop.
netloops(v) ==
  IF v.next # Idle THEN v
  ELSE IF v.p = netin THEN getbuf(v, [op |-> "read", buf |-> NoNetBuf])
  ELSE IF v.p = ipout THEN [v EXCEPT !.sem = wait(@, iqsem, ipout), !.next = [op |-> "ipout"]]
  ELSE v

\* The process has the buffer that it waited for.
net_getbuf(p) ==
  LET c == call[p].then
      b == Min(netfree)
      v == [NetState(p) EXCEPT !.free = @ \ {b}]
      k == netpkt[c.buf]
      reply == Icmp("echo reply", IF ipvalid THEN Me ELSE Zero, k.src, k.ident)
  IN  /\ NetTurn(p, "getbuf")
      /\ \/ /\ c.op = "read"
            /\ netstep([v EXCEPT !.next = [op |-> "read", buf |-> b]])
         \/ /\ c.op = "reply"
            /\ netstep(netloops(freebuf(ip_enqueue([v EXCEPT !.pkt[b] = reply], b), c.buf)))
         \/ /\ c.op = "send"
            /\ netstep(netloops(ip_send([v EXCEPT !.pkt[b] = c.pkt], b)))
      /\ UNCHANGED announced

\* A frame arrives with a packet, or with what neither IP nor ARP takes.
netin_ip(k) ==
  LET b == call[netin].buf
  IN  /\ NetTurn(netin, "read")
      /\ netstep(netloops(ip_in([NetState(netin) EXCEPT !.pkt[b] = k], b)))
      /\ UNCHANGED announced

netin_arp(spa, sha, request, tpa) ==
  /\ NetTurn(netin, "read")
  /\ netstep(netloops(arp_in(NetState(netin), call[netin].buf, spa, sha, request, tpa)))
  /\ announced' = announced \cup {<<spa, sha>>}

netin_other ==
  /\ NetTurn(netin, "read")
  /\ netstep(netloops(freebuf(NetState(netin), call[netin].buf)))
  /\ UNCHANGED announced

\* The next packet of the IP output queue.
ipout_next ==
  LET b == Head(ipoqueue)
      v == [NetState(ipout) EXCEPT !.oq = Tail(@)]
      dest == netpkt[b].dst
  IN  /\ NetTurn(ipout, "ipout")
      /\ netstep(netloops(
           IF dest = IP_BCAST THEN freebuf(v, b)
           ELSE IF ipvalid /\ dest = Me THEN ip_local(v, b)
           ELSE resolve_and_send(v, b)))
      /\ UNCHANGED announced

\* recvtime() in arp_resolve() has returned a message, whoever sent it, or TIMEOUT.
arp_resolve(p) ==
  LET c == call[p]
      v == [NetState(p) EXCEPT !.box[p] = NoNetMsg]
  IN  /\ NetTurn(p, "arp")
      /\ netstep(netloops(
           IF netinbox[p] # NoNetMsg THEN ip_out(v, c.buf, c.host, arpcache[c.slot].haddr)
           ELSE IF c.tries < ARP_RETRY THEN [v EXCEPT !.next = [c EXCEPT !.tries = @ + 1]]
           ELSE freebuf([v EXCEPT !.arp[c.slot].state = "free"], c.buf)))
      /\ UNCHANGED announced

-----------------------------------------------------------------------------
(* UDP and ICMP for users                                                  *)

NetCall(p) == NetTurn(p, "user") /\ p \in NetUsers
netcall(v) == netstep(v) /\ UNCHANGED announced

udp_register(p, remip, remport, locport) ==
  LET free == {s \in UdpSlots : udptab[s].state = "free"}
      e == [udp_free EXCEPT !.state = "used", !.locport = locport, !.remport = remport,
                            !.remip = remip]
  IN  /\ NetCall(p) /\ free # {}
      /\ \A s \in UdpSlots \ free :
           <<udptab[s].remip, udptab[s].remport, udptab[s].locport>> # <<remip, remport, locport>>
      /\ netcall([NetState(p) EXCEPT !.udp[Min(free)] = e])

\* The next packet of a queue that should have one.
udp_take(v, s) ==
  IF v.udp[s].queue = <<>> THEN [v EXCEPT !.wild = TRUE]
  ELSE freebuf([v EXCEPT !.udp[s].queue = Tail(@)], Head(v.udp[s].queue))

udp_recv(p, s) ==
  LET v == NetState(p)
  IN  /\ NetCall(p) /\ udptab[s].state = "used"
      /\ netcall(IF udptab[s].queue # <<>> THEN udp_take(v, s)
                 ELSE [v EXCEPT !.udp[s].state = "recv", !.udp[s].pid = p, !.box[p] = NoNetMsg,
                                !.next = [op |-> "udp recv", slot |-> s]])

udp_received(p) ==
  LET s == call[p].slot
      v == [NetState(p) EXCEPT !.udp[s].state = "used", !.box[p] = NoNetMsg]
  IN  /\ NetTurn(p, "udp recv")
      /\ netcall(IF netinbox[p] = "OK" THEN udp_take(v, s) ELSE v)

\* udp_send() sends to the address of the slot, udp_sendto() to any.
udp_sendto(p, s, remip, remport) ==
  /\ NetCall(p) /\ udptab[s].state # "free"
  /\ netcall(getbuf(NetState(p),
       [op |-> "send", buf |-> NoNetBuf,
        pkt |-> Udp(IF ipvalid THEN Me ELSE Zero, remip, udptab[s].locport, remport)]))
udp_send(p, s) ==
  udptab[s].remip # Zero /\ udp_sendto(p, s, udptab[s].remip, udptab[s].remport)

\* (Variant: the packets in the queue are forgotten.)
udp_release_leak(p, s) ==
  LET v == NetState(p)
  IN  /\ NetCall(p) /\ udptab[s].state # "free"
      /\ netcall([v EXCEPT !.udp[s].state = "free", !.udp[s].queue = <<>>])

udp_release(p, s) ==
  LET v == FoldLeft(freebuf, NetState(p), udptab[s].queue)
  IN  /\ NetCall(p) /\ udptab[s].state # "free"
      /\ netcall([v EXCEPT !.udp[s].state = "free", !.udp[s].queue = <<>>])

icmp_register(p, remip) ==
  LET free == {s \in IcmpSlots : icmptab[s].state = "free"}
  IN  /\ NetCall(p) /\ free # {}
      /\ \A s \in IcmpSlots \ free : icmptab[s].remip # remip
      /\ netcall([NetState(p) EXCEPT
                    !.icmp[Min(free)] = [icmp_free EXCEPT !.state = "used", !.remip = remip]])

\* The head goes round at ICMP_SLOTS, and not at ICMP_QSIZ.
icmp_take(v, s) ==
  LET e == v.icmp[s]
  IN  IF e.count = 0 \/ e.head >= ICMP_QSIZ THEN [v EXCEPT !.wild = TRUE]
      ELSE freebuf([v EXCEPT !.icmp[s] = [e EXCEPT !.queue[e.head] = NoNetBuf,
                                                   !.head = (@ + 1) % ICMP_SLOTS,
                                                   !.count = @ - 1]],
                   e.queue[e.head])

icmp_recv(p, s) ==
  LET v == NetState(p)
  IN  /\ NetCall(p) /\ icmptab[s].state = "used"
      /\ netcall(IF icmptab[s].count # 0 THEN icmp_take(v, s)
                 ELSE [v EXCEPT !.icmp[s].state = "recv", !.icmp[s].pid = p, !.box[p] = NoNetMsg,
                                !.next = [op |-> "icmp recv", slot |-> s]])

\* (Variant: the entry stays marked after TIMEOUT.)
icmp_received_stays(p) ==
  LET s == call[p].slot
      v == [NetState(p) EXCEPT !.box[p] = NoNetMsg]
  IN  /\ NetTurn(p, "icmp recv")
      /\ netcall(IF netinbox[p] = "OK" THEN icmp_take([v EXCEPT !.icmp[s].state = "used"], s) ELSE v)

icmp_received(p) ==
  LET s == call[p].slot
      v == [NetState(p) EXCEPT !.icmp[s].state = "used", !.box[p] = NoNetMsg]
  IN  /\ NetTurn(p, "icmp recv")
      /\ netcall(IF netinbox[p] = "OK" THEN icmp_take(v, s) ELSE v)

icmp_send(p, remip, ident) ==
  /\ NetCall(p)
  /\ netcall(getbuf(NetState(p),
       [op |-> "send", buf |-> NoNetBuf,
        pkt |-> Icmp("echo", IF ipvalid THEN Me ELSE Zero, remip, ident)]))

icmp_release(p, s) ==
  LET v == FoldLeft(LAMBDA x, i : icmp_take(x, s), NetState(p), [i \in 1..icmptab[s].count |-> i])
  IN  /\ NetCall(p) /\ icmptab[s].state = "used"
      /\ netcall([v EXCEPT !.icmp[s] = IF v.wild THEN @ ELSE icmp_free])

\* external: the address of the interface has become known.
address_known ==
  /\ masked = None
  /\ ~ipvalid /\ ipvalid' = TRUE
  /\ UNCHANGED <<callVars, netfree, netpkt, udptab, icmptab, arpcache, ipoqueue, netinbox, netwakes,
                 wild, announced, misdirected>>

Hosts == LocalHosts \cup FarHosts

udp_arrives == \E h \in Hosts, d \in {Me, IP_BCAST}, s, t \in UdpPorts : netin_ip(Udp(h, d, s, t))
icmp_arrives ==
  \/ \E h \in Hosts : netin_ip(Icmp("echo", h, Me, 0))
  \/ \E h \in Hosts, i \in 0..ICMP_SLOTS :
       /\ i \in IcmpSlots => icmptab[i].seen < PingMax
       /\ netin_ip(Icmp("echo reply", h, Me, i))
arp_arrives == \E h \in LocalHosts, m \in Macs, r \in BOOLEAN : netin_arp(h, m, r, Me)
other_arrives ==
  \/ \E h \in Hosts : netin_ip([NoPkt EXCEPT !.proto = "other", !.src = h, !.dst = Me])
  \/ netin_other

udp_call(p) ==
  \/ \E s \in UdpSlots : udp_recv(p, s) \/ udp_send(p, s) \/ udp_release(p, s)
  \/ \E s \in UdpSlots, h \in Hosts \cup {IP_BCAST, Loop}, t \in UdpPorts : udp_sendto(p, s, h, t)
  \/ \E h \in Hosts \cup {Zero}, r \in UdpPorts \cup {0}, t \in UdpPorts : udp_register(p, h, r, t)
icmp_call(p) ==
  \/ \E h \in Hosts \cup {Me} : icmp_register(p, h)
  \/ \E s \in IcmpSlots : icmp_recv(p, s) \/ icmp_release(p, s)
  \/ \E h \in Hosts \cup {Me, Loop}, i \in IcmpSlots : icmp_send(p, h, i)

UdpNext == udp_arrives \/ \E p \in NetUsers : udp_call(p) \/ udp_received(p)
IcmpNext == icmp_arrives \/ \E p \in NetUsers : icmp_call(p) \/ icmp_received(p)
ArpNext == arp_arrives \/ \E p \in Procs : arp_resolve(p)
BufNext == other_arrives \/ ipout_next \/ address_known \/ \E p \in Procs : net_getbuf(p)

NetNext == UdpNext \/ IcmpNext \/ ArpNext \/ BufNext

NetSpec == net_init /\ [][NetNext]_<<callVars, netVars>>

-----------------------------------------------------------------------------
(* Properties                                                              *)

\* The buffers that the call c holds.
held(c) ==
  (IF "buf" \in DOMAIN c THEN {c.buf} ELSE IF c.op = "getbuf" THEN {c.then.buf} ELSE {}) \ {NoNetBuf}

\* Every buffer is free, in one queue, or held by one process: no packet is lost on
\* an error path, freed twice, or left behind in a queue that is released; and the
\* semaphore counts the free ones that nobody has been promised
\* (ip.c:60-132, udp.c:56-76, udp.c:534, icmp.c:86, arp.c:185-270).
PacketsConserved ==
  LET icmp(s) == {icmptab[s].queue[i] : i \in 0..(ICMP_QSIZ - 1)} \ {NoNetBuf}
      queued == [s \in UdpSlots |-> Range(udptab[s].queue)]
      places(b) ==
        Cardinality({p \in Procs : b \in held(call[p])})
          + Cardinality({s \in UdpSlots : b \in queued[s]})
          + Cardinality({s \in IcmpSlots : b \in icmp(s)})
          + (IF b \in Range(ipoqueue) THEN 1 ELSE 0) + (IF b \in netfree THEN 1 ELSE 0)
  IN  ~wild =>
        /\ \A b \in NetBufs : places(b) = 1
        /\ semtab[netbufs].count
             = Cardinality(netfree) - Cardinality({p \in Procs : call[p].op = "getbuf"})

\* A process that has been told of a packet finds one, and no queue is read past its
\* end (udp.c:202, icmp.c:200-203), with no more echo replies to a registration than
\* its queue has room for, which icmp.c:86 does not check.
QueuesIntact == ~wild

\* A frame with a packet goes to an address that the next hop has announced
\* (arp.c:139, arp.c:285).
MacAnnounced == ~misdirected

\* The process that an entry is marked for is the one that waits with it; and if
\* send() delivers messages, it waits for something that is not there: nobody sleeps
\* on a packet or an address that has come (udp.c:62, udp.c:185-190, icmp.c:91, arp.c:80-84, arp.c:200).
WaitersAreMarked ==
  LET sleeps(p, op) == call[p].op = op /\ netinbox[p] = NoNetMsg
  IN  /\ netwakes => \A p \in Procs :
           /\ sleeps(p, "udp recv") =>
                LET e == udptab[call[p].slot]
                IN  e.state = "recv" /\ e.pid = p /\ e.queue = <<>>
           /\ sleeps(p, "icmp recv") =>
                LET e == icmptab[call[p].slot] IN e.state = "recv" /\ e.pid = p /\ e.count = 0
           /\ sleeps(p, "arp") =>
                LET e == arpcache[call[p].slot]
                IN  e.state = "pending" /\ e.pid = p /\ e.addr = call[p].host
      /\ \A s \in UdpSlots : udptab[s].state = "recv" => sleeps(udptab[s].pid, "udp recv")
      /\ \A s \in IcmpSlots : icmptab[s].state = "recv" => sleeps(icmptab[s].pid, "icmp recv")
      /\ \A i \in ArpSlots : arpcache[i].state = "pending" => sleeps(arpcache[i].pid, "arp")

\* No address is in two entries of the ARP cache (arp.c:118, arp.c:232).
ArpOnce ==
  \A i, j \in ArpSlots :
    arpcache[i].state # "free" /\ arpcache[j].state # "free" /\ arpcache[i].addr = arpcache[j].addr
      => i = j
=============================================================================
