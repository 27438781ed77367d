------------------------------ MODULE MCNetwork ------------------------------
(***************************************************************************)
(* Instances for TLC of the network stack, its clients, the Ethernet       *)
(* driver, the remote disk and the remote file system.  These share no     *)
(* state, so one run checks them side by side: `part' says which one takes *)
(* steps, and in which situation, named by the restrictions below.         *)
(***************************************************************************)
EXTENDS Network, NetClients, Ethernet, RemoteDisk, RemoteFS, TLC

VARIABLE part

NetParts == {"udp", "icmp", "send"}
ClientParts == {"dhcp", "dns", "tftp"}
EthParts == {"transmit", "receive"}
RdsParts == {"any", "calm", "lossy"}
RfsParts == {"faults", "many", "refused"}

-----------------------------------------------------------------------------
(* Values of the constants                                                 *)

MCDomainNames == {<<"a">>, <<"a", "b">>}
MCZoneAnswers ==
  LET a(n, t, x) == [rname |-> n, atype |-> t, addr |-> x]
  IN  [n \in MCDomainNames |->
        IF n = <<"a">> THEN {<<a(n, "A", "x"), a(n, "A", "y")>>, <<a(n, "NS", "w"), a(n, "A", "x")>>}
        ELSE {<<>>, <<a(n, "A", "z")>>}]
MCRfModes == {<<>>, <<"n">>, <<"x">>}

Symmetry == Permutations(NetUsers)

-----------------------------------------------------------------------------
(* The network                                                             *)

\* A slot has one user: while one waits in it or has been woken, nobody else takes
\* its packets or releases it (udp_recv() and icmp_recv() do not look after this).
OneUser ==
  \A p \in NetUsers : call[p] = call'[p] =>
    /\ call[p].op = "udp recv" =>
         LET s == call[p].slot
         IN  udptab'[s].state # "free" /\ Len(udptab'[s].queue) >= Len(udptab[s].queue)
    /\ call[p].op = "icmp recv" =>
         LET s == call[p].slot
         IN  icmptab'[s].state # "free" /\ icmptab'[s].count >= icmptab[s].count

\* Users receive and the address does not change.
UdpPart ==
  /\ icmptab' = icmptab /\ announced' = announced /\ ipvalid' = ipvalid
  /\ \A b \in NetBufs : netpkt'[b].proto = "udp"
  /\ \A s \in UdpSlots :
       udptab'[s].remip # "r" /\ (s = 1 => udptab'[s].remip = Zero /\ udptab'[s].remport = 0)
  /\ \A p \in NetUsers : call'[p].op \in {"user", "udp recv"}

\* Users receive echo replies.
IcmpPart ==
  /\ udptab' = udptab /\ announced' = announced
  /\ \A b \in NetBufs : netpkt'[b].proto # "echo"
  /\ \A p \in NetUsers : call'[p].op \in {"user", "icmp recv"}

\* One user at a time sends, and echo requests come in.  Two next hops and as many
\* entries: no entry of the ARP cache is taken from a process that has been told
\* of its address and has not run yet (arp.c:298-327).  If nobody is ever told, only the
\* router announces its address.
SendPart ==
  /\ icmptab' = icmptab
  /\ \A s \in UdpSlots :
       udptab'[s].state = "used" => s = 0 /\ udptab'[s].remip = "h" /\ udptab'[s].remport = 1
  /\ \A p \in NetUsers : call'[p].op # "udp recv"
  /\ \A p \in Procs :
       call'[p].op = "getbuf" /\ call'[p].then.op = "send" =>
         call'[p].then.pkt \in {Udp(Me, "f", 1, 1), Udp(Me, "h", 1, 1), Icmp("echo", Me, Me, 0)}
  /\ Cardinality({p \in NetUsers : call'[p] # Idle}) <= 1
  /\ announced' \subseteq {<<"r", "B">>} \cup IF netwakes THEN {<<"h", "A">>} ELSE {}
  /\ \A b \in NetBufs :
       /\ netpkt'[b].src # "r" /\ netpkt'[b].dst # "r"
       /\ netpkt'[b].proto = "udp" => netpkt'[b].src \in {Zero, Me}
       /\ netpkt'[b].proto = "echo" => netpkt'[b].src \in {"f", Me}

\* The steps of NetNext that the restrictions leave.
NetPartNext ==
  \/ part # "icmp" /\ UdpNext
  \/ part # "udp" /\ IcmpNext
  \/ part = "send" /\ ArpNext
  \/ BufNext

NetRestricted ==
  /\ OneUser
  /\ part = "udp" => UdpPart
  /\ part = "icmp" => IcmpPart
  /\ part = "send" => SendPart

-----------------------------------------------------------------------------
(* The clients                                                             *)

\* Each client by itself; one of the DHCP servers may not say who it is, and none when
\* dnslookup() asks, which one of them answers soon.
ClientsRestricted ==
  /\ part = "dhcp" =>
       /\ \A p \in Clients : /\ clients'[p].op \in {"rest", "dhcp"}
                             /\ clients'[p].op = "dhcp" => clients'[p].name = NoName
       /\ \A m \in dhcpwire' : m.kind = "offer" /\ m.yip = "s2" => m.server = "s2"
  /\ part = "dns" =>
       /\ \A p \in Clients :
            /\ clients'[p].op # "tftp"
            /\ clients'[p].op = "dhcp" =>
                 clients'[p].name # NoName /\ clients'[p].i = 1 /\ clients'[p].j <= 2
       /\ \A m \in dhcpwire' : m.server # "s2" /\ (m.kind = "offer" => m.server # NoServer)
  /\ part = "tftp" => \A p \in Clients : clients'[p].op \in {"rest", "tftp"}

-----------------------------------------------------------------------------
(* The Ethernet driver                                                     *)

EthRestricted ==
  /\ part = "transmit" => rxRing' = rxRing /\ rxHead' = rxHead /\ ed_mca' = ed_mca
  /\ part = "receive" => txRing' = txRing /\ txHead' = txHead /\ txTail' = txTail
       /\ \A p \in Procs : call'[p].op # "tx"

-----------------------------------------------------------------------------
(* The remote disk and the remote file system                              *)

\* The server executes each request once and at once, and the first reply is received.
Calm ==
  /\ \A p \in Procs :
       /\ call[p].op = "xmit" /\ call'[p] # call[p] => call'[p].op = "recv"
       /\ call[p].op = "recv" /\ call'[p] # call[p] =>
            call'[p].op # "xmit" /\ \E r \in replies : r.seq = call[p].seq
  /\ panicked' => \E p \in RdsUsers : call[p].op = "alloc" /\ ~Waiting(p)
  /\ \A r \in replies' \ replies : r.seq = rd_seq - 1 /\ \A x \in replies : x.seq # r.seq
  /\ server' # server => replies' # replies
  /\ \A f \in faults' : f[1] \notin {"late request", "old reply"}

\* One user at a time; the open is answered at once, nothing is deleted, block 1 is
\* written before the first other exchange or not at all, and the last one is the only
\* one that may read.
Lossy ==
  /\ rd_state' # "free"
  /\ rd_seq' > 2 => last'[1] = last[1]
  /\ \A p \in RdsUsers :
       /\ call[p].op = "xmit" /\ call'[p] # call[p] => call'[p].op = "recv"
       /\ call[p].op = "recv" => call'[p].op # "xmit"
       /\ call'[p].op = "xmit" => call'[p].type = "open"
  /\ \A m \in requests' : m.type = "read" => m.seq = MaxSeq - 1
  /\ \A r \in replies' : r.ok
  /\ \E p \in RdsUsers : call'[p] = Idle

\* Block 1 is written with one value only.
RdsRestricted ==
  /\ part \in RdsParts => last'[1] # 2
  /\ part = "any" => rd_seq' <= 3
  /\ part = "calm" => rd_seq' <= IF rdwakes /\ rdmsgblk = 0 THEN 4 ELSE 3
  /\ part = "calm" => Calm
  /\ part = "lossy" => Lossy

\* One caller at a time, one name, under which the first request makes something, one
\* more request if that is a directory, two if not and the first of them writes or
\* deletes, and every fault of the network.
Faults ==
  /\ \E p \in RfsProcs : call'[p] = Idle
  /\ kills' = 0
  /\ rf_seq' > 3 => \A m \in rfrequests' : m.seq = 2 => m.type \in {"write", "delete"}
  /\ \A p \in RfsProcs : "name" \in DOMAIN call'[p] => call'[p].name = "a"
  /\ \A p \in RfsProcs :
       /\ call'[p].op # "rfs close"
       /\ call'[p].op = "rfs seek" => rf_seq' = 2 /\ rfltab'[0].used
       /\ call'[p].op = "rfs open" => call'[p].mode # <<"x">>
       /\ "dev" \in DOMAIN call'[p] => call'[p].dev = 0
  /\ \A m \in rfrequests' : m.seq = 1 => m.type \in {"mkdir", "open"} /\ "n" \notin m.mode
  /\ \A m \in rfrequests' : m.type = "mkdir" /\ m.seq = 1 => rf_seq' <= 3
  /\ \A d \in Rfl : rfltab'[d].used => d = 0

\* Callers that meet on the first file device, and a server that answers the first
\* request only.
Many ==
  /\ \A r \in rfreplies' : r.seq = 1
  /\ rf_seq' <= 3
  /\ \A p \in RfsProcs :
       /\ call'[p].op = "rfscomm" => call'[p].tries = 1
       /\ call'[p].op = "rfs control" => call'[p].func = "delete"
       /\ call'[p].op # "rfs seek"
       /\ "dev" \in DOMAIN call'[p] => call'[p].dev = 0
       /\ call'[p].op = "rfs open" => call'[p].mode = <<>> /\ call'[p].name \in RfNames

\* Nothing is sent: the name or a letter of the mode is not one, or no file is open.
Refusals ==
  /\ rfrequests' = {}
  /\ \A p \in RfsProcs :
       /\ call'[p].op \in {"user", "rfs open", "rfs control", "rfs seek"}
       /\ call'[p].op = "rfs open" =>
            (call'[p].mode = <<"x">>) = (call'[p].name \in RfNames)

RfsRestricted ==
  /\ part = "refused" => Refusals
  /\ part = "faults" => Faults
  /\ part = "many" => Many

-----------------------------------------------------------------------------
(* The specification                                                       *)

MCInit ==
  /\ part \in NetParts \cup ClientParts \cup EthParts \cup RdsParts \cup RfsParts
  /\ net_tables /\ clients_init /\ eth_rings /\ rds_tables /\ rfsinit
  /\ \/ part \in NetParts /\ net_processes
     \/ part \in EthParts /\ eth_processes
     \/ part \in RdsParts /\ rds_processes
     \/ part \in ClientParts \cup RfsParts /\ rfs_processes
  /\ ipvalid \in IF part = "udp" THEN BOOLEAN ELSE {TRUE}
  /\ part \notin NetParts => netwakes
  /\ ~netwakes => ipvalid
  /\ part # "calm" => rdwakes
  /\ part \notin {"any", "calm"} => rdmsgblk = 0

MCNext ==
  /\ UNCHANGED part
  /\ \/ /\ part \in NetParts /\ NetPartNext /\ NetRestricted
        /\ UNCHANGED <<clientVars, ethVars, rdVars, rfVars>>
     \/ /\ part \in ClientParts /\ ClientsNext /\ ClientsRestricted
        /\ UNCHANGED <<callVars, netVars, ethVars, rdVars, rfVars>>
     \/ /\ part \in EthParts /\ EthNext /\ EthRestricted
        /\ UNCHANGED <<netVars, clientVars, rdVars, rfVars>>
     \/ /\ part \in RdsParts /\ RdNext /\ RdsRestricted
        /\ UNCHANGED <<netVars, clientVars, ethVars, rfVars>>
     \/ /\ part \in RfsParts /\ RfsNext /\ RfsRestricted
        /\ UNCHANGED <<netVars, clientVars, ethVars, rdVars>>

mcVars == <<part, callVars, netVars, clientVars, ethVars, rdVars, rfVars>>
MCSpec == MCInit /\ [][MCNext]_mcVars

-----------------------------------------------------------------------------
(* What the parts promise.  The state of the others is the initial one.    *)

\* Network: no packet is lost, freed twice or left behind, and a process that has been
\* told of one finds it (ip.c:60-132, udp.c:202, udp.c:534, icmp.c:200).
NetPacketsConserved == part \in NetParts => PacketsConserved /\ QueuesIntact

\* Network: the tables name the processes that wait, frames go to addresses that were
\* announced, and no address is cached twice (udp.c:62, arp.c:139, arp.c:232).
NetTablesSound == part \in NetParts => WaitersAreMarked /\ MacAnnounced /\ ArpOnce

\* NetClients: what a client returns is what a server has granted, answered or sent,
\* and only two ways out of a call leave its UDP slot behind (dhcp.c:161-284, dns.c:46-77,
\* tftp.c:82-98).
ClientsAnswered ==
  part \in ClientParts => AddressGranted /\ SlotsWithOwners /\ AnswerIsForName /\ FileInOrder

\* Ethernet: frames are sent and read in order, once, and the semaphores count the
\* descriptors (ethwrite.c:27-66, ethread.c:30-97, ethhandler.c:76).
EthFramesInOrder ==
  part \in EthParts => SlotsReturned /\ WaitsForFull /\ FramesToSend /\ FramesToRead

\* RemoteDisk: every buffer is on one list, the semaphores count them, and everybody
\* who waits is served (rdswrite.c:63, rdsprocess.c:33, rdsprocess.c:101).
RdsAccounted ==
  part \in RdsParts =>
    BuffersOnLists /\ AvailCounted /\ RequestsCounted /\ NobodyForgotten /\ PendingIsOpening

\* RemoteDisk: the server or a request has what was last written, and so have the cache
\* and the callers of read (rdscomm.c:98, rdsread.c:41, rdsprocess.c:73).
RdsCoherent == part \in RdsParts => LastIsWritten /\ FoundIsLast /\ ReadIsWritten

\* RemoteFS: every way out of a call gives the mutex back, which protects the entry that
\* an open has chosen (rfsopen.c:36-110).
RfsMutexReturned == part \in RfsParts => RfsMutexAccounted /\ OpensKeepTheirSlot

\* RemoteFS: what a caller is told has happened, or has not (rfscomm.c:34-79).
RfsAnswersHold == part \in RfsParts => AnswerHolds /\ RefusedUnchanged
=============================================================================
