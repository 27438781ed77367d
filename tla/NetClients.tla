------------------------------ MODULE NetClients ------------------------------
(***************************************************************************)
(* The clients of UDP: getlocalip() asks DHCP for an address, dnslookup()  *)
(* asks for the address of a name (and calls getlocalip() first), and      *)
(* tftpget() fetches a file block by block.                                *)
(*                                                                         *)
(* Each sends a datagram and waits for a reply with a time limit.  What    *)
(* has been sent may come at any time later, any number of times, or       *)
(* never.  A wait may time out although a reply has come: with the send()  *)
(* of this repository, which wakes nobody, every wait does.  A message of  *)
(* another process, which is not that of UDP, makes a wait fail.  The      *)
(* servers are external.  Message layouts are left out.                    *)
(***************************************************************************)
EXTENDS Integers, Sequences, FiniteSets, SequencesExt

CONSTANTS
  Clients,                      \* processes that call the clients
  UDP_PAIRS,                    \* slots of the table of UDP (UDP_SLOTS)
  DHCP_RETRY, DNSRETRY, TFTP_MAXRETRIES,
  DhcpServers,                  \* each leases the address of its own name
  NamesDns,                     \* the one that also tells the address of the DNS server
  DomainNames,                  \* names, as sequences of their parts
  ZoneAddrs,                    \* addresses in answers of the DNS server,
  ZoneAnswers,                  \* which are sequences of [rname, atype, addr]
  LocalNet,                     \* addresses of the local network
  TftpBlocks,                   \* blocks of the file
  MaxSessions                   \* bound of the model: sessions of the TFTP server

\* A DNS server answers about the name that it was asked for.
ASSUME NetClientAssumption ==
  /\ "no server" \notin DhcpServers /\ "nobody" \notin Clients /\ TftpBlocks \in Nat \ {0}
  /\ \A n \in DomainNames :
       ZoneAnswers[n] \subseteq Seq([rname : {n}, atype : {"A", "NS"}, addr : ZoneAddrs])

NoAddr == "0.0.0.0"
NoServer == "no server"
NoName == <<>>
Failed == "SYSERR"
NoData == <<-1>>
Resting == [op |-> "rest"]

VARIABLES
  clients,                      \* what each process is doing
  results,                      \* what its last call returned
  udpslots,                     \* the registered pairs: [service, owner]
  NetData,                      \* the address of the host and that of the DNS server
  dhcpwire, dnswire, tftpwire,  \* datagrams sent
  leases,                       \* external: addresses that DHCP servers have granted
  sessions                      \* external: transfers that the TFTP server has begun

clientVars == <<clients, results, udpslots, NetData, dhcpwire, dnswire, tftpwire, leases, sessions>>

clients_init ==
  /\ clients = [p \in Clients |-> Resting]
  /\ results = [p \in Clients |-> [op |-> "none"]]
  /\ udpslots = {} /\ dhcpwire = {} /\ dnswire = {} /\ tftpwire = {}
  /\ NetData = [ipucast |-> NoAddr, dnsserver |-> FALSE]
  /\ leases = {} /\ sessions = 0

\* A step maps a record of what a client changes.
ClientState(p) ==
  [p |-> p, slots |-> udpslots, data |-> NetData, dhcp |-> dhcpwire, dns |-> dnswire,
   tftp |-> tftpwire, next |-> clients[p], result |-> results[p]]

clientstep(v) ==
  /\ clients' = [clients EXCEPT ![v.p] = v.next]
  /\ results' = [results EXCEPT ![v.p] = v.result]
  /\ udpslots' = v.slots /\ NetData' = v.data
  /\ dhcpwire' = v.dhcp /\ dnswire' = v.dns /\ tftpwire' = v.tftp
  /\ UNCHANGED <<leases, sessions>>

\* DHCP and DNS have one pair of ports each, and a transfer one of its own.
registered(v, service) ==
  \E s \in v.slots : s.service = service /\ (service = "tftp" => s.owner = v.p)
registers(v, service) ==
  ~registered(v, service) /\ Cardinality(v.slots) < UDP_PAIRS
pair(v, service) == [service |-> service, owner |-> v.p]

\* A pair that a call has left registered; that it is nobody's any more is history.
LeftPair == [service |-> "dhcp", owner |-> "nobody"]

returns(v, r) == [v EXCEPT !.next = Resting, !.result = r]
released(v, service) == [v EXCEPT !.slots = @ \ {pair(v, service)}]
left(v, service) == [v EXCEPT !.slots = (@ \ {pair(v, service)}) \cup {LeftPair}]

-----------------------------------------------------------------------------
(* dnslookup(), after getlocalip() has returned                            *)

dns_send(v, name, i) ==
  [v EXCEPT !.dns = @ \cup {[to |-> "server", name |-> name, answers |-> <<>>]},
            !.next = [op |-> "dns", name |-> name, i |-> i]]

dns_start(v, name) ==
  IF ~v.data.dnsserver \/ ~registers(v, "dns")
  THEN returns(v, [op |-> "dns", name |-> name, addr |-> Failed])
  ELSE dns_send([v EXCEPT !.slots = @ \cup {pair(v, "dns")}], name, 1)

\* Of the answers in S, the last one of the local network, or else the first.
chosen(answers, S) ==
  LET local == {i \in S : answers[i].addr \in LocalNet}
  IN  IF local # {} THEN Max(local) ELSE Min(S)

\* (Variant: the type of an answer is not looked at.)
dns_geta_anytype(name, answers) ==
  LET matches == {i \in DOMAIN answers : IsPrefix(name, answers[i].rname)}
  IN  IF matches = {} THEN Failed ELSE answers[chosen(answers, matches)].addr

\* The address of an answer of type A for the name.  A longer name that begins with the
\* name will do.
dns_geta(name, answers) ==
  LET matches == {i \in DOMAIN answers :
                    IsPrefix(name, answers[i].rname) /\ answers[i].atype = "A"}
  IN  IF matches = {} THEN Failed ELSE answers[chosen(answers, matches)].addr

\* A reply, or none in time: the question is asked again.
dns_next(v, addr) ==
  LET c == v.next
  IN  IF addr = Failed /\ c.i < DNSRETRY THEN dns_send(v, c.name, c.i + 1)
      ELSE returns(released(v, "dns"), [op |-> "dns", name |-> c.name, addr |-> addr])

dns_receive(p, m) ==
  /\ clients[p].op = "dns" /\ m \in dnswire /\ m.to = "client"
  /\ clientstep(dns_next(ClientState(p), dns_geta(clients[p].name, m.answers)))

\* udp_recv() has returned TIMEOUT or SYSERR.
dns_timeout(p) ==
  /\ clients[p].op = "dns"
  /\ clientstep(dns_next(ClientState(p), Failed))

-----------------------------------------------------------------------------
(* getlocalip()                                                            *)

\* A call of getlocalip() for itself, or of dnslookup() for a name.
dhcp_return(v, name, addr) ==
  IF name # NoName THEN dns_start(v, name)
  ELSE returns(v, [op |-> "dhcp", name |-> name, addr |-> addr])

dhcp_failed(v, name) ==
  returns(v, [op |-> IF name = NoName THEN "dhcp" ELSE "dns", name |-> name, addr |-> Failed])

dhcp_send(v, m) == [v EXCEPT !.dhcp = @ \cup {m}, !.next.out = m]
Discover == [kind |-> "discover", server |-> NoServer, yip |-> NoAddr]

getlocalip(p, name) ==
  LET v == ClientState(p)
  IN  /\ clients[p] = Resting
      /\ clientstep(
           IF ~registers(v, "dhcp") THEN dhcp_failed(v, name)
           ELSE dhcp_send([v EXCEPT !.slots = @ \cup {pair(v, "dhcp")},
                                    !.next = [op |-> "dhcp", name |-> name, out |-> Discover,
                                              i |-> 1, j |-> 1]],
                          Discover))

\* Three reads, and then the last message is sent again.
dhcp_continue(v) ==
  LET c == v.next
  IN  IF c.j < 3 THEN [v EXCEPT !.next.j = @ + 1]
      ELSE IF c.i < DHCP_RETRY THEN dhcp_send([v EXCEPT !.next.j = 1, !.next.i = @ + 1], c.out)
      ELSE dhcp_failed(released(v, "dhcp"), c.name)

\* An offer is requested from its server; one that does not name its server ends the
\* call, and the slot stays registered.  What is neither an offer nor an
\* acknowledgement is skipped.
dhcp_receive(p, m) ==
  LET v == ClientState(p)
      c == clients[p]
      request == [kind |-> "request", server |-> m.server, yip |-> m.yip]
  IN  /\ c.op = "dhcp" /\ m \in dhcpwire /\ m.kind \notin {"discover", "request"}
      /\ clientstep(
           IF m.kind = "offer" /\ m.server = NoServer THEN dhcp_failed(left(v, "dhcp"), c.name)
           ELSE IF m.kind = "offer" THEN dhcp_continue(dhcp_send(v, request))
           ELSE IF m.kind # "ack" THEN dhcp_continue(v)
           ELSE dhcp_return(released([v EXCEPT !.data.ipucast = m.yip,
                                               !.data.dnsserver = @ \/ m.dns], "dhcp"),
                            c.name, m.yip))

dhcp_timeout(p) ==
  /\ clients[p].op = "dhcp"
  /\ clientstep(dhcp_continue(ClientState(p)))

\* udp_recv() has returned SYSERR: the call ends, and the slot stays registered.
dhcp_error(p) ==
  /\ clients[p].op = "dhcp"
  /\ clientstep(dhcp_failed(left(ClientState(p), "dhcp"), clients[p].name))

-----------------------------------------------------------------------------
(* tftpget()                                                               *)

\* A request or an acknowledgement goes to the port of the server that sent the last
\* datagram, whatever that was.
tftp_send(v) ==
  LET c == v.next
  IN  [v EXCEPT !.tftp = @ \cup {[to |-> "server", who |-> v.p, port |-> c.remport,
                                  kind |-> IF c.expected = 1 THEN "rrq" ELSE "ack",
                                  blk |-> c.expected - 1, last |-> FALSE]}]

tftpget(p) ==
  LET v == ClientState(p)
      c == [op |-> "tftp", expected |-> 1, remport |-> 0, i |-> 1, got |-> <<>>]
  IN  /\ clients[p] = Resting
      /\ clientstep(
           IF ~registers(v, "tftp") THEN returns(v, [op |-> "tftp", got |-> NoData])
           ELSE tftp_send([v EXCEPT !.slots = @ \cup {pair(v, "tftp")}, !.next = c]))

tftp_returns(v, got) == returns(released(v, "tftp"), [op |-> "tftp", got |-> got])

\* tftp_send1() reads until the expected block comes; tftpget() stores it, and sends
\* an acknowledgement.
tftp_receive(p, m) ==
  LET c == clients[p]
      v == [ClientState(p) EXCEPT !.next.remport = m.port]
      w == [v EXCEPT !.next.got = Append(@, m.blk), !.next.expected = @ + 1, !.next.i = 1]
  IN  /\ c.op = "tftp" /\ m \in tftpwire /\ m.to = "client" /\ m.who = p
      /\ clientstep(
           IF m.kind = "error" THEN tftp_returns(v, NoData)
           ELSE IF m.kind # "data" \/ m.blk # c.expected THEN v
           ELSE IF m.last THEN tftp_returns(tftp_send(w), w.next.got)
           ELSE tftp_send(w))

tftp_timeout(p) ==
  LET v == ClientState(p)
  IN  /\ clients[p].op = "tftp"
      /\ clientstep(IF v.next.i < TFTP_MAXRETRIES THEN tftp_send([v EXCEPT !.next.i = @ + 1])
                    ELSE tftp_returns(v, NoData))

\* udp_recvaddr() has returned SYSERR.
tftp_error(p) ==
  /\ clients[p].op = "tftp"
  /\ clientstep(tftp_returns(ClientState(p), NoData))

-----------------------------------------------------------------------------
(* external: the servers and the network                                   *)

servers_unchanged == UNCHANGED <<clients, results, udpslots, NetData>>

\* Each server offers its address, and says who it is or does not; one grants the
\* address to who requests it, or refuses.
dhcp_server(s, m) ==
  LET reply(k) == [kind |-> k, server |-> s, yip |-> s, dns |-> s = NamesDns]
  IN  /\ m \in dhcpwire
      /\ \/ /\ m.kind = "discover" /\ UNCHANGED leases
            /\ \E by \in {s, NoServer} :
                 dhcpwire' = dhcpwire \cup {[reply("offer") EXCEPT !.server = by]}
         \/ /\ m.kind = "request" /\ m.server = s
            /\ \/ dhcpwire' = dhcpwire \cup {reply("ack")} /\ leases' = leases \cup {s}
               \/ dhcpwire' = dhcpwire \cup {reply("nak")} /\ UNCHANGED leases
      /\ servers_unchanged /\ UNCHANGED <<dnswire, tftpwire, sessions>>

dns_server(m) ==
  /\ m \in dnswire /\ m.to = "server"
  /\ \E a \in ZoneAnswers[m.name] :
       dnswire' = dnswire \cup {[to |-> "client", name |-> m.name, answers |-> a]}
  /\ servers_unchanged /\ UNCHANGED <<dhcpwire, tftpwire, leases, sessions>>

\* A read request begins a session with a port of its own; an acknowledgement is
\* answered with the next block, and one to an unknown port with an error.
tftp_server(m) ==
  LET data(port, b) == [to |-> "client", who |-> m.who, port |-> port, kind |-> "data", blk |-> b,
                        last |-> b = TftpBlocks]
  IN  /\ m \in tftpwire /\ m.to = "server"
      /\ \/ /\ m.kind = "rrq" /\ sessions < MaxSessions
            /\ sessions' = sessions + 1
            /\ tftpwire' = tftpwire \cup {data(sessions + 1, 1)}
         \/ /\ m.kind = "ack" /\ m.blk < TftpBlocks /\ UNCHANGED sessions
            /\ tftpwire' = tftpwire \cup {data(m.port, m.blk + 1)}
         \/ /\ m.kind = "rrq" /\ UNCHANGED sessions
            /\ tftpwire' = tftpwire \cup {[data(0, 0) EXCEPT !.kind = "error"]}
      /\ servers_unchanged /\ UNCHANGED <<dhcpwire, dnswire, leases>>

ClientsNext ==
  \/ \E p \in Clients :
       \/ getlocalip(p, NoName) \/ tftpget(p)
       \/ dhcp_timeout(p) \/ dns_timeout(p) \/ tftp_timeout(p) \/ dhcp_error(p) \/ tftp_error(p)
       \/ \E n \in DomainNames : getlocalip(p, n)
       \/ \E m \in dhcpwire : dhcp_receive(p, m)
       \/ \E m \in dnswire : dns_receive(p, m)
       \/ \E m \in tftpwire : tftp_receive(p, m)
  \/ \E m \in dhcpwire, s \in DhcpServers : dhcp_server(s, m)
  \/ \E m \in dnswire : dns_server(m)
  \/ \E m \in tftpwire : tftp_server(m)

ClientsSpec == clients_init /\ [][ClientsNext]_clientVars

-----------------------------------------------------------------------------
(* Properties                                                              *)

\* The host uses no address but one that a server has granted it: an offer is not
\* enough, a refusal is not taken for a grant, and a datagram of an earlier exchange
\* does not count as more than it says (dhcp.c:195-260).
AddressGranted == NetData.ipucast \in leases \cup {NoAddr}

\* A pair of ports is registered while its owner is in the call that registered it.
\* Of all the ways out of a call only two leave it behind, after which every call of
\* getlocalip() fails: an error of udp_recv(), and an offer without its server
\* (dhcp.c:161-187, dhcp.c:232-284, dns.c:46-77, tftp.c:147-244).
SlotsWithOwners ==
  udpslots \ {LeftPair}
    = {[service |-> clients[p].op, owner |-> p] : p \in {q \in Clients : clients[q] # Resting}}

\* dnslookup() returns an address that the server has for the name or for one that
\* begins with it (strncmp() compares no more), and one of the local network when the
\* same answer has one, even when a late answer to an earlier lookup comes first
\* (dns.c:67-74, dns.c:232-247).
AnswerIsForName ==
  \A p \in Clients :
    results[p].op = "dns" /\ results[p].addr # Failed =>
      \E n \in DomainNames : \E a \in ZoneAnswers[n] :
        /\ IsPrefix(results[p].name, n)
        /\ \E i \in DOMAIN a : a[i] = [rname |-> n, atype |-> "A", addr |-> results[p].addr]
        /\ results[p].addr \in LocalNet
             \/ \A i \in DOMAIN a : a[i].atype = "A" => a[i].addr \notin LocalNet

\* What tftpget() has stored is always the beginning of the file, each block once, and
\* it returns with success only with the whole file (tftp.c:82-98, tftp.c:196-246).
FileInOrder ==
  \A p \in Clients :
    /\ clients[p].op = "tftp" =>
         clients[p].got = [b \in 1..Len(clients[p].got) |-> b] /\ Len(clients[p].got) < TftpBlocks
    /\ results[p].op = "tftp" /\ results[p].got # NoData =>
         results[p].got = [b \in 1..TftpBlocks |-> b]
=============================================================================
