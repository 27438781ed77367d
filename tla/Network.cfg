SPECIFICATION MCSpec
CONSTANTS
  u1 = u1
  u2 = u2
  netin = netin
  ipout = ipout
  rdsproc = rdsproc
  Procs = {u1, u2, netin, ipout, rdsproc}
  NetUsers = {u1, u2}
  Clients = {u1, u2}
  Writers = {u1, u2}
  RdsUsers = {u1, u2}
  RfsProcs = {u1, u2}
  Reader = netin
  NSEM = 2
  MaxKills = 1
  NBUFS = 3
  UDP_SLOTS = 2
  UDP_QSIZ = 1
  ICMP_SLOTS = 2
  ICMP_QSIZ = 1
  ARP_SIZ = 2
  ARP_RETRY = 2
  IP_OQSIZ = 2
  LocalHosts = {"h", "r"}
  FarHosts = {"f"}
  iprouter = "r"
  Macs = {"A", "B"}
  UdpPorts = {1}
  PingMax = 1
  UDP_PAIRS = 2
  DHCP_RETRY = 2
  DNSRETRY = 2
  TFTP_MAXRETRIES = 2
  DhcpServers = {"s1", "s2"}
  NamesDns = "s1"
  DomainNames <- MCDomainNames
  ZoneAddrs = {"w", "x", "y", "z"}
  ZoneAnswers <- MCZoneAnswers
  LocalNet = {"y"}
  TftpBlocks = 2
  MaxSessions = 2
  TxRingSize = 3
  RxRingSize = 3
  ETH_NUM_MCAST = 1
  Frames = {"f", "g"}
  EthUcast = "me"
  EthBcast = "all"
  Eaddrs = {"group"}
  MaxCounted = 4
  RD_BUFFS = 2
  RD_RETRIES = 2
  Blocks = {0, 1}
  Data = {1, 2}
  MaxSeq = 5
  RfNames = {"a", "b"}
  RfLongNames = {"b"}
  Nrfl = 2
  RF_DATALEN = 1
  RF_RETRIES = 2
  RfBytes = {"a"}
  RfModes <- MCRfModes
  RfMaxSize = 1
  RfMaxSeq = 3
INVARIANT NetPacketsConserved
INVARIANT NetTablesSound
INVARIANT ClientsAnswered
INVARIANT EthFramesInOrder
INVARIANT RdsAccounted
INVARIANT RdsCoherent
INVARIANT RfsMutexReturned
INVARIANT RfsAnswersHold
SYMMETRY Symmetry
CHECK_DEADLOCK FALSE
