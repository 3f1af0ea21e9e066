CONSTANTS
  Tun = 4
  Socks = {3}
  Peers <- MCPeers
  m1 = m1
  m2 = m2
  Macs = {m1, m2}
  NoMac = NoMac
  Hash <- MCHash
  NoPeer = NoPeer
  Claims <- MCClaims
  Brd = Brd
  Runt = Runt
  RxBuf = 1
  SockBuf = 1
  Masks <- MCMasks
  MaxEvents = 3
SPECIFICATION FairSpec
INVARIANTS WantedWatched NoBadFd SentToLastMac
PROPERTIES ReplyIsRead PeerReached
CHECK_DEADLOCK FALSE
