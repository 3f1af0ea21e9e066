CONSTANTS
  Fds = {f1, f2}
  None = None
  Addrs <- MCAddrs
  Own <- MCOwn
  Remotes <- MCRemotes
  Metadata <- MCMetadata
  BsdPath <- MCBsdPath
  Junk <- MCJunk
  Caps = {16, 128}
  QueueMax = 1
SPECIFICATION Spec
SYMMETRY Symmetry
INVARIANTS NamesKept ReplyReachesSender NonblockingKept
