CONSTANTS
  Sessions = {s1, s2, s3}
  ExecNames = {shell}
  SocketNames = {vm}
  Conns = {c1, c2, c3}
  None = None
SPECIFICATION Spec
SYMMETRY Symmetry
INVARIANTS
  TypeOK
  LiveHubsRegistered
  OneConversation
  DescriptorsAccounted
CHECK_DEADLOCK FALSE
