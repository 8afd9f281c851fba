CONSTANTS
  Hosts = {server, other}
  Server = server
  Addr = {a1, a2}
  Unspecified = unspecified
  Broadcast = broadcast
  DhcpServers = {server, other}
  Pool <- MCPool
  Echoes <- MCEchoes
  MaxFlight = 2
  MaxLives = 2
SPECIFICATION FairSpec
INVARIANTS AddressOurs DatagramsAddressed EchoReplyValid
PROPERTIES Acquired ServerReached
