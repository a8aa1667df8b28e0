SPECIFICATION StreamSpec
CONSTANTS
  client = client
  server = server
  conn = conn
  Connectors = {client}
  Listeners = {server}
  Slots = {conn}
  Senders = {client}
  Readers = {conn}
  Shutters = {}
  Closers = {client}
  Hows <- WR
  PortOf <- LocalPorts
  RemoteOf <- RemotePorts
  ISS = {14}
  MaxBytes = 3
  SendSizes = {1, 2}
  ReadSizes = {1}
  SeqBits = 4
  LowBits = 2
  BufferSize = 2
  MAXWIN = 2
  MTU = 1
  NUM_RETRANSMISSIONS = 2
  Backlog = 1
  NetCap <- TwoOneWay
  MaxQueue = 2
  Duplicating = FALSE
  MaxFlaps = 0
CHECK_DEADLOCK FALSE
INVARIANTS
  
  StreamIntact
  
  CallersAwake
