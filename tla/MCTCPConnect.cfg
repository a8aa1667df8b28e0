SPECIFICATION FairSpec
CONSTANTS
  client = client
  server = server
  conn = conn
  Connectors = {client}
  Listeners = {server}
  Slots = {conn}
  Senders = {}
  Readers = {}
  Shutters = {client}
  Closers = {client, conn, server}
  Hows <- RD
  PortOf <- LocalPorts
  RemoteOf <- RemotePorts
  ISS = {14}
  MaxBytes = 0
  SendSizes = {1}
  ReadSizes = {1}
  SeqBits = 4
  LowBits = 2
  BufferSize = 2
  MAXWIN = 1
  MTU = 1
  NUM_RETRANSMISSIONS = 2
  Backlog = 1
  NetCap <- OneEach
  MaxQueue = 3
  Duplicating = FALSE
  MaxFlaps = 0
CHECK_DEADLOCK FALSE
INVARIANTS
  QueuesExact
  CallersAwake

  
