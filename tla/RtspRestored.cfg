SPECIFICATION SourcesSpec
CONSTANTS
  first = first
  second = second
  reader = reader
  None = None
  Dials = {first}
  Clients = {reader}
  Input <- InputOf
  Recv = {v, a}
  Back = {}
  MaxFaults = 2
  MaxBeats = 0
  Dialer = Dialer
  Mqtt = Mqtt
  Pc = Pc
  Dc = Dc
  Ice = Ice
  Producer = Producer
  Listener = Listener
  Reader = Reader
  Phones = {p}
  Consumers = {k}
  MaxConnects = 1
  MaxStarts = 1
CHECK_DEADLOCK FALSE
PROPERTIES
  Restored
