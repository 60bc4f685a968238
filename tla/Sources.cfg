SPECIFICATION SourcesSpec
CONSTANTS
  first = first
  second = second
  reader = reader
  None = None
  Dials = {first, second}
  Clients = {reader, c}
  Input <- InputOf
  Recv = {v}
  Back = {b}
  MaxFaults = 2
  MaxBeats = 1
  Dialer = Dialer
  Mqtt = Mqtt
  Pc = Pc
  Dc = Dc
  Ice = Ice
  Producer = Producer
  Listener = Listener
  Reader = Reader
  Phones = {p}
  Consumers = {k, l}
  MaxConnects = 2
  MaxStarts = 2
CHECK_DEADLOCK FALSE
INVARIANTS
  NoStrayChild
  OfferFirst
PROPERTIES
  OneConnection
  
  PlaysAgain
  AllReturn
  ClientsGone
  ErrorEnds
  EndsPlay
