SPECIFICATION Spec
CONSTANTS
  c1 = c1
  c2 = c2
  c3 = c3
  p1 = p1
  p2 = p2
  video = video
  audio = audio
  talk = talk
  Producers = {p1}
  Consumers = {c1, c2}
  ProducerSeq <- OneProducer
  Kinds = {video, audio, talk}
  BackKinds = {talk}
  Wants <- AllVideo
  MatchAll = {}
  SelfSource <- NoSelf
  Offers <- OfferVideo
  SourcesEnd = FALSE
  MaxConn = 3
  NoConn = 0
  NoTrack = NoTrack
  NoOne = NoOne
PROPERTIES
  StopsUnreadOnly
