SPECIFICATION FairSpec
CONSTANTS
  c1 = c1
  c2 = c2
  c3 = c3
  p1 = p1
  p2 = p2
  video = video
  audio = audio
  talk = talk
  Producers = {p1, p2}
  Consumers = {c1, c2}
  ProducerSeq <- TwoProducers
  Kinds = {video, audio, talk}
  BackKinds = {talk}
  Wants <- VideoThenAudio
  MatchAll = {c2}
  SelfSource <- SelfOnFirst
  Offers <- OfferEither
  SourcesEnd = FALSE
  MaxConn = 3
  NoConn = 0
  NoTrack = NoTrack
  NoOne = NoOne
PROPERTIES
  StopSparesAttached
  LastOneOut
