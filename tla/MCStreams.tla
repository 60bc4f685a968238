----------------------------- MODULE MCStreams -----------------------------
(* Small instances of Streams for TLC; each configuration picks its own    *)
(* constants from the definitions below.                                   *)
EXTENDS Streams

CONSTANTS c1, c2, c3, p1, p2, video, audio, talk

OneProducer == <<p1>>
TwoProducers == <<p1, p2>>

NoSelf == [c \in Consumers |-> {}]
SelfOnFirst == [c \in Consumers |-> IF c = c1 THEN {p1} ELSE {}]

AllVideo == [c \in Consumers |-> <<video>>]
VideoThenAudio == [c \in Consumers |-> <<video, audio>>]
AllTalk == [c \in Consumers |-> <<talk>>]
FirstTalks == [c \in Consumers |-> IF c = c1 THEN <<video, talk>> ELSE <<video>>]

OfferVideo == {{video}}
OfferTalk == {{video, talk}}
OfferEither == {{video}, {video, audio}}
=============================================================================
