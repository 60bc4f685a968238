------------------------------ MODULE MCSources ------------------------------
(* Small instances, for TLC, of what has connections of its own: the RTSP  *)
(* client, the RTSP server with the exec source, the dials of a Tuya       *)
(* camera, of a Ring camera and of the WebRTC sources, and go2rtc as a     *)
(* HomeKit camera.                                                         *)
(* They share no state: part chooses one at the start, and only that one   *)
(* moves.  The server has two dials of one URL; the child of the first     *)
(* reads the stream it is to feed, the other does not.                     *)
EXTENDS RtspServer, TLC

CONSTANTS
  first, second, reader,
  Recv, Back, MaxFaults, MaxBeats,
  Dialer, Mqtt, Pc, Dc, Ice, Producer, Listener, Reader,
  Phones, Consumers, MaxConnects, MaxStarts

(* A media is none of the requests and steps that have names.              *)
ASSUME RtspAssumption ==
  (Recv \cup Back) \cap {"close", "dial", "describe", "play", "options"} = {}

VARIABLES
  part,
  state, open, dead, wire, old, setup, playing, auth, backchannel, medias, receivers, senders,
  channel,
  caller, plan, wrote, failed, start, fresh, faults, beats,
  hevc, dialing, closed, connected, sendOffer, mqtt, mqttClosed, pc, at,
  gDial, gHandlers, gSession, gAnswered, gClosed, gConnected, gSendOffer, gWs, gWsClosed, gPc, gAt,
  gPanic,
  format, wDial, wWs, wPc, described, accepted, promise, connState, wReader, ice, writing,
  kAt, up, connects, want, consumer, owner, starts, conns, missed, timer, feed, playedBy, run

R == INSTANCE Rtsp
C == INSTANCE Tuya WITH dial <- dialing
G == INSTANCE RingDial WITH
       dial <- gDial, handlers <- gHandlers, session <- gSession, answered <- gAnswered,
       closed <- gClosed, connected <- gConnected, sendOffer <- gSendOffer, ws <- gWs,
       wsClosed <- gWsClosed, pc <- gPc, at <- gAt, panic <- gPanic
W == INSTANCE WebrtcClient WITH dial <- wDial, ws <- wWs, pc <- wPc, reader <- wReader
K == INSTANCE HomeKit WITH at <- kAt, listed <- playedBy

clientVars == <<state, open, dead, wire, old, setup, playing, auth, backchannel, medias, receivers,
                senders, channel, caller, plan, wrote, failed, start, fresh, faults, beats>>
tuyaVars == <<hevc, dialing, closed, connected, sendOffer, mqtt, mqttClosed, pc, at>>
ringVars == <<gDial, gHandlers, gSession, gAnswered, gClosed, gConnected, gSendOffer, gWs,
              gWsClosed, gPc, gAt, gPanic>>
webrtcVars == <<format, wDial, wWs, wPc, described, accepted, promise, connState, wReader, ice,
                writing>>
hkVars == <<kAt, up, connects, want, consumer, owner, starts, conns, missed, timer, feed,
            playedBy, run>>

InputOf == (first :> reader) @@ (second :> None)

SourcesInit ==
  /\ part \in {"client", "server", "tuya", "ring", "webrtc", "homekit"}
  /\ R!Init /\ Init /\ C!Init /\ G!Init /\ W!Init /\ K!Init
  /\ backchannel = FALSE => part = "client"
  /\ hevc => part = "tuya"
  /\ format # "http" => part = "webrtc"

SourcesNext ==
  /\ UNCHANGED part
  /\ \/ part = "client" /\ R!Next
     \/ part # "client" /\ UNCHANGED clientVars
  /\ \/ part = "server" /\ Next
     \/ part # "server" /\ UNCHANGED vars
  /\ \/ part = "tuya" /\ C!Next
     \/ part # "tuya" /\ UNCHANGED tuyaVars
  /\ \/ part = "ring" /\ G!Next
     \/ part # "ring" /\ UNCHANGED ringVars
  /\ \/ part = "webrtc" /\ W!Next
     \/ part # "webrtc" /\ UNCHANGED webrtcVars
  /\ \/ part = "homekit" /\ K!Next
     \/ part # "homekit" /\ UNCHANGED hkVars

(* The fairness of each part, while it is the one that moves. *)
SourcesSpec ==
  /\ SourcesInit
  /\ [][SourcesNext]_<<part, clientVars, vars, tuyaVars, ringVars, webrtcVars, hkVars>>
  /\ WF_clientVars(part = "client" /\ R!Call)
  /\ WF_clientVars(part = "client" /\ R!Close)
  /\ WF_clientVars(part = "client" /\ R!Reading)
  /\ SF_clientVars(part = "client" /\ R!Switch)
  /\ \A d \in Dials : /\ WF_vars(part = "server" /\ Returns(d))
                      /\ WF_vars(part = "server" /\ cancelled[d] /\ Exit(d))
  /\ \A c \in Conns : WF_vars(part = "server" /\ Goes(c)) /\ WF_vars(part = "server" /\ Breaks(c))
  /\ WF_tuyaVars(part = "tuya" /\ (C!DialSteps \/ C!Runs))
  /\ WF_ringVars(part = "ring" /\ ~ gPanic /\ (G!DialSteps \/ G!Runs))
  /\ WF_webrtcVars(part = "webrtc" /\ (W!DialSteps \/ W!Runs))
  /\ \A p \in Phones : WF_hkVars(part = "homekit" /\ K!Handles(p))
  /\ \A k \in Consumers :
       /\ WF_hkVars(part = "homekit" /\ K!Drained(k))
       /\ WF_hkVars(part = "homekit" /\ feed[k] = "none" /\ K!Expire(k))
       /\ \A i \in 1 .. MaxStarts : WF_hkVars(part = "homekit" /\ K!Writes(k, i))
-----------------------------------------------------------------------------
(* Rtsp: one connection at a time; PLAY only for tracks set up on it, now  *)
(* and after a failed Reconnect; a track added to a session that plays is  *)
(* played.                                                                 *)
OneConnection == R!OneConnection
PlaysAllTracks == R!PlaysAllTracks
Restored == R!Restored
PlaysAgain == R!PlaysAgain

(* Rtsp: calls return and a Stop ends Start.  RtspServer: a dial of an     *)
(* exec source and its child do not wait for ever.                         *)
AllReturn == R!CallsReturn /\ EverybodyReturns

(* Tuya, RingDial, WebrtcClient: whatever fails, the dial returns and what *)
(* it opened is closed.                                                    *)
ErrorEnds == C!ErrorEnds /\ G!ErrorEnds /\ W!DialEnds

(* WebrtcClient: the description goes before the candidates, one writer at *)
(* a time.                                                                 *)
OfferFirst == W!OfferFirst

(* HomeKit: a session that plays can be ended, and then it leaves.         *)
EndsPlay == K!EndsPlay
=============================================================================
