------------------------------- MODULE MCMedia -------------------------------
(* Small instances, for TLC, of what carries the media: the children of a  *)
(* core.Receiver, video over RTP, the SRTP server, a source of MPEG-TS, a  *)
(* DVRIP camera, a session of RTMP.                                        *)
(* The variable part chooses one at the start, and only that one moves.    *)
(* Senders and closers of a receiver are alike, and every property is a    *)
(* safety property, so both may be permuted.                               *)
EXTENDS Node, TLC

CONSTANTS
  Frames, Mtu, MaxFrames, Ahead, MaxFaults, MaxBuf, Numbers, MaxUnits, MaxLen,
  Video, Audio, Opus, CellSize, MaxFrame, MaxCells, ProbeSize, PeekSize,
  Small, Big, Sizes, Ext, MaxTags, ProbeTags,
  Sources, Controllers, Readers, Kinds,
  MaxSent, MaxChunk, KeepSize

(* There is video at least, and a camera that go2rtc is has other sessions *)
(* than one it reads from.                                                 *)
ASSUME SrtpAssumption == Kinds \in Nat \ {0} /\ Sources \cap Controllers = {}

(* A fragment has room for more than the headers.  A frame has at most     *)
(* MaxUnits units of at most MaxLen bytes, and slices last, but for what   *)
(* is behind them in H.265.  In a run there are fewer units than RTPDepay  *)
(* of H.264 throws away (the code: 5 MB), and fewer packets than sequence  *)
(* numbers (65536).                                                        *)
ASSUME VideoAssumption ==
  /\ Mtu \in Nat /\ Mtu > 3
  /\ {MaxFrames, MaxUnits, MaxLen, MaxBuf, Numbers} \subseteq Nat
  /\ MaxFrames * MaxUnits < MaxBuf
  /\ MaxFrames * (MaxUnits * MaxLen) < Numbers /\ Numbers > 1
  /\ \A frame \in Frames :
       /\ frame \in Seq([kind : {"vps", "sps", "pps", "aud", "sei", "key", "slice"}, len : 1 .. MaxLen])
       /\ Len(frame) \in 1 .. MaxUnits
       /\ \A i \in 1 .. Len(frame) :
            frame[i].kind \in {"key", "slice"} => frame[Len(frame)].kind \in {"key", "slice", "sei"}

(* A cell has a header and a payload; the PIDs are told apart; something   *)
(* is kept while probing.                                                  *)
ASSUME MpegtsAssumption ==
  /\ CellSize \in Nat \ {0, 1} /\ ProbeSize \in Nat \ {0} /\ PeekSize \in Nat
  /\ MaxFrame \in Nat
  /\ Video # Audio /\ Video # Opus /\ Audio # Opus
  /\ {Video, Audio, Opus} \cap {"PAT", "PMT", "Metadata"} = {}

(* Something is kept while probing. *)
ASSUME DvripAssumption == MaxChunk \in Nat /\ KeepSize \in Nat \ {0}

(* A packet has bytes, before and after its size is announced; something   *)
(* is kept while probing.                                                  *)
ASSUME RtmpAssumption ==
  /\ Small \in Nat \ {0} /\ Big \in Nat \ {0} /\ Sizes \subseteq Nat
  /\ Ext \in Nat /\ ProbeTags \in Nat \ {0}

VARIABLES
  part,
  codec, camera, sent, stapANalu, number, wire, faults, fuaBuffer, seqNum, buf, out,
  stream, open, stage, rd, cell, skip, pat, pes, wait, handed,
  mode, foreign, cAt, sAt, rWire, wrSize, rdSize, chunks, last, tags, broken,
  flv, fAt, frd, got, seen, rHanded,
  conn, sessions, on, handle, start, stop, remote, added, panic,
  packets, left, marks, dAt, drd, dPart, dSize, cbuf, tracks, given

Unit(k, n) == [kind |-> k, len |-> n]

(* What a frame may be: a key frame with its parameter sets; parameter     *)
(* sets by themselves; a large slice; a small one with information behind  *)
(* it; information, a small key slice and a large one.                     *)
VideoFrames ==
  {<<Unit("sps", 3), Unit("pps", 3), Unit("key", 13)>>,
   <<Unit("sps", 3), Unit("pps", 3)>>,
   <<Unit("aud", 3), Unit("slice", 20)>>,
   <<Unit("slice", 3), Unit("sei", 3)>>,
   <<Unit("sei", 3), Unit("key", 9), Unit("slice", 13)>>}

V == INSTANCE RtpVideo
M == INSTANCE Mpegts
R == INSTANCE Rtmp WITH wire <- rWire, handed <- rHanded
S == INSTANCE Srtp
D == INSTANCE Dvrip WITH at <- dAt, part <- dPart, size <- dSize

rtpVars == <<codec, camera, sent, stapANalu, number, wire, faults, fuaBuffer, seqNum, buf, out>>
mpegtsVars == <<stream, open, stage, rd, cell, skip, pat, pes, wait, handed>>
rtmpVars == <<mode, foreign, cAt, sAt, rWire, wrSize, rdSize, chunks, last, tags, broken,
              flv, fAt, frd, got, seen, rHanded>>
srtpVars == <<conn, sessions, on, handle, start, stop, remote, added, panic>>
dvripVars == <<packets, left, marks, dAt, drd, dPart, dSize, cbuf, tracks, given>>
mediaVars == <<part, vars, rtpVars, mpegtsVars, rtmpVars, srtpVars, dvripVars>>

(* A part that does not move has one initial state. *)
MediaInit ==
  /\ part \in {"node", "rtp", "mpegts", "rtmp", "srtp", "dvrip"}
  /\ Init /\ V!Init /\ M!Init /\ R!Init /\ S!Init /\ D!Init
  /\ part # "rtp" => codec = "H264" /\ camera = FALSE
  /\ part # "mpegts" => open[Video].k = 0
  /\ part # "rtmp" => mode = "play" /\ foreign = FALSE

MediaNext ==
  /\ UNCHANGED part
  /\ \/ part = "node" /\ Next
     \/ part # "node" /\ UNCHANGED vars
  /\ \/ part = "rtp" /\ V!Next
     \/ part # "rtp" /\ UNCHANGED rtpVars
  /\ \/ part = "mpegts" /\ M!Next
     \/ part # "mpegts" /\ UNCHANGED mpegtsVars
  /\ \/ part = "rtmp" /\ R!Next
     \/ part # "rtmp" /\ UNCHANGED rtmpVars
  /\ \/ part = "srtp" /\ S!Next
     \/ part # "srtp" /\ UNCHANGED srtpVars
  /\ \/ part = "dvrip" /\ D!Next
     \/ part # "dvrip" /\ UNCHANGED dvripVars

MediaSpec == MediaInit /\ [][MediaNext]_mediaVars

Alike == Permutations(Senders) \cup Permutations(Closers)
-----------------------------------------------------------------------------
(* Units of video are handed on whole. *)
UnitsWhole == V!UnitsWhole

(* Frames of MPEG-TS and of a DVRIP camera are handed on whole, from the   *)
(* first, although a probe has read them before.                           *)
FramesWhole == M!FramesWhole /\ D!FramesWhole

(* Messages of RTMP are handed on whole, from the first. *)
MessagesWhole == R!MessagesWhole

(* Srtp: a session has a socket that is open and read.                     *)
Served == S!Served
=============================================================================
