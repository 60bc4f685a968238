-------------------------------- MODULE Dvrip --------------------------------
(***************************************************************************)
(* A DVRIP camera as a source (pkg/dvrip): packets, each with a header     *)
(* that tells its size, in chunks, each with a header of its own.  Cameras *)
(* may split a packet over chunks, or put several into one.  Dial probes   *)
(* for a video and an audio track through a ReadBuffer, and Start reads    *)
(* all of it again.                                                        *)
(*                                                                         *)
(* A unit is 8 bytes of a packet: ReadPacket wants two before it looks at  *)
(* them.  On the wire a chunk's header is one mark and each unit another.  *)
(* Login and claim, a chunk each way, come before.  The camera has sent    *)
(* all when the probe begins, and the network gives it in any pieces.      *)
(***************************************************************************)
EXTENDS ReadBuffer, SequencesExt

CONSTANTS
  MaxSent,      (* bound: packets                                          *)
  MaxChunk,     (* bound: units of a chunk                                 *)
  KeepSize      (* marks that a ReadBuffer of ProbeSize keeps              *)

VARIABLES
  packets,      (* what the camera has sent                                *)
  left,         (* units of them that are in no chunk yet                  *)
  marks,        (* the wire                                                *)
  at,           (* send; check, probe: probe and its ReadPacket; start;    *)
                (* failed                                                  *)
  drd,          (* client.rd                                               *)
  part,         (* what io.ReadFull has read so far                        *)
  size,         (* of the chunk that it reads; 0 for a header              *)
  cbuf,         (* client.buf                                              *)
  tracks,       (* the Receivers that probe has made                       *)
  given         (* what they were given                                    *)

(* FC and FE, FD, FA, F9: units of the header and the track *)
PacketKinds == {"I", "P", "A", "X"}
Header(kind) == IF kind = "I" THEN 2 ELSE 1
TrackOf(kind) == IF kind \in {"I", "P"} THEN "video" ELSE IF kind = "A" THEN "audio" ELSE "none"

Units(i) == [u \in 1 .. packets[i].size |-> <<i, u>>]
-----------------------------------------------------------------------------
(* The camera. *)
Send ==
  /\ at = "send" /\ Len(packets) < MaxSent
  /\ \E kind \in PacketKinds, n \in 0 .. 1 :
       /\ packets' = Append(packets, [kind |-> kind, size |-> Header(kind) + n])
       /\ left' = left \o [u \in 1 .. Header(kind) + n |-> <<Len(packets) + 1, u>>]
  /\ UNCHANGED <<marks, at, drd, part, size, cbuf, tracks, given>>

SendChunk ==
  /\ at = "send"
  /\ \E n \in 1 .. MaxChunk :
       /\ n <= Len(left)
       /\ marks' = marks \o << <<0, n>> >> \o SubSeq(left, 1, n)
       /\ left' = SubSeq(left, n + 1, Len(left))
  /\ UNCHANGED <<packets, at, drd, part, size, cbuf, tracks, given>>
-----------------------------------------------------------------------------
(* probe, after Play *)
Probe ==
  /\ at = "send" /\ left = <<>> /\ at' = "check"
  /\ drd' = [NewReadBuffer EXCEPT !.size = KeepSize]
  /\ UNCHANGED <<packets, left, marks, part, size, cbuf, tracks, given>>

(* ReadPacket has to read a chunk. *)
PacketSize == packets[cbuf[1][1]].size
ReadsChunk == Len(cbuf) < (IF Len(cbuf) >= 2 /\ cbuf[1][2] = 1 THEN PacketSize ELSE 2)

(* ReadChunk: two calls of io.ReadFull, a Read at a time.  It fails when   *)
(* the probe has read more than is kept, or where there is no header.      *)
Wanted == (IF size = 0 THEN 1 ELSE size) - Len(part)
IsHeader(mark) == mark[1] = 0
ReadChunk ==
  /\ at \in {"probe", "start"} /\ ReadsChunk
  /\ \E out \in Read(drd, Wanted, Len(marks)) :
       LET new == [i \in DOMAIN out.got |-> marks[out.got[i]]] IN
       /\ drd' = out.r
       /\ IF out.fails THEN at' = "failed" /\ UNCHANGED <<part, size, cbuf>>
          ELSE IF size = 0
          THEN /\ UNCHANGED <<part, cbuf>>
               /\ IF IsHeader(new[1]) THEN size' = new[1][2] /\ UNCHANGED at
                  ELSE at' = "failed" /\ UNCHANGED size
          ELSE /\ UNCHANGED at
               /\ IF Len(new) < Wanted THEN part' = part \o new /\ UNCHANGED <<size, cbuf>>
                  ELSE part' = <<>> /\ size' = 0 /\ cbuf' = cbuf \o part \o new
  /\ UNCHANGED <<packets, left, marks, tracks, given>>

(* A packet, when client.buf begins with one: probe makes a track of the   *)
(* first of a kind, but of no P frame; Start gives its payload to its      *)
(* track.                                                                  *)
TakePacket ==
  LET kind == packets[cbuf[1][1]].kind
      payload == SubSeq(cbuf, Header(kind) + 1, PacketSize)
  IN
  /\ cbuf' = SubSeq(cbuf, PacketSize + 1, Len(cbuf))
  /\ \/ /\ at = "probe" /\ at' = "check" /\ UNCHANGED given
        /\ tracks' = tracks \cup (IF kind \in {"I", "A"} THEN {TrackOf(kind)} ELSE {})
     \/ /\ at = "start" /\ UNCHANGED <<at, tracks>>
        /\ given' = IF TrackOf(kind) \in tracks
                    THEN [given EXCEPT ![TrackOf(kind)] = Append(@, <<cbuf[1][1], payload>>)]
                    ELSE given

ReadPacket ==
  /\ at \in {"probe", "start"} /\ ~ ReadsChunk
  /\ IF cbuf[1][2] = 1 THEN TakePacket ELSE at' = "failed" /\ UNCHANGED <<cbuf, tracks, given>>
  /\ UNCHANGED <<packets, left, marks, drd, part, size>>

ProbeMore ==
  /\ at = "check" /\ tracks # {"video", "audio"} /\ at' = "probe"
  /\ UNCHANGED <<packets, left, marks, drd, part, size, cbuf, tracks, given>>

(* probe returns: it has both, or one after ProbeTimeout, or, after 15     *)
(* seconds, none.  It forgets client.buf, and what was read is read again. *)
Probed ==
  /\ at = "check"
  /\ at' = IF tracks = {} THEN "failed" ELSE "start"
  /\ cbuf' = <<>> /\ drd' = Reset(drd)
  /\ UNCHANGED <<packets, left, marks, part, size, tracks, given>>

Init ==
  /\ packets = <<>> /\ left = <<>> /\ marks = <<>>
  /\ at = "send" /\ drd = NewReadBuffer /\ part = <<>> /\ size = 0 /\ cbuf = <<>>
  /\ tracks = {} /\ given = [t \in {"video", "audio"} |-> <<>>]

Next == Send \/ SendChunk \/ Probe \/ ReadChunk \/ ReadPacket \/ ProbeMore \/ Probed
-----------------------------------------------------------------------------
(* What the packets of a track carry, in order *)
Payload(i) == SubSeq(Units(i), Header(packets[i].kind) + 1, packets[i].size)
CarriedBy(t, i) == IF TrackOf(packets[i].kind) = t THEN << <<i, Payload(i)>> >> ELSE <<>>
Carried(t) == FlattenSeq([i \in 1 .. Len(packets) |-> CarriedBy(t, i)])

(* However packets and chunks are cut, and wherever the probe stopped: a   *)
(* track gets the payload of every packet from the first, whole and once;  *)
(* only an end of one unit waits for what comes behind it.  A read never   *)
(* loses its place, unless the probe has read more than can be kept.       *)
FramesWhole ==
  /\ at = "failed" => drd.net > KeepSize \/ tracks = {}
  /\ \A t \in {"video", "audio"} : IsPrefix(given[t], Carried(t))
  /\ at = "start" /\ drd.net = Len(marks) /\ drd.pos = Len(drd.buf) /\ part = <<>> /\ size = 0
       /\ ReadsChunk =>
       /\ Len(cbuf) < 2
       /\ \A t \in tracks : Len(Carried(t)) - Len(given[t]) <= Len(cbuf)
=============================================================================
