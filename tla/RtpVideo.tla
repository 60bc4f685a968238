------------------------------ MODULE RtpVideo ------------------------------
(***************************************************************************)
(* A frame of H.264 or H.265 over RTP (pkg/h264, pkg/h265).  RTPPay cuts   *)
(* the NAL units of a frame into packets that fit Mtu: a small unit is a   *)
(* packet, a large one is cut into fragments, parameter sets (H.264) and   *)
(* neighbours (H.265) share a packet.  RTPDepay collects the units of a    *)
(* frame from the packets and hands the frame on at the packet with the    *)
(* marker.                                                                 *)
(*                                                                         *)
(* Over UDP packets are lost and overtaken.  H.265 looks at the sequence   *)
(* numbers; H.264 does not.  Some cameras mark every parameter set, and    *)
(* some send a small H.265 unit as a fragment that begins and ends it.     *)
(*                                                                         *)
(* A NAL unit is its kind and length; what is collected is a sequence of   *)
(* units, each made of pieces <<which unit, piece, pieces>>.               *)
(***************************************************************************)
EXTENDS Naturals, Sequences, SequencesExt

CONSTANTS
  Frames,      (* what a frame may be: sequences of [kind, len]            *)
  Mtu,         (* longest payload of a packet                              *)
  MaxFrames,   (* bound: frames of a run                                   *)
  Ahead,       (* bound: packets on their way when a frame is sent         *)
  MaxFaults,   (* bound: packets lost or overtaken                         *)
  MaxBuf,      (* units collected before H.264 throws them away            *)
  Numbers      (* how many sequence numbers there are                      *)

VARIABLES
  codec, camera,   (* what is sent, and whether by a camera or by RTPPay   *)
  sent,            (* the frames, as units with their names                *)
  stapANalu,       (* Payloader: the parameter sets that wait for a slice  *)
  number,          (* the sequencer                                        *)
  wire, faults,
  fuaBuffer,       (* H.264: the fragments of the unit that has not ended  *)
  seqNum,          (* H.265: the number of the last packet collected       *)
  buf,             (* the units of the frame so far                        *)
  out              (* the frames handed on                                 *)

rtpVars == <<codec, camera, sent, stapANalu, number, wire, faults, fuaBuffer, seqNum, buf, out>>

PS == {"vps", "sps", "pps"}
Slice == {"key", "slice"}
-----------------------------------------------------------------------------
(* RTPPay. *)

Packet(type, units, k, n) ==
  [type |-> type, units |-> units, k |-> k, n |-> n, seq |-> 0, marker |-> FALSE]
Single(u) == Packet("single", <<u>>, 1, 1)

(* The header of the unit itself is not in the fragments; theirs has a     *)
(* byte more.                                                              *)
HeaderSize == IF codec = "H264" THEN 1 ELSE 2
Fragments(u) ==
  LET size == Mtu - (HeaderSize + 1)
      n == (u.len - HeaderSize + size - 1) \div size
  IN  [k \in 1 .. n |-> Packet("fu", <<u>>, k, n)]

(* h264.Payloader: parameter sets wait for the next unit, which may be in  *)
(* a later frame; delimiters are dropped.                                  *)
StapASize(units) == FoldLeft(LAMBDA size, u : size + 2 + u.len, 1, units)
EmitH264(st, u) ==
  LET stap == IF st.held # <<>> /\ StapASize(st.held) <= Mtu
              THEN <<Packet("stap", st.held, 1, 1)>> ELSE <<>>
  IN  CASE u.kind = "aud" -> st
        [] u.kind \in PS -> [st EXCEPT !.held = Append(@, u)]
        [] OTHER -> [held |-> <<>>,
                     packets |-> st.packets \o stap \o
                                 (IF u.len <= Mtu THEN <<Single(u)>> ELSE Fragments(u))]

(* h265.Payloader: units that fit together share a packet. *)
Flush(st) ==
  CASE st.held = <<>> -> st
    [] Len(st.held) = 1 -> [held |-> <<>>, packets |-> Append(st.packets, Single(st.held[1]))]
    [] OTHER -> [held |-> <<>>, packets |-> Append(st.packets, Packet("ap", st.held, 1, 1))]
Aggregated(units) == FoldLeft(LAMBDA size, u : size + 2 + u.len, 0, units)
EmitH265(st, u) ==
  LET full == Flush(st)
      base == IF Aggregated(Append(st.held, u)) > Mtu THEN full ELSE st
  IN  IF u.len <= Mtu THEN [base EXCEPT !.held = Append(@, u)]
      ELSE [full EXCEPT !.packets = @ \o Fragments(u)]

(* A camera sends one unit per packet; a small slice of H.265 may be one   *)
(* fragment.                                                               *)
CameraPacket(u) ==
  IF u.len > Mtu THEN Fragments(u)
  ELSE IF codec = "H265" /\ u.kind \in Slice THEN <<Packet("fu", <<u>>, 1, 1)>>
  ELSE <<Single(u)>>

Emit(st, u) ==
  CASE camera -> [st EXCEPT !.packets = @ \o CameraPacket(u)]
    [] ~ camera /\ codec = "H264" -> EmitH264(st, u)
    [] OTHER -> EmitH265(st, u)

(* The packets of a frame, unit by unit, and what waits for the next one.  *)
Payload(units) ==
  LET paid[i \in 0 .. Len(units)] ==
        IF i = 0 THEN [held |-> stapANalu, packets |-> <<>>] ELSE Emit(paid[i - 1], units[i])
  IN  IF codec = "H264" THEN paid[Len(units)] ELSE Flush(paid[Len(units)])

(* The sequencer numbers the packets; the last one of a frame has the      *)
(* marker, and so has every parameter set of such a camera.                *)
Numbered(packets) ==
  [i \in 1 .. Len(packets) |->
     [packets[i] EXCEPT !.seq = (number + i) % Numbers,
                        !.marker = i = Len(packets) \/ (camera /\ packets[i].units[1].kind \in PS)]]

(* Only H.265 has information (SEI) behind the slices. *)
Send ==
  /\ Len(sent) < MaxFrames /\ Len(wire) <= Ahead
  /\ \E frame \in Frames :
       LET units == [i \in 1 .. Len(frame) |->
                       [id |-> <<Len(sent) + 1, i>>, kind |-> frame[i].kind, len |-> frame[i].len]]
           paid == Payload(units)
       IN  /\ Last(frame).kind = "sei" => codec = "H265"
           /\ sent' = Append(sent, units)
           /\ stapANalu' = paid.held
           /\ wire' = wire \o Numbered(paid.packets)
           /\ number' = (number + Len(paid.packets)) % Numbers
  /\ UNCHANGED <<codec, camera, faults, fuaBuffer, seqNum, buf, out>>

(* The network. *)
Fault ==
  /\ faults < MaxFaults
  /\ faults' = faults + 1
  /\ \E i \in 1 .. Len(wire) :
       \/ wire' = RemoveAt(wire, i)
       \/ i > 1 /\ wire' = <<wire[i]>> \o RemoveAt(wire, i)
  /\ UNCHANGED <<codec, camera, sent, stapANalu, number, fuaBuffer, seqNum, buf, out>>
-----------------------------------------------------------------------------
(* RTPDepay. *)

Piece(p) == <<p.units[1].id, p.k, p.n>>
Nal(u) == [kind |-> u.kind, pieces |-> <<<<u.id, 1, 1>>>>]

(* The parameter sets of the SDP. *)
ps == <<[kind |-> "sps", pieces |-> <<<<<<0, 0>>, 1, 1>>>>]>>

HandOn(units) == out' = Append(out, units)

(* pion's H264Packet: the units of a packet, or the unit that the fragment *)
(* ends.                                                                   *)
Unmarshal(p) ==
  CASE p.type # "fu" -> [i \in 1 .. Len(p.units) |-> Nal(p.units[i])]
    [] p.k < p.n -> <<>>
    [] OTHER -> <<[kind |-> p.units[1].kind, pieces |-> Append(fuaBuffer, Piece(p))]>>
Fragmented(p) ==
  IF p.type # "fu" THEN fuaBuffer ELSE IF p.k < p.n THEN Append(fuaBuffer, Piece(p)) ELSE <<>>

(* A frame begins with a parameter set or a slice; what is before is       *)
(* skipped.                                                                *)
FromStart(units) ==
  LET begins == {i \in 1 .. Len(units) : units[i].kind \notin {"sei", "aud"}}
  IN  IF begins = {} THEN <<>>
      ELSE SubSeq(units, CHOOSE i \in begins : \A j \in begins : i <= j, Len(units))

DepayH264(p) ==
  LET units == Unmarshal(p)
      kept == IF Len(buf) > MaxBuf THEN <<>> ELSE buf
      fresh == kept = <<>>
      rest == IF fresh THEN FromStart(units) ELSE units
      begin == IF fresh /\ rest # <<>> /\ rest[1].kind = "key" THEN ps ELSE kept
      marked == p.marker /\ \A i \in 1 .. Len(units) : units[i].kind \in PS \cup {"sei"}
  IN
  /\ fuaBuffer' = Fragmented(p)
  /\ UNCHANGED seqNum
  /\ \/ units = <<>> /\ UNCHANGED <<buf, out>>
     \/ /\ units # <<>> /\ marked
        /\ buf' = IF units[1].kind \in PS THEN kept \o units ELSE kept
        /\ UNCHANGED out
     \/ units # <<>> /\ ~ marked /\ rest = <<>> /\ buf' = kept /\ UNCHANGED out
     \/ rest # <<>> /\ ~ marked /\ ~ p.marker /\ buf' = begin \o rest /\ UNCHANGED out
     \/ rest # <<>> /\ ~ marked /\ p.marker /\ buf' = <<>> /\ HandOn(begin \o rest)

(* H.265: nothing is collected across a gap in the numbers. *)
BrokenNever(p) == FALSE
Broken(p) == buf # <<>> /\ (p.seq + Numbers - seqNum) % Numbers # 1

(* The buffer with the packet; a fragment that nothing was begun for adds  *)
(* nothing.                                                                *)
Collected(p) ==
  LET new == [kind |-> p.units[1].kind, pieces |-> <<Piece(p)>>]
      begin == IF buf = <<>> /\ p.units[1].kind = "key" THEN ps ELSE buf
      more == Append(Front(buf), [Last(buf) EXCEPT !.pieces = Append(@, Piece(p))])
  IN  CASE p.type = "ap" -> Append(buf, [kind |-> "ap", pieces |-> <<Piece(p)>>])
        [] p.type = "single" \/ p.n = 1 -> Append(buf, new)
        [] p.k = 1 -> Append(begin, new)
        [] OTHER -> IF buf = <<>> THEN <<>> ELSE more

DepayH265(p) ==
  LET alone == IF p.type = "single" THEN p.units[1].kind ELSE "none"
      marker == p.marker /\ alone \notin PS
      ends == p.type # "fu" \/ p.k = p.n
      orphan == buf = <<>> /\ Collected(p) = <<>>
  IN
  /\ UNCHANGED fuaBuffer
  /\ \/ p.marker /\ alone = "sei" /\ UNCHANGED <<seqNum, buf, out>>
     \/ ~ (p.marker /\ alone = "sei") /\ Broken(p) /\ buf' = <<>> /\ UNCHANGED <<seqNum, out>>
     \/ /\ ~ (p.marker /\ alone = "sei") /\ ~ Broken(p)
        /\ seqNum' = p.seq
        /\ IF marker /\ ends /\ ~ orphan
           THEN buf' = <<>> /\ HandOn(Collected(p))
           ELSE buf' = Collected(p) /\ UNCHANGED out

Receive ==
  /\ wire # <<>>
  /\ wire' = Tail(wire)
  /\ \/ codec = "H264" /\ DepayH264(Head(wire))
     \/ codec = "H265" /\ DepayH265(Head(wire))
  /\ UNCHANGED <<codec, camera, sent, stapANalu, number, faults>>

Init ==
  /\ codec \in {"H264", "H265"}
  /\ camera \in BOOLEAN
  /\ number = Numbers - 2
  /\ sent = <<>> /\ wire = <<>> /\ faults = 0
  /\ stapANalu = <<>> /\ fuaBuffer = <<>> /\ seqNum = 0 /\ buf = <<>> /\ out = <<>>

Next == Send \/ Fault \/ Receive
-----------------------------------------------------------------------------
(* Properties. *)

Whole(nal) ==
  \A k \in 1 .. Len(nal.pieces) : nal.pieces[k] = <<nal.pieces[1][1], k, Len(nal.pieces)>>

(* The first packet of a unit names it. *)
Name(nal) == nal.pieces[1][1]
Slices(frame) == {i \in 1 .. Len(frame) : frame[i].kind \in Slice}
Arrived(f, z) == \E i \in 1 .. Len(out) : \E x \in Slices(out[i]) : Name(out[i][x]) = <<f, z>>

(* A frame that is handed on has slices of one frame only, in order, and   *)
(* the next one those of a later one.                                      *)
OneFrameEach ==
  \A i, k \in 1 .. Len(out) : \A x \in Slices(out[i]), y \in Slices(out[k]) :
    LET a == Name(out[i][x])
        b == Name(out[k][y])
    IN  /\ a[1] \in 1 .. Len(sent) /\ a[2] \in Slices(sent[a[1]])
        /\ i < k => a[1] < b[1]
        /\ i = k => a[1] = b[1] /\ (x < y => a[2] < b[2])

(* Nothing is missing of a frame that has arrived or that one has          *)
(* overtaken, and in the end of none.                                      *)
NoSliceMissing ==
  \A f \in 1 .. Len(sent) :
    wire = <<>> \/ (\E i \in 1 .. Len(out) : \E x \in Slices(out[i]) : f <= Name(out[i][x])[1]) =>
      \A z \in Slices(sent[f]) : Arrived(f, z)

(* What RTPDepay hands on are units that were sent, whole: for H.265       *)
(* whatever the network loses or puts out of order; for H.264, which does  *)
(* not look at the numbers, while nothing is lost, and then every frame    *)
(* arrives, once, in order and with all its slices (h264/rtp.go,           *)
(* h265/rtp.go).                                                           *)
UnitsWhole ==
  /\ codec = "H265" \/ faults = 0 =>
       \A i \in 1 .. Len(out) : \A j \in 1 .. Len(out[i]) : Whole(out[i][j])
  /\ codec = "H264" /\ faults = 0 => OneFrameEach /\ NoSliceMissing
=============================================================================
