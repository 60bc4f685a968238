------------------------------- MODULE Mpegts -------------------------------
(***************************************************************************)
(* A source of MPEG-TS (pkg/mpegts, pkg/core/readbuffer.go): the stream of *)
(* a muxer, and the producer that reads it.  Open probes: it reads packets *)
(* until one of every kind has come, or for some time, and then the stream *)
(* is read again from its start.  Start reads it again, with a new         *)
(* demuxer, and hands the frames to the receivers.                         *)
(*                                                                         *)
(* A frame is cut into cells (transport packets of one PID).  A PES header *)
(* tells the size of the frame or, for large video, zero: then the frame   *)
(* ends when the next one begins, and the cell that begins it is parsed    *)
(* again (skipRead).  The encoder may interleave the cells of its streams, *)
(* and a live stream may be joined in the middle of a frame.               *)
(*                                                                         *)
(* A cell is CellSize bytes; the network gives what it has.                *)
(***************************************************************************)
EXTENDS ReadBuffer, FiniteSets, SequencesExt

CONSTANTS
  Video, Audio, Opus,  (* the PIDs: a frame of Opus has a packet per cell  *)
  CellSize,
  MaxFrame,     (* bound: cells of a frame                                 *)
  MaxCells,     (* bound: cells of a stream                                *)
  ProbeSize,    (* bytes kept while probing                                *)
  PeekSize      (* bytes magic.Open looks at                               *)

VARIABLES
  stream,   (* the cells                                                   *)
  open,     (* encoder: the frame each stream is in, and the cell          *)
  stage,    (* send; check, probe: probe's loop and its ReadPacket; start; *)
            (* failed                                                      *)
  rd,       (* the ReadBuffer                                              *)
  cell,     (* Demuxer.buf, the bytes read into it                         *)
  skip,     (* d.pos = skipRead                                            *)
  pat, pes, (* Demuxer.pmtID is known; Demuxer.pes                         *)
  wait,     (* probe: the kinds not seen yet                               *)
  handed    (* what Start has handed to the receivers                      *)

mpegtsVars == <<stream, open, stage, rd, cell, skip, pat, pes, wait, handed>>

Pids == {Video, Audio, Opus}
Metadata == "Metadata"
-----------------------------------------------------------------------------
(* The encoder.  Its frames are numbered; k is the cell of n in its frame. *)

Cell(pid, frame, k, n, size) ==
  [pid |-> pid, frame |-> frame, k |-> k, n |-> n, size |-> size]

(* Muxer.GetHeader; other encoders repeat it. *)
Table(pid) == Cell(pid, 0, 1, 1, 0)
GetHeader == <<Table("PAT"), Table("PMT")>>

Emit(c) == stream' = Append(stream, c)

(* The tables again, later. *)
Repeat ==
  /\ stage = "send" /\ stream # <<>>
  /\ Len(stream) + 2 < MaxCells
  /\ \E i \in 1 .. Len(stream) : stream[i].pid \in Pids
  /\ Last(stream).pid # "PMT"
  /\ stream' = stream \o GetHeader
  /\ UNCHANGED <<open, stage, rd, cell, skip, pat, pes, wait, handed>>

(* Muxer.GetPayload, cell by cell: a frame whose size is told or not; only *)
(* video may be too large for it.                                          *)
Begins(pid, n, size) ==
  /\ open[pid].k = open[pid].n
  /\ size \in {n} \cup (IF pid = Video THEN {0} ELSE {})
  /\ open' = [open EXCEPT ![pid] = [frame |-> @.frame + 1, k |-> 1, n |-> n, size |-> size]]
Continues(pid) ==
  /\ open[pid].k < open[pid].n
  /\ open' = [open EXCEPT ![pid].k = @ + 1]
WritePES ==
  /\ stage = "send" /\ Len(stream) < MaxCells
  /\ \E pid \in Pids :
       /\ \/ \E n \in 1 .. MaxFrame, size \in 0 .. MaxFrame : Begins(pid, n, size)
          \/ Continues(pid)
       /\ LET o == open'[pid] IN Emit(Cell(pid, o.frame, o.k, o.n, o.size))
  /\ UNCHANGED <<stage, rd, cell, skip, pat, pes, wait, handed>>
-----------------------------------------------------------------------------
(* The producer. *)

NewDemuxer == cell' = <<>> /\ skip' = FALSE /\ pat' = FALSE /\ pes' = <<>>
NoDemuxer == cell = <<>> /\ skip = FALSE /\ pat = FALSE /\ pes = <<>>

(* Open, after magic.Open has looked at the first bytes, or without. *)
Open ==
  /\ stage = "send" /\ Len(stream) * CellSize >= PeekSize
  /\ stage' = "check"
  /\ \E peeked \in {NewReadBuffer, Peek(NewReadBuffer, PeekSize)} :
       rd' = [peeked EXCEPT !.size = ProbeSize]
  /\ wait' = {Metadata}
  /\ UNCHANGED <<stream, open, cell, skip, pat, pes, handed>>

ProbeMore ==
  /\ stage = "check" /\ wait # {}
  /\ stage' = "probe"
  /\ UNCHANGED <<stream, open, rd, cell, skip, pat, pes, wait, handed>>

(* probe ends: nothing is waited for, or its time is over. *)
Probed ==
  /\ stage = "check"
  /\ stage' = "start"
  /\ rd' = Reset(rd)
  /\ NewDemuxer
  /\ UNCHANGED <<stream, open, wait, handed>>

(* ReadPacket reads a cell, by the io.ReadFull of d.buf. *)
ReadCell ==
  /\ stage \in {"probe", "start"} /\ skip = FALSE /\ Len(cell) < CellSize
  /\ \E out \in Read(rd, CellSize - Len(cell), Len(stream) * CellSize) :
       /\ rd' = out.r
       /\ cell' = cell \o out.got
       /\ stage' = IF out.fails THEN "failed" ELSE stage
  /\ UNCHANGED <<stream, open, skip, pat, pes, wait, handed>>

(* The cell that the bytes are. *)
Current == stream[cell[CellSize] \div CellSize]

(* What ReadPacket returns: probe crosses its kind off the list, Start     *)
(* gives it to the receiver.                                               *)
Crossed(kind) ==
  IF kind \notin wait THEN wait
  ELSE (wait \ {kind}) \cup (IF kind = Metadata THEN Pids ELSE {})
Start(kind, cells) ==
  IF kind \in Pids THEN [handed EXCEPT ![kind] = Append(@, cells)] ELSE handed
Return(kind, cells) ==
  \/ stage = "probe" /\ stage' = "check" /\ wait' = Crossed(kind) /\ UNCHANGED handed
  \/ stage = "start" /\ handed' = Start(kind, cells) /\ UNCHANGED <<stage, wait>>

(* PES.GetPacket: the whole payload, or one packet of Opus. *)
Given(p, payload) == IF p = Opus THEN <<payload[1]>> ELSE payload
Left(p, payload) == IF p = Opus THEN Tail(payload) ELSE <<>>

GetPacket(p, payload, size) ==
  /\ pes' = [pes EXCEPT ![p] = [payload |-> Left(p, payload), size |-> size]]
  /\ Return(p, Given(p, payload))

Finish(p) == GetPacket(p, pes[p].payload, pes[p].size)

(* readPES: SetBuffer or AppendBuffer, and the packet when it is complete. *)
Fill(p, c) ==
  LET payload == Append(IF c.k = 1 THEN <<>> ELSE pes[p].payload, <<c.frame, c.k, c.n>>)
      size == IF c.k = 1 THEN c.size ELSE pes[p].size
  IN  IF size # 0 /\ Len(payload) >= size
      THEN GetPacket(p, payload, size)
      ELSE pes' = [pes EXCEPT ![p] = [payload |-> payload, size |-> size]]
           /\ UNCHANGED <<stage, wait, handed>>

(* The tables: where the next one is, and the streams. *)
readPAT(c) == pat' = (pat = TRUE \/ (c.pid = "PAT" /\ pes = <<>>))
readPMT == pes' = [p \in Pids |-> [payload |-> <<>>, size |-> 0]]

Again(p, c) == c.k = 1 /\ pes[p].payload # <<>>
Parse ==
  /\ stage \in {"probe", "start"} /\ Len(cell) = CellSize
  /\ LET c == Current IN
     \/ /\ pes # <<>> /\ c.pid \in Pids /\ Again(c.pid, c)
        /\ skip' = TRUE /\ Finish(c.pid) /\ UNCHANGED <<cell, pat>>
     \/ /\ pes # <<>> /\ c.pid \in Pids /\ ~ Again(c.pid, c)
        /\ skip' = FALSE /\ cell' = <<>> /\ Fill(c.pid, c) /\ UNCHANGED pat
     \/ /\ pes = <<>> /\ c.pid = "PMT" /\ pat = TRUE
        /\ readPMT
        /\ Return(Metadata, <<>>)
        /\ skip' = FALSE /\ cell' = <<>> /\ UNCHANGED pat
     \/ /\ IF pes = <<>> THEN ~ (c.pid = "PMT" /\ pat = TRUE) ELSE c.pid \notin Pids
        /\ readPAT(c)
        /\ skip' = FALSE /\ cell' = <<>> /\ UNCHANGED <<stage, pes, wait, handed>>
  /\ UNCHANGED <<stream, open, rd>>

(* A stream begins with the tables; a live one may have been joined in the *)
(* middle of a frame of video.                                             *)
Init ==
  /\ stream = GetHeader
  /\ \E v \in {[k |-> 0, n |-> 0], [k |-> 1, n |-> 2]} :
       open = [p \in Pids |-> IF p = Video THEN [frame |-> 0, k |-> v.k, n |-> v.n, size |-> 0]
                              ELSE [frame |-> 0, k |-> 0, n |-> 0, size |-> 0]]
  /\ stage = "send"
  /\ rd = NewReadBuffer
  /\ NoDemuxer
  /\ wait = {}
  /\ handed = [p \in Pids |-> <<>>]

Next == Repeat \/ WritePES \/ Open \/ ProbeMore \/ Probed \/ ReadCell \/ Parse
-----------------------------------------------------------------------------
(* Properties. *)

Aligned == \A i \in 1 .. CellSize : cell[i] = cell[1] + i - 1 /\ cell[1] % CellSize = 1

(* The cells of a stream, in order. *)
CellOf(p, c) == IF c.pid = p THEN << <<c.frame, c.k, c.n>> >> ELSE <<>>
CellsOf(p) == FlattenSeq([i \in 1 .. Len(stream) |-> CellOf(p, stream[i])])

FrameWhole(cells) ==
  \A k \in 1 .. Len(cells) : cells[k] = <<cells[1][1], k, Len(cells)>>

(* Start hands on every frame from the first one after the tables, though  *)
(* the probe has read some of them: nothing is left out, twice or in       *)
(* another order, and a frame is never cut or joined with another, but for *)
(* the one that the stream was joined in (mpegts/producer.go, demuxer.go,  *)
(* core/readbuffer.go).  What is not handed on is still in the demuxer.    *)
FramesWhole ==
  /\ Len(cell) = CellSize => Aligned
  /\ stage = "failed" => rd.net > ProbeSize
  /\ \A p \in Pids :
       /\ IsPrefix(FlattenSeq(handed[p]), CellsOf(p))
       /\ p # Opus => \A i \in 1 .. Len(handed[p]) :
                        handed[p][i][1][1] # 0 => FrameWhole(handed[p][i])
  /\ stage = "start" /\ rd.net = Len(stream) * CellSize /\ rd.pos = Len(rd.buf) /\ cell = <<>> =>
       pes # <<>> /\ \A p \in Pids : FlattenSeq(handed[p]) \o pes[p].payload = CellsOf(p)
=============================================================================
