-------------------------------- MODULE Rtmp --------------------------------
(***************************************************************************)
(* RTMP (pkg/rtmp, internal/rtmp, pkg/flv): a client that publishes to or  *)
(* plays from the server.  Both sides are this program's, or the side that *)
(* sends the media is other software.  Messages are cut into chunks of the *)
(* size the writer has announced; the reader puts them together and turns  *)
(* them into an FLV stream, which flv.Producer probes and then reads again *)
(* from its start (ReadBuffer).                                            *)
(*                                                                         *)
(* What is on the wire is a sequence of marks: a chunk header, an extended *)
(* time, a byte of a message.  Times above Ext do not fit the header.      *)
(***************************************************************************)
EXTENDS ReadBuffer, SequencesExt

CONSTANTS
  Small, Big,  (* the size of a packet: before it is announced, and ours   *)
  Sizes,       (* what the size of a media message may be                  *)
  Ext,         (* 0xFFFFFF: the time follows the header                    *)
  MaxTags,     (* bound: media messages                                    *)
  ProbeTags    (* bytes of FLV kept while probing                          *)

VARIABLES
  mode, foreign,  (* publish or play; the writer is other software         *)
  cAt, sAt,       (* how far the client and the server are                 *)
  wire,           (* the marks on their way to the client and the server   *)
  wrSize,         (* wrPacketSize of each                                  *)
  rdSize,         (* rdPacketSize of each                                  *)
  chunks,         (* the last header each has read                         *)
  last,           (* the last media header that was written                *)
  tags,           (* the media messages that were written                  *)
  broken,         (* a reader has taken one thing for another              *)
  flv,            (* Conn.Read: the FLV stream so far                      *)
  fAt,            (* flv.Producer: header; check, probe; start             *)
  frd, got,       (* its reader, the bytes of the tag it reads             *)
  seen, handed    (* tags of the probe; tags that Start has read           *)

connVars == <<mode, foreign, cAt, sAt, wire, wrSize, rdSize, chunks, last, tags, broken>>
flvVars == <<fAt, frd, got, seen, handed>>
rtmpVars == <<connVars, flv, flvVars>>

Sides == {"client", "server"}
Peer(s) == IF s = "client" THEN "server" ELSE "client"
Writer == IF mode = "publish" THEN "client" ELSE "server"
Reader == Peer(Writer)

NoChunk == [raw |-> 0, size |-> 0, tag |-> "none"]
-----------------------------------------------------------------------------
(* Conn.writeMessage: a full header, then the bytes in chunks.  Other      *)
(* software also sends short headers, and extended times, which it repeats *)
(* in every chunk.  The commands and then the media are the one chunk      *)
(* stream in use.                                                          *)

Header(type, raw, size, tag) ==
  [mark |-> "header", type |-> type, raw |-> raw, size |-> size, tag |-> tag, of |-> 0, at |-> 0]
Time == [mark |-> "time", of |-> 0, at |-> 0]
Byte(m, i) == [mark |-> "byte", of |-> m, at |-> i]

(* m: what the message says.                                               *)
Chunks(type, raw, size, tag, m, max) ==
  LET time == IF raw = Ext THEN <<Time>> ELSE <<>>
      chunk(i) == (IF i = 1 THEN <<Header(type, raw, size, tag)>>
                   ELSE <<Header(3, raw, size, tag)>>) \o time \o
                  [j \in 1 .. (IF i * max <= size THEN max ELSE size - (i - 1) * max) |->
                     Byte(m, (i - 1) * max + j)]
  IN  FlattenSeq([i \in 1 .. (IF size = 0 THEN 1 ELSE (size + max - 1) \div max) |-> chunk(i)])

writeMessage(from, tag, size, m) ==
  wire' = [wire EXCEPT ![Peer(from)] = @ \o Chunks(0, 0, size, tag, m, wrSize[from])]

(* Conn.readMessage: chunk.readHeader, then so many bytes, with a header   *)
(* and perhaps a time in front of every chunk but the first.               *)
HeaderRead(s) ==
  LET h == Head(wire[s])
      c == chunks[s]
  IN  CASE h.type = 3 -> c
        [] h.type = 2 -> [c EXCEPT !.raw = h.raw]
        [] OTHER -> [raw |-> h.raw, size |-> h.size, tag |-> h.tag]

Extended(s) == IF HeaderRead(s).raw = Ext THEN 1 ELSE 0
First(s) == 1 + (IF Head(wire[s]).type < 3 THEN Extended(s) ELSE 0)

(* Where the i-th byte of the message is, and how long the message is.     *)
PlaceTimeOnce(s, i) == First(s) + i + (i - 1) \div rdSize[s]
Place(s, i) == First(s) + i + ((i - 1) \div rdSize[s]) * (1 + Extended(s))
MessageLen(s) ==
  LET size == HeaderRead(s).size IN IF size = 0 THEN First(s) ELSE Place(s, size)

Data(s) == [i \in 1 .. HeaderRead(s).size |-> wire[s][Place(s, i)]]
CanRead(s) ==
  /\ ~ broken /\ wire[s] # <<>> /\ Head(wire[s]).mark = "header"
  /\ Len(wire[s]) >= MessageLen(s)

(* The bytes are those of one message, and all of them. *)
OneMessage(s) ==
  LET d == Data(s)
  IN  /\ \A i \in 1 .. Len(d) : d[i].mark = "byte" /\ d[i].of = d[1].of /\ d[i].at = i
      /\ LET rest == SubSeq(wire[s], MessageLen(s) + 1, Len(wire[s]))
         IN  rest # <<>> => rest[1].mark = "header"

Take(s) ==
  /\ wire' = [wire EXCEPT ![s] = SubSeq(@, MessageLen(s) + 1, Len(@))]
  /\ chunks' = [chunks EXCEPT ![s] = HeaderRead(s)]
  /\ broken' = ~ OneMessage(s)
Said(s) == Data(s)[1].of
-----------------------------------------------------------------------------
(* The commands. *)

Command(c, id) == [cmd |-> c, id |-> id]
Program ==
  IF mode = "publish"
  THEN <<"connect", "connected", "releaseStream", "FCPublish", "createStream", "created",
         "publish", "started", "run">>
  ELSE <<"connect", "connected", "createStream", "created", "play", "started", "run">>

(* The messages that a step of the client sends or waits for. *)
Asks == [connect |-> 1, releaseStream |-> 2, FCPublish |-> 3, createStream |-> 4,
         publish |-> 5, play |-> 5]
Waits == [connected |-> Command("_result", 1), created |-> Command("_result", 4),
          started |-> Command("onStatus", 0)]
CommandSize == 3

(* NewClient, NewServer: the size of our packets, before anything else. *)
writePacketSize(s) == writeMessage(s, "size", 1, wrSize[s])

NewClient ==
  /\ cAt = 0 /\ cAt' = 1
  /\ writePacketSize("client")
  /\ UNCHANGED <<mode, foreign, sAt, wrSize, rdSize, chunks, last, tags, broken>>
NewServer ==
  /\ sAt = "new" /\ cAt > 0 /\ sAt' = "commands"
  /\ writePacketSize("server")
  /\ UNCHANGED <<mode, foreign, cAt, wrSize, rdSize, chunks, last, tags, broken>>

ClientAsks ==
  /\ cAt > 0 /\ Program[cAt] \in DOMAIN Asks
  /\ cAt' = cAt + 1
  /\ writeMessage("client", "command", CommandSize, Command(Program[cAt], Asks[Program[cAt]]))
  /\ UNCHANGED <<mode, foreign, sAt, wrSize, rdSize, chunks, last, tags, broken>>

(* TypeSetPacketSize, in readResponse and in ReadCommands. *)
SetPacketSize(s) ==
  rdSize' = IF HeaderRead(s).tag = "size" THEN [rdSize EXCEPT ![s] = Said(s)] ELSE rdSize

(* readResponse: other answers are skipped. *)
ClientWaits ==
  /\ cAt > 0 /\ Program[cAt] \in DOMAIN Waits
  /\ CanRead("client") /\ Take("client") /\ SetPacketSize("client")
  /\ cAt' = IF HeaderRead("client").tag = "command" /\ Said("client") = Waits[Program[cAt]]
            THEN cAt + 1 ELSE cAt
  /\ UNCHANGED <<mode, foreign, sAt, wrSize, last, tags>>

(* ReadCommands and acceptCommand. *)
ServerReads ==
  /\ sAt = "commands" /\ CanRead("server") /\ SetPacketSize("server")
  /\ LET m == Said("server")
         asked == HeaderRead("server").tag = "command"
         answers == asked /\ m.cmd \in {"connect", "releaseStream", "createStream"}
     IN  /\ sAt' = IF asked /\ m.cmd \in {"publish", "play"} THEN "start" ELSE sAt
         /\ wire' = [wire EXCEPT
              !.server = SubSeq(@, MessageLen("server") + 1, Len(@)),
              !.client = IF answers
                         THEN @ \o Chunks(0, 0, CommandSize, "command",
                                          Command("_result", m.id), wrSize.server)
                         ELSE @]
  /\ chunks' = [chunks EXCEPT !.server = HeaderRead("server")]
  /\ broken' = ~ OneMessage("server")
  /\ UNCHANGED <<mode, foreign, cAt, wrSize, last, tags>>

(* tcpHandle: the stream is found and the answer is sent before the media, *)
(* or there is none and the connection is left.                            *)
WriteStart ==
  /\ sAt = "start"
  /\ \/ sAt' = "run" /\ writeMessage("server", "command", CommandSize, Command("onStatus", 0))
     \/ sAt' = "gone" /\ UNCHANGED wire
  /\ UNCHANGED <<mode, foreign, cAt, wrSize, rdSize, chunks, last, tags, broken>>
-----------------------------------------------------------------------------
(* The media.  flv.Muxer makes a tag of a frame, and Conn.Write makes one  *)
(* message of what it is given, also of several tags that the WriteBuffer  *)
(* passes on together.  Its time fits the header.                          *)

Writing == IF Writer = "client" THEN cAt = Len(Program) ELSE sAt = "run"

Sends(type, raw, size, tag) ==
  /\ wire' = [wire EXCEPT ![Reader] =
       @ \o Chunks(type, raw, size, tag, Len(tags) + 1, wrSize[Writer])]
  /\ last' = [raw |-> raw, size |-> size, tag |-> tag]
  /\ tags' = Append(tags, [tag |-> tag, size |-> size])
  /\ UNCHANGED <<mode, foreign, cAt, sAt, wrSize, rdSize, chunks, broken>>

(* A message may be empty. *)
Media == ({"audio", "video"} \X Sizes) \cup {<<"data", 0>>}

WriteTag ==
  /\ Writing /\ Len(tags) < MaxTags
  /\ \E m \in Media : Sends(0, 0, m[2], m[1])

(* Other software: a header like the last one is left out, an absolute     *)
(* time may be extended.                                                   *)
ForeignTag ==
  /\ foreign = TRUE /\ Writing /\ Len(tags) < MaxTags /\ last.tag # "none"
  /\ \E m \in Media : LET tag == m[1]  size == m[2] IN
       \/ Sends(0, Ext, size, tag)
       \/ Sends(1, 0, size, tag)
       \/ size = last.size /\ tag = last.tag /\ Sends(2, 0, size, tag)
       \/ size = last.size /\ tag = last.tag /\ last.raw # Ext /\ Sends(3, last.raw, size, tag)

(* Conn.Producer: the header of FLV is there before the first message.     *)
FileHeader == [of |-> 0, at |-> 0, size |-> 0]
Producer ==
  /\ fAt = "off"
  /\ IF Reader = "client" THEN cAt = Len(Program) ELSE sAt = "run"
  /\ flv' = <<FileHeader>> /\ fAt' = "header"
  /\ UNCHANGED <<connVars, frd, got, seen, handed>>

(* Conn.Read: the reader's next message as a tag, when the one before has  *)
(* been read.                                                              *)
ConnRead ==
  /\ fAt \in {"probe", "start"} /\ frd.net = Len(flv)
  /\ CanRead(Reader) /\ Take(Reader)
  /\ LET size == HeaderRead(Reader).size
         n == Last(flv).of + 1
         d == Data(Reader)
     IN  flv' = flv \o <<[of |-> n, at |-> 0, size |-> size]>>
                    \o [i \in 1 .. size |-> [of |-> d[i].of, at |-> d[i].at, size |-> size]]
  /\ UNCHANGED <<mode, foreign, cAt, sAt, wrSize, rdSize, last, tags, flvVars>>
-----------------------------------------------------------------------------
(* flv.Producer: Open reads the header and probes; Start reads the tags    *)
(* again.                                                                  *)

Tokens(out) == [i \in 1 .. Len(out.got) |-> flv[out.got[i]]]

readHeader ==
  /\ fAt = "header" /\ fAt' = "check"
  /\ \E out \in Read(frd, 1, Len(flv)) : frd' = [out.r EXCEPT !.size = ProbeTags]
  /\ UNCHANGED <<connVars, flv, got, seen, handed>>

(* The loop of probe ends when the kinds that are expected have come, or   *)
(* its time is over.                                                       *)
Probes ==
  /\ fAt = "check"
  /\ \/ seen # {"audio", "video"} /\ fAt' = "probe" /\ UNCHANGED frd
     \/ fAt' = "start" /\ frd' = Reset(frd)
  /\ UNCHANGED <<connVars, flv, got, seen, handed>>

(* readPacket: the header of a tag, then its bytes. *)
Start(bytes) == Append(handed, bytes)
Crossed(bytes) ==
  IF bytes[1].of > 0 THEN seen \cup {tags[bytes[1].of].tag} ELSE seen
Complete(bytes) == bytes # <<>> /\ Len(bytes) = 1 + bytes[1].size
readPacket ==
  /\ fAt \in {"probe", "start"}
  /\ LET want == IF got = <<>> THEN 1 ELSE 1 + got[1].size - Len(got) IN
     \E out \in Read(frd, want, Len(flv)) :
       LET bytes == got \o Tokens(out) IN
       /\ frd' = out.r
       /\ \/ out.fails /\ fAt' = "failed" /\ UNCHANGED <<got, seen, handed>>
          \/ ~ out.fails /\ ~ Complete(bytes) /\ got' = bytes /\ UNCHANGED <<fAt, seen, handed>>
          \/ /\ ~ out.fails /\ Complete(bytes) /\ got' = <<>>
             /\ fAt' = IF fAt = "probe" THEN "check" ELSE fAt
             /\ seen' = IF fAt = "probe" THEN Crossed(bytes) ELSE seen
             /\ handed' = IF fAt = "start" THEN Start(bytes) ELSE handed
  /\ UNCHANGED <<connVars, flv>>

Init ==
  /\ mode \in {"publish", "play"} /\ foreign \in BOOLEAN
  /\ cAt = 0 /\ sAt = "new"
  /\ wire = [s \in Sides |-> <<>>]
  /\ wrSize \in [Sides -> {Small, Big}]
  /\ \A s \in Sides : ~ (foreign = TRUE /\ s = Writer) => wrSize[s] = Big
  /\ rdSize = [s \in Sides |-> Small]
  /\ chunks = [s \in Sides |-> NoChunk]
  /\ last = NoChunk /\ tags = <<>> /\ broken = FALSE
  /\ flv = <<>> /\ fAt = "off" /\ frd = NewReadBuffer /\ got = <<>>
  /\ seen = {} /\ handed = <<>>

Next ==
  \/ (NewClient \/ NewServer \/ ClientAsks \/ ClientWaits \/ ServerReads \/ WriteStart
      \/ WriteTag \/ ForeignTag) /\ UNCHANGED <<flv, flvVars>>
  \/ Producer \/ ConnRead \/ readHeader \/ Probes \/ readPacket
-----------------------------------------------------------------------------
(* Properties. *)

(* Every byte of the tags that were written. *)
Written ==
  FlattenSeq([n \in 1 .. Len(tags) |->
    [i \in 1 .. tags[n].size + 1 |-> [of |-> n, at |-> i - 1, size |-> tags[n].size]]])

(* The reader never takes a header for data or the other way round, though *)
(* the size of the chunks changes and times are extended; and what Start   *)
(* hands on is every message from the first, whole and in order, though    *)
(* the probe has read some of them (rtmp/conn.go, rtmp/flv.go,             *)
(* flv/producer.go).                                                       *)
MessagesWhole ==
  /\ ~ broken
  /\ \A s \in Sides : wire[s] # <<>> => Head(wire[s]).mark = "header"
  /\ IsPrefix(FlattenSeq(handed), Written)
  /\ fAt = "failed" => frd.net > ProbeTags
  /\ fAt = "start" /\ frd.net = Len(flv) /\ frd.pos = Len(frd.buf) /\ wire[Reader] = <<>> =>
       FlattenSeq(handed) \o got = Written
=============================================================================
