# placecitivi in TLA+

placecitivi shows IP cameras as pins on a map: a visitor clicks a pin and
watches the camera live. The program is a fork of go2rtc, a streaming engine in
Go, with a web application (`internal/cctv`) on top. This directory holds TLA+
models of the parts of it where concurrency, failure and ordering decide
whether it works, TLC configurations that check them on small instances, and
TLAPS proofs of what matters most for instances of every size.

Paths below are relative to the repository (`internal/...`, `pkg/...`); in
`PROJECT.json` they start with `src/`.

## 1. The system

### 1.1 Parts, and how they interact

```
 map page, admin page ── HTTP ──► internal/cctv ── SQLite (cameras, users, settings)
                                      │ streams.Patch
 streams API, config file ──► stream registry (internal/streams/streams.go)
                                      │ name → Stream
 HLS, MP4, WebRTC, RTSP … ──► Stream: AddConsumer / RemoveConsumer
   (consumers)                        │
                                 Producer: dial, tracks, start, reconnect, stop
                                      │ dial
                                 rtsp, exec, ffmpeg, webrtc … (sources)

 source ─► core.Receiver ─► core.Node children ─► core.Sender queue ─► consumer
                                                        └─► core.WriteBuffer ─► HTTP response
 camera ── RTP packets, MPEG-TS, RTMP messages ──► depay / demux ──► frames ─► core.Receiver
```

Every client of the program, every source and every timer runs in goroutines of
its own. What they share is protected by a handful of mutexes (`streamsMu`,
`Stream.mu`, `Producer.mu`, `Node.mu`, `Sender.mu`, `WriteBuffer.mu`,
`Waiter.mu`), several of which are deliberately not held on some read paths:
the track lists of a producer, the child slice of a node and the producer list
of a stream are read without them. The models are about what that allows.

| Part | State | Operations | What is hard |
| --- | --- | --- | --- |
| `core.Waiter` | count or finished, WaitGroup, first error | Add, Done, Wait, WaitChan | more Dones than Adds; Add or Wait after the finish; a Wait blocked at the last Done |
| `internal/streams` Stream, Producer | consumers, producers, pending; state, conn, receivers, senders, workerID | AddConsumer, RemoveConsumer, stopProducers; Dial, GetMedias, GetTrack, AddTrack, start, worker, reconnect, stop | a consumer joins while others leave; a source ends while both happen; reconnect moves tracks while they are read |
| stream registry | name → Stream, with aliases | New, Patch, Get, Delete, Init | links between names, unsupported sources, restart |
| `core.Node`, `core.Receiver` | child slice, parent | Input, AppendChild, RemoveChild, Close, MoveNode | iteration without the mutex over an array that others shift and grow |
| `core.Sender` | channel, `done`, counters | Input, Start, Wait, Close | write to a closed channel, full queue, Start twice |
| `core.WriteBuffer` | writer, buffer, WaitGroup | Write, WriteTo, Reset, Close | switch of the writer between writes; Close before, during and after WriteTo |
| `internal/cctv` cameras | the cameras table (persistent), the registry (in memory) | list, create, change, delete, import, export, boot sync | two stores changed in two steps; statements that fail; a kill and a restart between them |
| `internal/cctv` users, sessions | users table, session map | login, logout, change of user, expiry | a session that outlives its user; a change that finds its session gone |
| streams API | registry and configuration file | PUT, PATCH, DELETE, POST, preload | two writers of one file |
| play, preload, publish | internal consumers and producers | Play, AddPreload, DelPreload, Publish | producer list changes while it is ranged over; one retry only |
| RTSP client | one Conn: connection, state, medias set up, password, keepalive | Dial, Describe, SETUP, PLAY, Reconnect, Start, Handle, Stop | answers that belong to another request; a redirect or a Reconnect in the middle of a call; Handle on a connection that is replaced |
| RTSP server | one Conn per client, its listener and closer | Accept, ANNOUNCE, DESCRIBE, PLAY, RECORD, Handle | a client that breaks off anywhere |
| exec | waiters by URL hash, child process | dial, handler, timeout, close | second dial of one URL; timeout against the connection; a child that reads the stream it feeds |
| HLS server | session map, keepalive timer, segment buffer | playlist, segment, init | timer against a late request; requests that overlap |
| WebSocket transport, WebRTC signalling | callbacks, closed flag, consumers; offer, answer, candidates | read loop, Write, OnClose, Close; offer, candidate | handlers that finish after Close; candidates before their offer or answer; one `err` for all |
| Wyoming satellite | state of the microphone, wake word service, scripts | events, script calls, chunks | chunks, events and scripts in any order; a script that outlives its client |
| Ring REST client | token, session, their expiry, two mutexes | Request with its retries | callers that drop what another has just renewed; nested mutexes |
| Tuya client | peer connection, MQTT, data channel, `connected` | Dial, callbacks, Close, Stop | callbacks of three libraries that end what Dial is still making |
| Ring dial | WebSocket, peer connection, `closed`, `connected` | Dial, message loop, callbacks, Stop | the loop runs before its callbacks are set; several goroutines stop the client |
| WebRTC sources (go2rtc, Kinesis, OpenIPC, HTTP) | WebSocket, peer connection, two waiters | dial, reader, callback with candidates | three goroutines on one WebSocket without a mutex; whichever fails must end the dial |
| `core.Worker`, webtorrent server | timer, shares, announce worker | Do, Stop; AddShare, RemoveShare, Serve | a share removed and added again while Serve sleeps |
| video over RTP (`pkg/h264`, `pkg/h265`) | units collected so far, number of the last packet | RTPPay, RTPDepay | packets lost or overtaken inside a frame; cameras that mark the wrong packets |
| MPEG-TS | a PES buffer per stream, a packet that was read too far | Open with its probe, Start, the muxer | frames without a size end when the next begins; all is read twice |
| DVRIP | a packet buffer, a rewindable reader | Dial with its probe, ReadChunk, ReadPacket, Start | packets cut into chunks or several in one, read twice |
| RTMP, FLV | chunk size of each side, last header of each chunk stream | commands, writeMessage, readMessage, Read, Write, probe | a reader that is wrong by a byte is wrong for ever; sizes change in the stream |
| `core.ReadBuffer` | buffer, position, mode | Read, Peek, Reset | a read across the end of what was kept |
| HomeKit camera (we serve) | connections, `s.conns`, `s.consumer`, a timer per consumer | set up, start and end a session; AddConn, DelConn | an End looks for a session while the list moves; queued packets reset the timer that was to end it |
| SRTP server | socket, sessions, the goroutine that reads | AddSession, DelSession, handle | Start and Stop of a source meet; the socket is replaced under its reader |
| other vendor clients | one connection each | handshake, play, stop | message parsing; they appear to a Stream as a source that dials, plays and ends |
| codecs and containers | none shared | conversions | data only |
| configuration, storage, main | routes, files | start, read, patch | I/O |

`PROJECT.json` lists each of them with its status, and under `hazards` the
places in the code that are hard to test, each with the properties that are
about it.

### 1.2 What makes each part correct

* **Waiter.** The WaitGroup never goes negative; no Wait returns before the last
  Done and every Wait returns after it; the first error is kept.
* **Stream.** A producer that nobody needs is disconnected, and none is
  disconnected under an attached consumer. A producer
  has one worker while it is started, none otherwise. No connection is left open
  behind (“ghost exec/ffmpeg”). A consumer's call always returns.
* **Node.** A packet reaches each child once; one that has left gets nothing; one
  that leaves does not detach others.
* **Sender.** No panic; order kept; accepted packets are delivered even after
  Close; a slow consumer never holds up the source.
* **WriteBuffer.** No gap in the client's data at the switch of the writer;
  WriteTo blocks until a write fails or Close is called, and not longer.
* **Registry and cameras.** A stored camera has its stream; nothing unsupported
  is registered; a deleted camera stays deleted; a restart restores the map.
* **Producer list.** A Play that ends leaves neither its source nor its
  connection behind; the list may change while a consumer looks through it.
* **Sessions.** A session that was logged out, has expired or was lost in a restart
  is not brought back by a request that found it earlier.
* **RTSP client.** One connection at a time; PLAY covers every track that was set
  up, after every kind of reconnect; a track added to a playing session is played;
  every call returns and Stop ends Start without an error.
* **RTSP server and exec.** No child process runs for nobody; no connection becomes
  the producer of two dials; dials and consumers return even when the child reads
  the stream it is to feed; a client that goes is taken out of the stream.
* **HLS.** Segments hold the frames written, in order, none twice; a session nobody
  asks anything of goes, with its consumer.
* **WebSocket, WebRTC.** The answer comes before our candidates; the browser's
  candidates are neither lost nor doubled; a connection's consumers go with it.
* **Wyoming.** A chunk never meets a missing wake word service; nothing is opened
  for a client that has gone.
* **Ring.** A retry goes out with what was renewed for it; every request returns.
* **Tuya, Ring, WebRTC sources.** Whatever fails first, the dial returns and its
  connections are closed; the offer goes out before the candidates, and nobody writes
  to the socket beside another.
* **RTP, MPEG-TS, DVRIP, RTMP.** What is handed on is what was sent, whole and in order:
  no unit is made of pieces of two, and a probe takes nothing away from what plays.
* **HomeKit.** A session that plays is found by its End, and leaves the stream with all
  its goroutines.
* **SRTP.** A session has a socket that is open and read; none is open for nobody.
* **Tracker.** A share that stays is announced on an open connection.

## 2. Modules

| Module | Models | Checked by | Proofs |
| --- | --- | --- | --- |
| `Waiter` | `pkg/core/waiter.go` | `MCParts` | `PartsProofs` |
| `Streams` | `internal/streams/{stream,add_consumer,producer}.go`, `MoveNode` and `Connection.Stop` of `pkg/core` | `MCStreams` | `StreamsProofs` |
| `SourceLink` | abstract: the connections of a producer | as a property of `Streams` | `StreamsProofs` |
| `Producers` | the list `s.producers`: `internal/streams/{play,add_consumer,stream}.go` | `MCParts` | |
| `WriteBuffer` | `pkg/core/writebuffer.go` | `MCParts` | `PartsProofs` |
| `Sender` | `pkg/core/track.go` (the queue) | `MCParts` | `PartsProofs` |
| `Node` | `pkg/core/node.go`, `Receiver.Input`, leaving of a sender | `MCMedia` | `TrackProofs` |
| `Registry` | `internal/streams/streams.go` | through `Cameras` | `CamerasProofs` |
| `Cameras` | `internal/cctv/{api,store,init,types}.go`, `internal/streams/api.go`, `PatchConfig` of `internal/app/config.go` | `MCCameras` | `CamerasProofs` |
| `Sessions` | `internal/cctv/{auth,api,store,init}.go`: the administrator | `MCParts` | `PartsProofs` |
| `Rtsp` | the client of `pkg/rtsp`, `rtspHandler` of `internal/rtsp` | `MCSources` | `SourcesProofs` |
| `RtspServer` | the server of `pkg/rtsp` and `internal/rtsp`, `internal/exec`, `pkg/shell` | `MCSources` | `SourcesProofs` |
| `Tuya` | `pkg/tuya/{client,mqtt}.go` | `MCSources` | |
| `RingDial` | `pkg/ring/{client,ws}.go` | `MCSources` | |
| `WebrtcClient` | `internal/webrtc/{client,kinesis,openipc}.go` (and in outline the formats over HTTP) | `MCSources` | `SourcesProofs` |
| `HomeKit` | `SetCharacteristic`, `AddConn`, `DelConn` of `internal/homekit/server.go`, `pkg/homekit/consumer.go` | `MCSources` | `SourcesProofs` |
| `Srtp` | `pkg/srtp/server.go` with Start and Stop of `pkg/homekit/producer.go` and `pkg/hap/camera/stream.go` | `MCMedia` | `MediaProofs` |
| `Hls` | `internal/hls/{hls,session}.go` | `MCParts` | `PartsProofs`, `ListProofs` |
| `Ws` | `internal/api/ws/ws.go`, handlers of `internal/mp4` and `internal/webrtc`; instantiates `Waiter` | `MCParts` | `PartsProofs` |
| `Wyoming` | `pkg/wyoming/{satellite,expr,wakeword}.go`, the MicHandler of `internal/wyoming` | `MCParts` | `PartsProofs` |
| `RingApi` | `pkg/ring/api.go` | `MCParts` | `PartsProofs` |
| `Tracker` | `pkg/webtorrent/server.go`, `pkg/core/worker.go` | `MCParts` | |
| `RtpVideo` | `pkg/h264/{rtp,payloader}.go`, `pkg/h265/{rtp,payloader}.go` | `MCMedia` | `TrackProofs`, `ListProofs` |
| `ReadBuffer` | `pkg/core/readbuffer.go` | through `Mpegts`, `Dvrip` and `Rtmp` | `MediaProofs` |
| `Dvrip` | `pkg/dvrip/{client,producer}.go` | `MCMedia` | `MediaProofs`, `ListProofs` |
| `Mpegts` | `pkg/mpegts/{muxer,demuxer,producer,opus}.go` | `MCMedia` | `MediaProofs`, `ListProofs` |
| `Rtmp` | `pkg/rtmp`, `internal/rtmp`, `pkg/flv/{muxer,producer}.go` | `MCMedia` | `RtmpProofs`, `ListProofs` |

`Cameras` composes with `Registry` (it EXTENDS it: handlers call the registry's
operations, each of which holds `streamsMu` and is one step). `RtspServer`
composes the server with the exec source that waits for a connection to it, and
`Ws` uses `Waiter` for the `sendAnswer` of the WebRTC handler. `Mpegts` and `Rtmp`
read through `ReadBuffer`, which has no state of its own: its operators map a reader to
the readers it may become. The other modules are
separate: `Node` and `Sender` meet in a sender's `Close`, whose first half (close
of the channel) is in `Sender` and whose second half (leaving the receiver) is in
`Node`; each lets its half happen at any time, which covers every order in which
the other half can come. In the same way `Producers` has the list of a stream and
leaves open what its producers offer, while `Streams` has the producers and keeps
the list.

`MCParts`, `MCSources` and `MCMedia` instantiate modules that share no state side by side: a
variable `part` chooses one at the start and only that one moves, so that the
states of a run are the sum of the parts' and not their product.

### 2.1 Conventions

A method that runs under one mutex from its first to its last access to shared
state is one action. A method that reads or writes shared state outside the
mutex, or releases goroutines half way, is split there. A goroutine's place is
in `pc` (or a variable named for the goroutine), its local variables in `loc` or
`job`. A mutex is a variable only where it is held over several actions
(`Stream.mu` in stopProducers, `Producer.mu` in reconnect, `Waiter.mu` in Done).
Logging, formatting and statistics are left out.

Operators marked *mutant* are forms of the operator next to them with a likely
mistake in it. No specification uses them; they are the evidence that each
property can fail (`mutants` in `PROJECT.json`: putting the mutant in the place
of the operator makes TLC report the property).

### 2.2 Waiter

Threads make one call each. `Add`, `Wait`, `Done` and `WaitChan` are the
methods; a blocked Wait is in `blocked`, is released by the WaitGroup (`Wake`)
and reads `w.err` in a later step without the mutex (`ReturnWait`). Done is two
steps, since `WaitGroup.Done()` releases those goroutines while Done still holds
the mutex.

### 2.3 Streams

One stream. A consumer's goroutine goes through AddConsumer (`visit` a producer
for a media, `dialed`, `matched`, `tracked`; then `load` and `lock` for
stopProducers; `attach`, `start`) and later RemoveConsumer. What is read between
two lock sections, such as the medias of a connection that may be replaced
meanwhile, is in `loc`. A producer is its `state`, `conn`, `recv`, `send`,
`workerID` (`gen`), its worker goroutines (`loops`) and a reconnect under way
(`move`): reconnect holds `Producer.mu` but moves each track in steps, since
`stopProducers` reads the track lists without that mutex.

`Survive` says which children are left when `Node.Close` ranges over a slice
that its children remove themselves from: with every removal the others move down
under the walk, and of n children (n - 1) div 2 are passed over.

What is abstracted: the producer list is fixed (AddProducer, RemoveProducer and
Play are planned), a connection offers at most one media of a kind,
RemoveConsumer's loop over the consumer list is one step, a dial is one step
under `Producer.mu`, and the retry delays of reconnect are “at any time”.
`MaxConn` bounds the connections dialled in a behaviour; at the bound a dial
fails, which the code must cope with anyway.

### 2.4 WriteBuffer, Sender, Node

`WriteBuffer` numbers writes in the order in which they take the mutex. A flush
or a write may fail at any time; a failing flush has passed on an arbitrary
beginning of its data. `Close` is two steps because it looks at `w.Writer` before
it takes the mutex.

`Sender` has the channel (`queue`, `closed`), the goroutine of Start with the
packet it has taken (`hand`), and the callers of Wait. Input, Start and Close
run under `s.mu`.

`Node` has the Go slice as it is: `mem` is the list of backing arrays, `len` the
length, and a walk over the slice is the array, the length and the position it
began with. Appending within the capacity writes to the array a walk may be
reading; appending beyond it allocates a new array of twice the size; removing
shifts the elements in place. A walk takes its slice header in one step. In
the compiled program that is three loads, for which the code has no
synchronisation either; torn headers are not modelled.

### 2.5 Registry and Cameras

`Registry` has the map from names to stream objects and what each object plays.
Two names may share an object: `Patch` links a name to the stream its source
names, literally or by the path of an `rtsp://` URL.

`Cameras` has the persistent `rows` (the cameras table) and `config` (the file),
and a process that is `up` or not. Each handler is its statements and registry
calls in the code's order: POST inserts, registers, and deletes again on an
error; PUT reads, registers, then updates; import replaces the table in a
transaction and then walks over the list it reads back. The boot sync runs
beside the handlers, since the API server is listening by then. Every statement
may fail (`DbFails`), and `Crash` at any moment loses everything but `rows` and
`config`.

What is abstracted: requests come from logged-in administrators; a camera is its
stream name and its URL (text, place and display name are not told apart, so
`ORDER BY name` is any order); a stream has one source and no `{input}`
template; which schemes are supported is the constant `Supported`; the settings
row, geocoding and the export only copy values. `NewIds` bounds creations,
`MaxCrashes` crashes.

### 2.6 Producers and Sessions

`Producers` has the slice `s.producers` as `Node` has its children: arrays, lengths,
and a range that keeps the array it began with. Connections that push come and go
(`Come`, `Leave`), a Play dials its source, adds an internal producer and consumer
and takes them out again, and a viewer's AddConsumer ranges over the list once for
each media with an error list whose length it read at the beginning (`IndexError`
is Go's panic). There is one Play; what other Plays do to it is what the end of a
source does.

`Sessions` has the administrator's row and the session map. A handler is one step for
each statement and each section under `sessionsMu`: PUT finds the session, writes
the name, writes the password, and renames the session if it is still there.
Tokens are never reused; a restart empties the map and ends the handlers.

### 2.7 Rtsp

One Conn. A call of the producer (`GetTrack`, `AddTrack`, the open of `rtspHandler`)
is a list of steps still to do, `plan`: Dial, DESCRIBE, a SETUP with the answer it
waits for, PLAY, a close. Do, SetupMedia and Reconnect call each other, and each
puts its steps in front of its caller's. `wire` holds the answers on their way,
`old` those to requests nobody waits for any more: a step reads the next
answer, whatever it answers, as Do does. A camera may refuse, redirect, ask for a
password, or be late, and the connection may be dropped, `MaxFaults` times in all;
without the bound a camera could redirect for ever, which Do follows for ever.
Start (`Switch`, `Play`), the reader (`Handle`) and the keepalive run beside the calls
and use the connection as they find it. `MaxBeats` bounds the keepalives.

### 2.8 RtspServer

Every connection is a goroutine in tcpHandler, which reads requests in the order in
which Accept knows them; a client may leave at any point (`Leave`), and the read or
write that finds out ends the handler (`Breaks`). An exec dial registers its channel
under the URL's hash (a second dial of the URL replaces it), starts the child, and
waits for a connection, the end of the child, or the timer. The child's connection
goes through the same tcpHandler and is handed over after RECORD to whoever is
registered then. Dials hold their producer's mutex, so a consumer, and with it a
child that reads the stream it is to feed, waits while any dial runs.

### 2.9 Tuya, RingDial, WebrtcClient

Dial makes the MQTT connection, installs its callbacks, offers, and waits for
`connected`. A message that cannot be used, a disconnect, an error or the end of
the data channel, a closed peer connection and a candidate that cannot be sent all
call Close, each in a goroutine of its own and at any moment; Close is its
statements, since nothing orders two of them. Publishing over MQTT and
`Disconnect` are taken to return, also from within a message handler. Each callback
fails at most once and one candidate is found: after the first Close the others
only find `closed` set.

`RingDial` follows the same plan over one WebSocket. Its message loop runs from
StartWebsocket on and is at `lost` when its error came before the callbacks were
set; a Stop that runs before `client.prod` is assigned passes the peer connection by
(`left`); two Stops that both pass the test of `closed` close a channel twice
(`panic`). `ErrorEnds` asks nothing of a loop that is `lost`, of a peer connection
that is `left` and after a `panic`: these are defects of the code (§6), and the
property says that there are no others.

`WebrtcClient` is the dial in four formats. To go2rtc the dial reads the answer itself
and a mutex orders the writers; to Kinesis a reader starts once the offer is sent; an
OpenIPC camera offers, and the reader answers; over HTTP there is one exchange. A
write is two steps, so that two can overlap, and the deferred calls of a return over
a WebSocket run one after the other. `DialEnds` asks for a closed peer connection
only to another go2rtc, where the code closes it.

### 2.10 Hls, Ws, Wyoming, RingApi, Tracker

`Hls` is one session: frames are numbers (0 is the init data), the consumer's writes
and the requests' takes are one step each under the session's mutex, and the timer
may fire at any time after it was set or reset. Requests, three of them, look the
session up, reset the timer, and then poll.

`Ws` is one WebSocket: the read loop, a handler goroutine for each message, the
callbacks of the peer connection. The variable `err` that loop and handlers share is
modelled as it is: assigned in one step and tested in the next. Where a handler
then reports a nil error the process ends (`crash`), and the liveness property
excuses that.

`Wyoming` is one client of a satellite: its events, scripts whose calls are separated
by sleeps, chunks of the microphone, and the wake word service. The methods
that run under `micMu` are one step; whether a chunk is loud is left open.

`RingApi` has the token and the session, whether each is still fresh, the two mutexes
and a caller's place in Request. HTTP calls end with any answer. `unchanged` is a
history of what a caller was refused with and has not been renewed since.

`Tracker` has the Serve loops with their connections and Workers. A Worker waits for
its timer, was fired, has run its function, or has ended: Do and Stop have an effect
only in the first of these. `MaxDrops` bounds how often the tracker refuses a
connection or drops one.

### 2.11 RtpVideo, Mpegts, Dvrip, Rtmp

These four are about data that goes through the program in pieces. A piece says what
it is a piece of, and the properties compare what comes out with what went in.

`RtpVideo`: a frame is its NAL units with their kinds and lengths. RTPPay cuts it into
packets by the lengths, with the parameter sets that H.264 keeps for the next unit and
the units that H.265 aggregates; a camera cuts it its own way and marks every parameter
set. The network loses a packet or puts one in front of the others, `MaxFaults` times.
`Unmarshal` and `Fragmented` are pion's, as RTPDepay uses it.

`Mpegts`: the cells (transport packets) of an encoder that interleaves three streams, may
leave the size of video open, repeats its tables, and may have been joined in the middle
of a frame. The bytes of a cell are numbers in the stream, and a read takes as many as
the network has, so that a cell may arrive in halves, from the buffer and from the
network. The probe has a demuxer of its own and ends early or late.

`Dvrip`: a camera's packets in units of 8 bytes, cut into chunks that may end in the
middle of a packet or hold several; `marks` is the wire, `part` and `size` are where
io.ReadFull stands in a chunk, `cbuf` is `client.buf`. The probe's ReadPacket and Start's
are one action. The probe ends with both tracks, with one, or with none, and forgets
`client.buf` when the reader goes back to the beginning.

`Rtmp`: a session from the first chunk size to the media, for both directions. `wire` has
headers, extended times and bytes as marks in a row; readMessage takes marks by
counting, and `broken` is set when it took one for another. Other software on the side
that sends the media uses its own chunk size, short headers and extended times.

### 2.12 HomeKit and Srtp

`HomeKit`: every controller has a connection with a goroutine (`at`) that answers its
requests one by one. `conns` counts how often a Consumer is in `s.conns`, `listed` how
often it is in the stream. An End walks over `s.conns` without the mutex while others
shift it, and may then miss its session (`missed`). A Start leaves a goroutine (`run`)
that waits for the timer, which fires after an End, after `ConnDeadline` without a
packet, or when the consumer is removed, and which every packet resets, also those
that are queued when the session is ended. A controller names the session it set up
last, and a session that nobody knows and that was never started is as good as new.

`Srtp`: Start and Stop of the clients of a camera in steps, `DelSession` only for a
session with a Remote, and the readers of `s.conn`, each of which looks the socket up
again for every packet: `stale` is one that waits on a socket that was replaced.

## 3. Runs

Deadlock is checked in the runs of `MCStreams` and in
`cameras`: there the end of all work is a stuttering action that is enabled only
when every call has returned (`Quiet`, `Terminated`), so that a goroutine stuck in
a call is a deadlock. It is not in `parts`, `sources` and `media` (and the runs of the same
modules), where a client may have gone for good, a process may have ended with a
panic or all bounds may be used up; there the liveness properties say which calls
must return. In `cameras_moved` the ids run out.

| Run | Instance | Question and answer |
| --- | --- | --- |
| `parts` | ten modules side by side | *Waiter*, 4 threads, 2 errors: is no Wait early, and every Wait released after the finish? Four threads are two overlapping calls, the Wait they release and a call after the finish. *Sender*, 5 packets, queue of 2, 2 Starts, 1 Wait: no panic, Wait means drained. Five packets fill the queue, the hand, and two drops. *WriteBuffer*, 4 writes, 2 closers: nothing is lost at the switch of the writer, and a failing write ends WriteTo. *Hls*, 3 requests, 3 frames, both formats. *Ws*, one player, one offer, one candidate each way: every order of two messages and a close. *Wyoming*, 2 scripts at a time. *RingApi*, 2 callers, all 4 tries: one drops what the other has renewed. *Producers*, 2 configured producers, 1 publisher, 1 Play, 1 viewer with 2 medias. *Sessions*, 2 names, 1 password, 2 tokens, 2 handlers: a change races a logout, an expiry or a restart. *Tracker*, 2 shares, 2 loops, 2 refusals or drops: the second loop starts while the first sleeps. All hold. |
| `streams_two` | 2 producers, 2 consumers, 3 dials | With sources that stay up, is an attached consumer safe from the stopping of unread producers, and does the last one out close everything? Yes. One consumer takes a kind from every producer (`MatchAll`), the other is fed by the first source itself. |
| `streams_reconnect` | 1 producer, 2 consumers (one with a backchannel), 3 dials | With a source that ends at any time: one worker, readers that are seen, AddConsumer returns, the connections follow `SourceLink`. Three dials are a start, a reconnect, and a restart or a second reconnect. |
| `streams_stop_unread` | 1 producer, 2 consumers | *Violated:* a producer is stopped that has a reader (§6). |
| `streams_talk_leak` | 1 producer, 2 talking consumers | *Violated:* everybody has left and the producer stays connected (§6). |
| `streams_pushed` | the list of `parts` | *Violated:* a producer added while a consumer looks for tracks ends the process (§6). |
| `media` | `Node`: 3 senders, 2 closers, 2 packets. `RtpVideo`: 3 frames of 5 kinds with at most 3 units of 20 bytes, 2 faults, both codecs, RTPPay or a camera, 256 sequence numbers that begin at the last but one. `Mpegts`: 6 cells, frames of 1 or 2. `Dvrip`: 3 packets of 1 to 3 units in chunks of 1 to 3, 8 marks kept. `Rtmp`: 3 media messages of 0, 1 or 3 bytes in chunks of 1 and 2. `Srtp`: 2 clients of a camera, 1 controller, 2 sessions each, 2 readers | *Node*: who has left gets nothing, who leaves detaches nobody. Three senders make the array grow twice (1, 2, 4) and leave it with a free place. *RtpVideo*: what is handed on was sent whole: for H.265 whatever is lost, for H.264 while nothing is, and then every frame once, in order, with all its slices. Two faults are two gaps, or a packet that is overtaken and one that is lost; the sequence numbers wrap. *Mpegts*: every frame once, in order, from the first, after a probe. Six cells are the tables and two frames that interleave. *Dvrip*: the same for the packets of a track. Three packets are a key frame, sound and what follows, up to 9 units: one more than is kept. *Rtmp*: the reader stays in step and hands on every message. A message of 3 in chunks of 2 or 1 ends with a chunk that is full or is not. *Srtp*: sessions are on an open socket that is read. Two clients are the last Stop of one against the first AddSession of the other. All hold. |
| `cameras` | 2 ids, 2 names, 2 requests and the boot sync, 1 crash | Registry and table stay together: `Registered`, `DeletedStaysDeleted`, `PinsPlay`. One body has a URL whose path is the name of its own stream, one is unsupported; the backup has one of each; one crash is enough because nothing but `rows` and `config` survives it. |
| `cameras_moved` | 1 camera, 2 addresses | *Violated:* a camera's new address is stored, and its stream keeps the old one (§6). |
| `sources` | `Rtsp`: 1 receiver, 1 backchannel, 2 faults, 1 keepalive. `RtspServer`: 2 dials of one URL, 2 clients and the children. `Tuya`: 1 dial with and without a data channel. `RingDial`: 1 dial. `WebrtcClient`: 1 dial of each format. `HomeKit`: 1 controller, 2 connections, 2 sessions, 2 Starts | *Rtsp*: one connection at a time, every track set up before PLAY, a track added while playing is played, calls return. Two faults are a redirect in a Reconnect, a refusal and then a drop, and so on; one keepalive is one foreign answer. *RtspServer*: no stray child, everybody returns, clients that go are taken out. *Tuya*, *RingDial*, *WebrtcClient*: whatever fails, the dial returns and what it opened is closed (`ErrorEnds`); the offer goes before the candidates, one writer at a time (`OfferFirst`). One candidate is enough: the callback with the next one comes after it. *HomeKit*: what plays can be ended and then leaves (`EndsPlay`). Two Starts are two of one session, with two goroutines on one timer, or one of each of two. All hold. |
| `rtsp_restored` | 2 receivers, 2 faults | *Violated:* after a failed Reconnect an earlier receiver is not set up again (§6). |
| `wyoming_stop` | the satellite of `parts` | *Violated:* Stop does not disconnect the stream (§6). |

Two properties are guarded on purpose. `StopSparesAttached` is checked where sources
stay up; with reconnects the window of the first finding below widens. And
`UnitsWhole` asks nothing of H.264 once a packet is lost: RTPDepay does not look at
sequence numbers there, and a unit with a piece missing is handed on (§6). What `Node`
does not promise is that a packet reaches a child once while another leaves: the shift
of the array makes a walk pass over or repeat one, which for media is one glitch.

### Fairness

Go schedules every runnable goroutine, so a goroutine that is inside a call goes
on: weak fairness of the steps inside a call (`Steps`, `ConsumerStep`,
`MoveStep`, `Return`, `Continue`, `Call`, `Loop`, `Handle`, `Serve`, …). Timers fire
(`Expire` of the HLS session, `Timeout` of an exec dial, the Worker), network reads
and HTTP calls end with an error at their deadline (`ReadTimeout`, `HttpEnds`), a
killed child ends, and a connection whose peer is gone gives an error (`Breaks`). Nothing is assumed of the outside: no
consumer has to come or leave, no source has to end or to answer, no statement
has to succeed, nobody has to call Start, WriteTo or Close. One exception: in `Cameras` the process
is started again after a crash, since the container runs with
`--restart unless-stopped` (and the compose file with `restart: unless-stopped`).

Weak fairness is enough for most locks: what waits for a mutex is enabled from
the moment the mutex is free, and the mutex is taken only finitely often by others
(bounded dials, one call per goroutine). Two places are different. The callers of
`RingApi` come again and again, and so do the calls that hold `stateMu` of `Rtsp`
while Start waits to switch: there the step that takes the lock is strongly fair
(`Locks`, `Switch`), because a `sync.Mutex` that was waited for longer than a
millisecond is handed to the waiter. `Tuya`, `RingDial` and `WebrtcClient` run out of
steps, so that one weak fairness for all of their goroutines is the same as one for each.
In `HomeKit` a sender drains its queue once it is closed, and a timer fires when
nothing resets it any more; no controller has to end a session or stay connected.

## 4. Proofs

All proofs are for every value of the constants that satisfies the module's named
assumption, which TLC evaluates on each run: `StreamsAssumption`,
`SenderAssumption`, `NodeAssumption`, `RegistryAssumption`, `CamerasAssumption`,
`RtspServerAssumption`, `WsAssumption` and `HlsAssumption` of `MCParts`, `RtspAssumption` of
`MCSources`, `VideoAssumption`, `SrtpAssumption`, `MpegtsAssumption`, `DvripAssumption` and
`RtmpAssumption` of `MCMedia` (the other parts need none). They say only what the types are, that a
“none” value is not among the real ones, that goroutines and messages are told apart, that a queue has
at least one place, that a packet has room for a byte and that a bound is a number. One says
more: `VideoAssumption` has a run of video end before its packets are as many as the sequence numbers
(65536) and its units as many as RTPDepay of H.264 throws away (5 MB). The first cannot be left out: for
H.265 a gap of exactly 65536 packets looks like none, and a unit would be joined
across it; nor the second, behind which slices are lost on purpose. The frames may be any that have
their slices last, and after them, for H.265, information.

The modules that have no run of their own are proved about where the run puts them
together: `PartsProofs` extends `MCParts`, `SourcesProofs` `MCSources`, `MediaProofs` and
`TrackProofs` `MCMedia`, and `RtmpProofs` `MediaProofs`, for the rewindable reader. The
first lemma of each of their sections (`RingMoves`, `UserMoves`, `RtspMoves`, …) shows that the run
moves the part as the part's own `Init` and `Next` say; the rest of the section is about those,
with no bound of the run in it.

* **`PartsProofs`**, the Waiter — `CounterSafe`, `NoEarlyReturnSafe`, `FinishFinal`. Invariant:
  `WaiterTypeOK`, `CounterInStep`, `NoEarlyReturn`, and that the mutex is held exactly by
  the thread between the steps of Done (`MutexHeld`) and that a blocked thread means
  a started waiter (`BlockedOnStarted`). Without the last two a Done could find the
  counter changed between its steps.
* **`StreamsProofs`** — `TypeCorrect`, `OneWorkerSafe`. Invariant `TypeInv`: types, that
  a goroutine at a place has the locals the place needs (`LocalsSet`), `OneWorker`,
  that no worker has a workerID that is yet to come (`WorkerIds`: why a late
  goroutine never becomes current again), that only a started producer
  reconnects and stays started meanwhile (`MovesStarted`), and that `s.pending`
  is the number of goroutines in the matching loop (`PendingCounts`).
* **`StreamsProofs`**, the connections — `NoGhostSafe`, `LinkImplemented`. `LinkInv` adds that a
  producer's open connections are the one it holds and a younger one that a
  reconnect brings. Every action changes the connections in one of four ways
  (dials, replaces, swaps, drops) or not at all; each is a step of `SourceLink`
  or a stutter, so a stream implements `SourceLink`.
* **`StreamsProofs`**, the readers — `ReadersSeenSafe`. AddTrack makes a sender the child of a
  track that GetTrack found earlier, without a lock: the producer may have been stopped, dialled
  anew or reconnected since. `SeenInv` says of every track that is read, or that somebody
  is about to read (`KnownOK`), that it is in the list of the producer whose connection
  feeds it; of a listed track that it has no other producer's connection, and that a
  reconnect which has replaced it is done with its media (`ListedOK`); of a track that is being
  replaced that it is of the older connection (`MovedOK`). That two producers share no
  connection (`Apart`) follows from `LinkInv`.
* **`StreamsProofs`**, the stops — `StopSparesAttachedSafe`, where sources stay up
  (`SourcesEnd = FALSE`). `s.mu` is held from the first look at the producers to the last
  (`Locked`), so nobody attaches meanwhile; who reads from the producer that was found unread is
  still on its way in (`Spared`). That a receiver which is new to the list has no
  reader yet is `SeenInv` again. A reconnect takes the readers from a track for a moment, in which
  it looks unread: that is why the theorem, like the run, is about sources that stay up.
* **`PartsProofs`**, the WriteBuffer — `CountSafe`, `LockedSafe`, `NothingLostSafe`. The invariant
  ties the three stages together (`Ends`: why WriteTo may have returned; `Switched`:
  what the writer is in each stage; `Offered`: what is written is an initial part
  of what is offered), with lemmas on joining and splitting sequences.
* **`PartsProofs`**, the Sender — `NoPanicSafe`, `InOrderSafe`, `WaitDrained`. The invariant has the
  channel and the field in step (`Channel`), at most one goroutine ever (`Thread`),
  that what is under way was sent (`AllSent`), `InOrder` and `Accounted`.
* **`TrackProofs`**, the Node — `TypeCorrect`, `NoTwinsSafe`, `GoneForGoodSafe`, `SparesOthersSafe`.
  Lemmas about the slice come first: `AddMoves` and `RemoveMoves` show that an append
  or a removal never takes an array away, never changes the length of one, and
  writes only children into it (`Moves`), and what the child list is afterwards.
  The invariant has the types with `NoTwins`, that a walk stays within its array over
  places that hold senders (`WalksWithin`), that one who left is no child and cannot
  be attached again (`Placed`), that none of those who had left when the packet came
  is in the rest of the walk (`Cleared`: the only thing that keeps a stale slice
  header harmless), and that a goroutine that closes the receiver on behalf of a
  sender finds none of those that were attached beside it (`Deserted`).
* **`TrackProofs`**, video over RTP — `UnitsWholeSafe`. RTPDepay sees one packet at a time, and what it
  may do with it depends on all that were sent; so the invariant has a witness, the list `pp` of all
  packets that were sent, which is not in the state. In it the fragments of a unit are all there,
  one behind the other (`Chain`). A Send puts the packets of one frame behind it (`PayloadFacts`, by induction
  over the units of the frame; `ChainConcat`).
  - H.265 (`H265OK`): the j-th of `pp` has the j-th sequence number and there are fewer packets than
    numbers (`NumbersOf`), what is on the wire are some of them in any order (`SomeOf`), and what is in
    `buf` ends with the packet of the last number, behind whole units (`GatheredOf`). A packet with the number
    behind that one can only be the next of `pp`, hence the next fragment of the same unit: losses and
    overtaking need no case of their own.
  - H.264 (`H264OK`) while nothing is lost: the first `r` of `pp` have arrived and the rest is the wire (`WireOK`);
    `fuaBuffer` is what the r-th has begun. `SliceLog` says where the slices end in `pp`: in the order
    of frames and units, every slice of every frame, the last one of a frame with the marker,
    and behind any other marker no slice of that frame; the parameter sets that wait for a later
    frame, or that a camera marks one by one, are what makes this more than a remark about one
    frame. `SlicesOK` is what was made of it: what is
    collected is of one frame and no marked slice has ended since it began (`Holds`), what was handed on is behind
    everything still to come (`Past`), and every slice that ended is in the one or the other. `Counts`
    bounds the units in `buf` by the units that were sent.
  TLC cannot evaluate this invariant, because the list is not in the state; it checks
  `UnitsWhole`.
* **`SourcesProofs`**, the server — `NoStrayChildSafe`, `OneProducerSafe`. That no child process
  runs for nobody is inductive with its types (`ExecTypeOK`). That no connection
  becomes the producer of two dials, although a second dial replaces the channel of
  the first, needs where a connection can be at each place of its handler
  (`HandTypeOK`) and that it is handed over only once and is in one channel or with
  one dial afterwards (`HandedOnce`): together `HandInv`.
* **`SourcesProofs`**, the RTSP client — `OneConnectionSafe`, `PlaysAllTracksSafe`. A call is a list of
  steps, so `RtspInv` is about lists: what they look like (`Shape`: closes, dials
  and describes come first), that a call that adds a track ends with its SETUP (`CallInv`), that what
  dials first has closed (`DialInv`), that each track is set up on the connection or will be by the
  call under way (`SetupInv`), and that the answer which comes next to a SETUP is its own
  (`AnswerInv`: `wire` holds requests of medias only in step with `plan`). The lemmas before it
  say what `Tail`, `Append` and `\o` keep of this; `Reconnects` and `DoFailsStep` are about the steps
  that Reconnect and the second try put in front.
* **`SourcesProofs`**, the WebRTC sources — `OfferFirstSafe`. That two goroutines never write at once
  follows from where each is when it writes (`OneWriter`), and that needs the order of each
  format: the offer fills the promise the candidates wait for (`PromiseKept`), and OpenIPC's dial waits while
  its reader answers (`AnswerPending`).
* **`SourcesProofs`**, the HomeKit camera — `FindableSafe`: the safety half of `EndsPlay`, for any
  controllers and Starts. `HomeKitInv` counts who has put a Consumer into `s.conns` and not yet taken it out:
  goroutines that hold it in the stream (as many as it is there), those that have removed
  it from the stream only, and controllers between AddConn and AddConsumer.
* **`MediaProofs`**, the SRTP server — `ServedSafe`. `SocketServed` is inductive with the types, which
  count the sessions each client has added (`SrtpTypeOK`).
* **`MediaProofs`**, the rewindable reader. `ReaderOK` says that what a ReadBuffer keeps is the last of
  what it took from the network, and `Place` is how much of the stream it has given since it was
  reset. `Reads` is the lemma the two sources below rest on: a Read gives what comes next at its
  place, at least one byte and no more than was asked for, or it fails because more came
  than it keeps; a Reset brings the place back to the first byte that is kept
  (`ReaderReset`).
* **`MediaProofs`**, MPEG-TS — `MpegtsFramesSafe`. `MpegtsInv` has three parts. The encoder: the cells
  of a pid are frames, one after the other (`StreamOK`). The reading: the reader is behind the
  cells that were parsed, and what is in `cell` comes next (`ReadAt`); before Start
  all that was read is still kept, which is why the second demuxer sees the same cells as the
  first. The demuxer: what it handed on of a pid, and what it holds, is what the cells so far carry
  (`InOrder`), and a frame under way is the beginning of one (`PayloadOK`).
* **`MediaProofs`**, DVRIP — with `MpegtsFramesSafe`, `FramesWholeSafe`. `DvripInv`: on the wire every
  chunk has as many units as its header tells and the units of all chunks follow one another
  (`WireOK`); the units in `client.buf` follow the packets that were taken (`HeldAt`), and the
  reader is at a boundary of chunks right behind them, or in the chunk that comes next (`Behind`). So
  the first unit of `client.buf` is always the header of a packet, which is why ReadPacket
  never fails, however packets and chunks are cut.
* **`RtmpProofs`** — `MessagesWholeSafe`. A reader of RTMP cannot see where a chunk begins: it knows
  from the lengths alone. `RtmpInv` says of each side that there are messages `w`, written and not
  yet read, of which the wire is made (`Carries`): each was cut into chunks of the size that is in
  force where it begins, and its header leaves out only what the one before it told. An announced size is
  the first of them or has been read, so reader and writer never disagree in the middle of a message.
  The first `b` of the messages are commands (`Order`), in step with the client's program and
  the server's place, and behind the last command there is only media; so neither side takes a command for media
  or waits for what will not come. `k` media messages were read, and the rest of `w` are the others
  (`MediaOf`). `FlvAt` is the second half: the bytes that Conn.Read gives flv.Producer are those of the
  `k` tags, and what has been handed on, with what is in `got`, is what the reader's place says, through the
  probe, its Reset and any Read of any size. The lemmas before it are about the arithmetic of
  chunks: where the n-th byte of a message is on the wire (`At`), that a chunk that is full and
  one that is not end where the next header is, with or without an extended time.
* **`CamerasProofs`** — `TypeCorrect`, `OnlyValidatedSafe`, `RegisteredSafe`,
  `DeletedStays`. The lemmas on the registry (`Create…`, `SetSource…`, `Patch…`,
  `Delete…`, `Load…`) say what each operation keeps; that a new name always finds an
  unused stream object is a pigeonhole argument over the names (`FreshObject`).
  The invariant adds to the checked properties that a handler has the locals its
  place needs (`JobsSet`), that the file holds supported sources only
  (`SavedValid`: why a restart keeps `OnlyValidated`), that nothing runs while the
  process is down (`DownIdle`), that a PUT that is about to write has registered
  its stream (`WritesKept`), and a stronger form of `Pending`: who is still to
  register a camera has the row as it is now, or is yet to read it (`Awaits`).

* **`PartsProofs`**, `RingApi` — `RetryRenewedSafe`. A caller keeps in `unchanged` what nobody
  has made anew since its refused try. The invariant (`RingInv`, `Dropped`) says that
  what is in there is gone from the client, until somebody makes another, and where the caller is
  when it may still be there: on its way to drop it. That is why a try cannot go out with
  the old one, although any other caller may drop or make both at any step.
* **`PartsProofs`**, `Sessions` — `LoggedOutSafe`. Every step either takes a token that was
  never given out, or leaves a token that has no session without one (`UserSteps`).
* **`PartsProofs`**, `Wyoming` — `WakeKeptSafe`, `NothingLeftSafe`. `WyomingInv` adds to the two
  that chunks come only to a microphone that is set and to a satellite that is not
  closed, and that a closed one has no service: nothing sets a state after "closed".
* **`PartsProofs`**, `Ws` — `SignallingSafe`, both halves of it. That our candidates follow the
  answer needs that a message is handed to its handler once (`HandedOnce`), that either Done of `sendAnswer` comes only
  when the answer was written to a browser that listens or never will be (`AnswerFlow`), and that
  until then the callbacks wait (`CallbacksWait`). That the browser's candidates are given once and in
  order is about the list `given \o waiting` (`CandidatesInv`), which must have as many elements as the
  set of the candidates that were read: `ElementsFinite` and `ElementsAppend`.
* **`PartsProofs`**, `Hls` — `SegmentsWholeSafe`. What was handed out and what is in the buffer
  are all the frames (`InOrderWhole`), and a segment of MPEG-TS that follows another
  begins with the init data (`InitFirst`). The lemmas of **`ListProofs`** say what joining a list of
  lists gives when one more is appended, for lists of any length, by induction: the community module's
  `FlattenSeq` is a recursive function, so that lemma shows first that there is such a
  function and only one.

In each section the layout is the same: the initial states, a step lemma with one case per
action, and a theorem that joins them with PTL.

`CounterSafe` and `FinishFinal` of the Waiter, `CountSafe` and `LockedSafe` of the
WriteBuffer, `InOrderSafe` of the Sender, `OnlyValidatedSafe` of the cameras,
`NoGhostSafe`, `NoTwinsSafe` and `OneProducerSafe` are proved and not
listed in a run: the runs keep what goes beyond them.

Only model-checked: liveness under fairness and anything with ENABLED, which the
prover does not support. Every invariant that a passing run checks is proved, and every action property;
what is left (`FinishReleases`, `FailReleases`, `ViewersGone`, `RequestsReturn`, `PlayedGone`, `Announced`,
`LastOneOut`, `AddReturns`, `PinsPlay`, `PlaysAgain`, `AllReturn`, `ClientsGone`, `ErrorEnds`, and that
a stopped session leaves in `EndsPlay`) says that something happens at last. The library's
induction theorems take an operator, which no installed prover can instantiate; `ListProofs` therefore has induction over a set of
numbers instead, from the theorem that a well-founded relation has minimal elements
(`WFMin`), which takes none. What is built from `SelectSeq` stays out of reach, because
the prover does not expand its definition.

## 5. What is not modelled, and why

* Codecs, containers other than MPEG-TS and FLV, message fields, cryptography, command
  lines: conversions of data on one goroutine, and the larger part of the code by
  lines. Their own tests reach them better.
* Vendor clients and protocol servers other than RTSP, RTMP, WebRTC, HomeKit, Ring, Tuya
  and Wyoming: each is one connection; to a stream they are a source that is dialled, plays and ends,
  or a consumer that comes and leaves.
* RTSP over UDP; the pipe of an exec source (`handlePipe`) and its backchannel; HLS
  playlists; the peer connection itself, which is pion's; preload and publish, which
  call AddConsumer and a client and keep one map entry.
* HTTP routing, logging, the web pages: no state of their own.
* Torn reads of a slice header, and packets given to a handler while it is being
  replaced.

## 6. Disagreements between code and docs

1. **A producer is stopped with a reader** (`streams_stop_unread`,
   `internal/streams/stream.go:98`). The comment says “stop producers if they don't
   have readers”. `s.pending` is read once, before `s.mu` is taken, and the readers
   before `producer.stop()`: a consumer that enters AddConsumer in between attaches
   to a producer that is then stopped, and gets nothing although AddConsumer
   succeeded.
2. **A producer that nobody reads is not stopped** (`streams_talk_leak`,
   `internal/streams/producer.go:226`). `p.senders` keeps the backchannel of a consumer
   that has left; reconnect hands it to the new connection, where it counts as a
   reader for ever.
3. **A push ends the process** (`streams_pushed`, `internal/streams/add_consumer.go:31`).
   The API offers to “Send stream from source to destination” and to “Post stream in
   FLV format” (`openapi.yaml`) for any stream at any time. AddConsumer makes a list
   of errors as long as `s.producers`, and then ranges over `s.producers` anew for
   every media: a producer that is added meanwhile has an index outside the list.
4. **A camera's new address is not used** (`cameras_moved`,
   `internal/streams/streams.go:78`). The form says the stream is updated; `Patch`
   takes an rtsp URL whose path is a stream's name for a link to that stream,
   which may be the camera's own.
5. **A receiver is not restored** (`rtsp_restored`, `pkg/rtsp/producer.go:26`). Reconnect
   says “restore previous medias”, and is called when the state is PLAY. One that
   fails half way leaves the state CONN: the next GetTrack sets up its own media
   only, and the earlier consumers get nothing, without an error.
6. **Stop leaves the microphone in the stream** (`wyoming_stop`,
   `internal/wyoming/wyoming.go:52`). The documentation says “stop and disconnect
   stream”. The MicHandler wants a consumer with a method OnClose; micConsumer has a
   field of that name, which nobody sets.

Smaller ones met on the way, not runs:

* *Cameras.* Two changes of one camera may reach the registry and the table in
  different orders, and the stream then plays the other URL until a restart; an
  import with one unsupported camera is answered with an error although it is
  stored; a camera whose compensating delete fails stays without a stream.
* *Users.* The name is changed before the password, so an error may be reported for a
  change that was half made; other sessions keep the old name; two PUTs may mix.
* *Streams.* `MoveNode` is not atomic against a closing child, which then stays in
  the new track's list. `RemoveProducer` shifts the array under a range. When a
  viewer leaves, the internal producer of a Play that nobody else reads is stopped
  and its entry stays in the list. The source Play has dialled stays open when no
  consumer matches (`play.go:108`). AddPreload that fails after it has removed the
  old consumer keeps the old entry (`preload.go:39`). Publish tries again once
  (`publish.go:21`).
* *WriteBuffer.* A Close before WriteTo is forgotten (`writebuffer.go:54`), although
  WriteTo is said to be locked “until Write fails or Close will be called”; callers
  such as `mp4/ws.go:36-40` start the two in either order.
* *RTSP.* `playOK` is set by any answer and is not reset by Reconnect
  (`conn.go:212`). A second DESCRIBE, or an ANNOUNCE after one, replaces the closer of
  the first (`rtsp.go:224`, `:250`). A connection that reaches an exec waiter's channel
  when the timeout is already taken is closed by nobody (`exec.go:192`).
* *HLS.* The first MPEG-TS segment has no init data, later ones may have nothing else
  (`session.go:58`, `:118`); the buffer handed out is appended to again and is safe
  only as long as its capacity is used up.
* *WebSocket.* Loop and handlers share one `err` (`ws.go:123`, `:135`): a handler may
  report an error that is nil by then. A failing GetAnswer leaves the WebRTC consumer
  in the stream (`webrtc.go:198`).
* *Wyoming.* A detection that was not used is used after the next wake-up; HandleMic
  does not notice a client that has gone; the buffer of a sound is reused while it
  is played.
* *Ring.* The token is read again without its mutex after it was found valid, and
  another caller's 401 may have set it to nil (`api.go:425`, `:463`; the model ends the
  caller there, `panic`). A retry sends the body again that the first try has read
  (`:435`), and a 404 keeps the old header.
* *Ring's dial.* An error of the WebSocket between `ws.go:132` and `client.go:119` is
  heard by nobody; the offer may still seem to be written, and Dial then waits for
  ever with the producer's mutex (`client.go:218`). `closed` and the channel are tested
  and set without a mutex: two Stops at a time end the process (`client.go:336`,
  `ws.go:142`). A Stop before `client.go:168` leaves the peer connection open. The
  message "close" is never sent, since Close closes the channel first, and
  sendSessionMessage then returns (`ws.go:152`, `:214`).
* *WebRTC sources.* Only go2rtcClient closes the peer connection when the dial fails;
  the others leave it open (`kinesis.go:193`, `openipc.go:145`, `client.go:204`). An
  answer that Kinesis' reader cannot use breaks from the switch and not from the loop,
  so the dial waits for the end of the socket (`kinesis.go:169`, `:173`).
* *Nest.* A refused token is “refreshed” with the one in the cache; cameras of one
  account overwrite each other's API; the timer that extends a stream runs once.
* *Tuya.* A failing Init leaves MQTT connected (`client.go:99`); a camera that answers
  nothing keeps Dial, and with it the producer's mutex, waiting for ever (`:326`);
  the candidate handler tests an error that AddCandidate was not assigned to
  (`:193`).
* *Video over RTP.* H.264 hands on a unit with a piece missing or out of order. A frame
  of H.265 that ends with a small SEI unit is not handed on, since the packet with the
  marker is dropped, and the next frame then begins behind a gap in the numbers
  (`h265/rtp.go:34`). Aggregated units of H.265 may be two bytes longer than the packet
  allows (`h265/payloader.go:222`, `:167`), and RTPDepay does not take them apart.
* *MPEG-TS.* A stream that is joined in the middle of a frame begins with its rest.
* *RTMP.* A chunk size that is announced after play or publish is not obeyed: Read hands
  the message on as a tag. A header of type 3 that begins a message does not add its
  time (`conn.go:109`), and our own times above 24 bits are cut (`conn.go:222`). Tags that
  are queued before WriteTo reach Conn.Write together and become one message with the
  time and kind of the first (`flv.go:89`). A connection whose stream does not exist is
  never closed (`rtmp.go:80`).
* *HomeKit.* A controller that goes to sleep without an End leaves its consumer in the
  stream while the source lives, since writing UDP does not fail and every packet
  resets the timer (`consumer.go:147`); so does an End that misses its session while
  `s.conns` moves (`server.go:290`). The sessions a controller has added to the SRTP
  server are never deleted. Consumer.Stop closes the controller's connection before the
  End is answered (`consumer.go:55`). A Consumer that cannot be added stays in `s.conns`
  (`server.go:313`).
* *SRTP.* When ListenPacket fails, `s.conn` and the sessions' conn are nil, and the next
  reader or writer ends the process (`pkg/srtp/server.go:44`). A reader that was busy
  when its socket was closed goes on with the next one, beside that one's own. A Stop
  between ExchangeEndpoints and AddSession deletes what is then added for good
  (`producer.go:170`).
* *DVRIP.* A camera whose tracks are not found, or that sends more than is kept before they
  are, leaves its TCP connection open: Dial returns without closing it
  (`pkg/dvrip/dvrip.go:22`). The end of a packet that is shorter than 16 bytes waits for
  the next one (`client.go:180`).
* *MP4.* AddTrack appends to `muxer.dts` without the mutex under which the senders of
  earlier tracks write there.
* *Tracker.* A second Serve loop may run beside the first for good, and stops the
  other's Worker; the map of shares in `internal/webtorrent/init.go` is not
  protected, and two POSTs for one source leave a share nobody can remove. Do and
  Stop of a Worker are lost while its function runs (`worker.go:40`, `:48`).

## 7. Plan

Done, in the order of importance to a viewer: Waiter, Streams with SourceLink,
WriteBuffer, Sender, Node, Registry with Cameras; then the RTSP client and server
with exec, HLS, the WebSocket with WebRTC's signalling, the list of producers, the
sessions of the map, and, of the clients of one vendor, those whose goroutines
share state: Ring, Wyoming, Tuya, the WebRTC sources and the WebTorrent tracker; then the way of the media
through RTP, MPEG-TS, DVRIP and RTMP, with the rewindable reader; HomeKit as a camera and the
SRTP server.

Next modules: `Preload` with publish (the map of preloads against the stream's
consumers); `Config`, the two writers of the configuration file; HomeKit's pairings and proxy; fragments of MP4.

Next proofs: `UnitsWhole` of H.264 with a limit of units within a frame instead of a run; of the
properties that are only model-checked, all ask that something happens at last, and their
inductive parts (which counts balance, who waits for whom) can be stated as `Findable` is.
