------------------------------- MODULE MCParts -------------------------------
(* Small instances, for TLC, of ten parts that share no state: the         *)
(* core.Waiter, the core.Sender, the core.WriteBuffer, a session of the    *)
(* HLS server, a WebSocket of the API, a client of the Wyoming satellite,  *)
(* the REST client of Ring, the list of producers of a stream, the         *)
(* sessions of the CCTV map and the shares of a WebTorrent tracker.  The   *)
(* variable part chooses one at the start, and only that one moves: the    *)
(* run explores each from its own initial states, side by side.            *)
EXTENDS Waiter, Sender, WriteBuffer, FiniteSets

CONSTANTS
  Requests, MaxFrames,
  Players, Remote, Local, Offer, Sent, Defer, Nil, Nobody,
  Jobs,
  Callers, MaxRetries,
  Configured, Publishers, Plays, Viewers, Medias,
  Names, Passwords, AdminUsername, AdminPassword, Tokens, Tabs, None,
  Shares, Loops, NoLoop, MaxDrops

(* Messages, goroutines and what is written to a client are told apart.    *)
ASSUME WsAssumption ==
  /\ Offer \notin Players \cup Remote /\ Players \cap Remote = {}
  /\ Sent # Defer /\ {Sent, Defer} \cap Local = {}
  /\ Local \cap {"type", "answer", "error"} = {}

(* A bound is a number. *)
ASSUME HlsAssumption == MaxFrames \in Nat

VARIABLES
  part,
  format, handler, session, consumer, run, alive, expired, header, buffer, frames,
  segments, request,
  gone, sReader, next, sErr, at, result, consumers, sClosed, onClose, waiting, conn,
  given, wire, local, crash, aState, aWg, aErr, aMu, aPc, aVal,
  client, micState, mic, listed, feed, wake, heard, jobs, handling,
  token, tokenFresh, rSession, rSessionFresh, authMutex, sessionMutex, rAt, attempt, refused,
  unchanged, rPanic,
  array, len, old, cut, src, dst, played, viewer, errs, media, n, pos, reads, pending, paniced,
  row, name, used, over, uAt, body, cookie,
  shares, spent, announce, loop, ws, announcer, told, lost

(* What configurations may run on events: a new script, one that answers   *)
(* the wake word, one that goes back to listening.                         *)
Scripts == {<<"Stop">>, <<"PlayAudio", "Stream">>, <<"Pause", "Detect">>}

H == INSTANCE Hls
S == INSTANCE Ws WITH reader <- sReader, err <- sErr, closed <- sClosed
Y == INSTANCE Wyoming
A == INSTANCE RingApi WITH session <- rSession, sessionFresh <- rSessionFresh, at <- rAt,
                           panic <- rPanic
P == INSTANCE Producers WITH listed <- played
T == INSTANCE Tracker WITH worker <- announcer, sent <- told, drops <- lost
U == INSTANCE Sessions WITH expired <- over, at <- uAt

hlsVars == <<format, handler, session, consumer, run, alive, expired, header, buffer, frames,
             segments, request>>
wsVars == <<gone, sReader, next, sErr, at, result, consumers, sClosed, onClose, waiting, conn,
            given, wire, local, crash, aState, aWg, aErr, aMu, aPc, aVal>>
wyomingVars == <<client, micState, mic, listed, feed, wake, heard, jobs, handling>>
ringVars == <<token, tokenFresh, rSession, rSessionFresh, authMutex, sessionMutex, rAt, attempt,
              refused, unchanged, rPanic>>
listVars == <<array, len, old, cut, src, dst, played, viewer, errs, media, n, pos, reads,
              pending, paniced>>
userVars == <<row, name, used, over, uAt, body, cookie>>
trackerVars == <<shares, spent, announce, loop, ws, announcer, told, lost>>

coreVars == <<waiterVars, senderVars, bufferVars>>
vars == <<part, coreVars, hlsVars, wsVars, wyomingVars, ringVars, listVars, userVars, trackerVars>>

PartsInit ==
  /\ part \in {"waiter", "sender", "buffer", "hls", "ws", "wyoming", "ring", "list",
             "users", "tracker"}
  /\ WaiterInit /\ SenderInit /\ BufferInit /\ H!Init /\ S!Init /\ Y!Init /\ A!Init /\ P!Init
  /\ U!Init /\ T!Init
  /\ closable => part = "buffer"
  /\ format = "ts" => part = "hls"

Core == part \in {"waiter", "sender", "buffer"}

PartsNext ==
  /\ UNCHANGED part
  /\ \/ part = "waiter" /\ WaiterNext /\ UNCHANGED <<senderVars, bufferVars>>
     \/ part = "sender" /\ SenderNext /\ UNCHANGED <<waiterVars, bufferVars>>
     \/ part = "buffer" /\ BufferNext /\ UNCHANGED <<waiterVars, senderVars>>
     \/ ~ Core /\ UNCHANGED coreVars
  /\ \/ part = "hls" /\ H!Next
     \/ part # "hls" /\ UNCHANGED hlsVars
  /\ \/ part = "ws" /\ S!Next
     \/ part # "ws" /\ UNCHANGED wsVars
  /\ \/ part = "wyoming" /\ Y!Next
     \/ part # "wyoming" /\ UNCHANGED wyomingVars
  /\ \/ part = "ring" /\ A!Next
     \/ part # "ring" /\ UNCHANGED ringVars
  /\ \/ part = "list" /\ P!Next
     \/ part # "list" /\ UNCHANGED listVars
  /\ \/ part = "users" /\ U!Next
     \/ part # "users" /\ UNCHANGED userVars
  /\ \/ part = "tracker" /\ T!Next
     \/ part # "tracker" /\ UNCHANGED trackerVars

(* The fairness of each part, while it is the one that moves. *)
PartsSpec ==
  /\ PartsInit /\ [][PartsNext]_vars
  /\ \A t \in Threads : WF_waiterVars(part = "waiter" /\ Steps(t))
  /\ WF_bufferVars(part = "buffer" /\ Return)
  /\ WF_hlsVars(part = "hls" /\ H!Start)
  /\ WF_hlsVars(part = "hls" /\ H!Expire)
  /\ WF_hlsVars(part = "hls" /\ H!RemoveConsumer)
  /\ \A r \in Requests : WF_hlsVars(part = "hls" /\ H!Answer(r))
  /\ WF_wsVars(part = "ws" /\ ~crash /\ S!Loop)
  /\ WF_wsVars(part = "ws" /\ ~crash /\ S!Handle)
  /\ \A l \in Local : WF_wsVars(part = "ws" /\ ~crash /\ S!Callback(l))
  /\ \A c \in Callers : /\ WF_ringVars(part = "ring" /\ A!HttpEnds(c))
                        /\ SF_ringVars(part = "ring" /\ A!Locks(c))
  /\ \A p \in Plays : /\ WF_listVars(part = "list" /\ ~ paniced /\ P!Returns(p))
                      /\ WF_listVars(part = "list" /\ ~ paniced /\ P!Ends(p))
  /\ \A l \in Loops : /\ WF_trackerVars(part = "tracker" /\ T!Serve(l))
                      /\ WF_trackerVars(part = "tracker" /\ T!Announces(l))
-----------------------------------------------------------------------------
(* Hls: segments are whole and follow each other.                          *)
SegmentsWhole == H!SegmentsWhole

(* Ws: the answer comes before our candidates, and the browser's are kept. *)
Signalling == S!Signalling

(* A viewer that has gone leaves nothing.  Hls: a session ends when no     *)
(* segment is asked for.  Ws: a connection's consumers go with it.         *)
ViewersGone == H!SessionEnds /\ S!ConsumersGone

(* Wyoming: a chunk always finds the wake word service it is for; nothing  *)
(* is opened again for a client that has gone; Stop disconnects.           *)
WakeKept == Y!WakeKept
NothingLeft == Y!NothingLeft
StopDisconnects == Y!StopDisconnects

(* RingApi: a retry is sent with what was renewed; requests return.        *)
RetryRenewed == A!RetryRenewed
RequestsReturn == A!RequestsReturn

(* Producers: nothing of a Play is left; a source may be pushed at any     *)
(* time.                                                                   *)
PlayedGone == P!PlayedGone
PushedSafely == P!PushedSafely

(* Sessions: a session that is over stays over.                            *)
LoggedOut == U!LoggedOut

(* Tracker: a share is announced on an open connection, again and again.   *)
Announced == T!Announced
=============================================================================
