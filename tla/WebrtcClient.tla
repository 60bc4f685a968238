---------------------------- MODULE WebrtcClient ----------------------------
(***************************************************************************)
(* The WebRTC sources (internal/webrtc): one dial that negotiates a peer   *)
(* connection with another go2rtc, with Kinesis (Wyze and SwitchBot too)   *)
(* or with OpenIPC over a WebSocket, or by one exchange over HTTP (WHEP,   *)
(* Creality, Milestone).  Over a WebSocket three goroutines use the        *)
(* connection: the dial, a reader, and the callback with candidates.       *)
(*                                                                         *)
(* The descriptions themselves, Wyze's first request, Milestone's token    *)
(* and SwitchBot's options are left out.  Gathering ends, and HTTP in its  *)
(* timeout.  OpenIPC's camera makes one offer, and is connected only some  *)
(* round trips after the answer was written.  One candidate is found.      *)
(***************************************************************************)
EXTENDS Integers, FiniteSets

CONSTANTS
  Dialer, Reader, Ice      (* the goroutines                               *)

VARIABLES
  format,    (* who is dialled                                             *)
  dial,      (* where the dial is                                          *)
  ws,        (* the WebSocket                                              *)
  pc,        (* the peer connection                                        *)
  described, (* our offer, or our answer, was written                      *)
  accepted,  (* the description of the other side is set                   *)
  promise,   (* the waiter sendOffer or sendAnswer is done                 *)
  connState, (* the waiter connState: open, or what Done gave it           *)
  reader,    (* where the reader is                                        *)
  ice,       (* where the callback is                                      *)
  writing    (* the goroutines that are in WriteJSON                       *)

client == <<format, dial, ws, pc, described, accepted, promise, connState, reader, ice, writing>>

Init ==
  /\ format \in {"go2rtc", "kinesis", "openipc", "http"}
  /\ dial = "ws" /\ ws = "none" /\ pc = "none"
  /\ described = FALSE /\ accepted = FALSE /\ promise = FALSE /\ connState = "open"
  /\ reader = "none" /\ ice = "none" /\ writing = {}

Socket == format # "http"
PcOpen == pc \in {"new", "connected"}
Returned == dial \in {"failed", "dialled"}

(* connMu of go2rtcClient; the others write without a mutex. *)
MayWrite == format = "go2rtc" => writing = {}

(* Waiter.Done: only the first counts. *)
Done(v) == connState' = IF connState = "open" THEN v ELSE connState

(* return: the deferred calls run, those over a WebSocket one by one.      *)
(* Only go2rtcClient closes the peer connection with an error.             *)
Leave(result) ==
  /\ dial' = IF ~ Socket THEN result ELSE IF result = "failed" THEN "failing" ELSE "leaving"
  /\ pc' = IF format = "go2rtc" /\ result = "failed" /\ PcOpen THEN "closed" ELSE pc
Leaving == dial \in {"failing", "leaving"}
-----------------------------------------------------------------------------
(* Dial of the WebSocket; HTTP needs none. *)
Dial ==
  /\ dial = "ws"
  /\ \/ dial' = "pc" /\ ws' = IF Socket THEN "up" ELSE ws
     \/ Socket /\ dial' = "failed" /\ UNCHANGED ws
  /\ UNCHANGED <<format, pc, described, accepted, promise, connState, reader, ice, writing>>

(* NewConn and Listen; OpenIPC waits for an offer then, and reads. *)
PeerConnection ==
  /\ dial = "pc" /\ pc' = "new"
  /\ dial' = IF format = "openipc" THEN "wait" ELSE "create"
  /\ reader' = IF format = "openipc" THEN "read" ELSE reader
  /\ UNCHANGED <<format, ws, described, accepted, promise, connState, ice, writing>>

(* CreateOffer sets candidates going.  Milestone makes the offer itself.   *)
CreateOffer ==
  /\ dial = "create" /\ PcOpen /\ dial' = "offer"
  /\ ice' = IF Socket THEN "gathers" ELSE ice
  /\ UNCHANGED <<format, ws, pc, described, accepted, promise, connState, reader, writing>>

(* Over HTTP the offer is the body of the request. *)
WriteOffer ==
  /\ dial = "offer" /\ MayWrite /\ dial' = "sent"
  /\ writing' = IF Socket THEN writing \cup {Dialer} ELSE writing
  /\ UNCHANGED <<format, ws, pc, described, accepted, promise, connState, reader, ice>>

(* sendOffer.Done(nil); Kinesis has its reader from here on. *)
SendOffer ==
  /\ dial = "sent" /\ ws \in {"none", "up", "broken"}
  /\ described' = TRUE /\ writing' = writing \ {Dialer}
  /\ IF format = "kinesis"
     THEN dial' = "wait" /\ promise' = TRUE /\ reader' = "read"
     ELSE dial' = "answer" /\ UNCHANGED <<promise, reader>>
  /\ UNCHANGED <<format, ws, pc, accepted, connState, ice>>

(* ReadJSON and SetAnswer, by the dial itself *)
Answer ==
  /\ dial = "answer" /\ ws \in {"none", "up"} /\ PcOpen /\ accepted' = TRUE
  /\ IF Socket
     THEN dial' = "wait" /\ reader' = "read" /\ UNCHANGED pc
     ELSE Leave("dialled") /\ UNCHANGED reader
  /\ UNCHANGED <<format, ws, described, promise, connState, ice, writing>>

(* go2rtcClient does not look whether its offer was written. *)
StepFails ==
  /\ \/ dial \in {"pc", "create"}
     \/ dial = "sent" /\ format = "kinesis" /\ ws = "broken"
     \/ dial = "answer" /\ ws # "up"
  /\ Leave("failed") /\ writing' = writing \ {Dialer}
  /\ UNCHANGED <<format, ws, described, accepted, promise, connState, reader, ice>>

(* Another type of message, or an answer that cannot be used *)
AnswerFails ==
  /\ dial = "answer" /\ ws = "up" /\ Leave("failed")
  /\ UNCHANGED <<format, ws, described, accepted, promise, connState, reader, ice, writing>>

Wait ==
  /\ dial = "wait" /\ connState # "open"
  /\ Leave(IF connState = "error" THEN "failed" ELSE "dialled")
  /\ UNCHANGED <<format, ws, described, accepted, promise, connState, reader, ice, writing>>

(* defer sendOffer.Done(nil) comes before defer conn.Close(). *)
DonePromise ==
  /\ Leaving /\ ~ promise /\ promise' = TRUE
  /\ UNCHANGED <<format, dial, ws, pc, described, accepted, connState, reader, ice, writing>>

CloseWs ==
  /\ Leaving /\ promise /\ ws' = "closed"
  /\ dial' = IF dial = "failing" THEN "failed" ELSE "dialled"
  /\ UNCHANGED <<format, pc, described, accepted, promise, connState, reader, ice, writing>>
-----------------------------------------------------------------------------
(* The reader *)
Gives == reader = "read" /\ ws = "up"

(* Kinesis: SetAnswer *)
ReadAnswer ==
  /\ format = "kinesis" /\ Gives /\ ~ accepted /\ PcOpen /\ accepted' = TRUE
  /\ UNCHANGED <<format, dial, ws, pc, described, promise, connState, reader, ice, writing>>

(* OpenIPC: SetOffer and GetAnswer, which sets candidates going *)
ReadOffer ==
  /\ format = "openipc" /\ Gives /\ ~ accepted /\ PcOpen /\ accepted' = TRUE
  /\ reader' = "write" /\ ice' = "gathers" /\ writing' = writing \cup {Reader}
  /\ UNCHANGED <<format, dial, ws, pc, described, promise, connState>>

(* sendAnswer.Done(nil) *)
SendAnswer ==
  /\ reader = "write" /\ writing' = writing \ {Reader}
  /\ \/ ws \in {"up", "broken"} /\ reader' = "read" /\ described' = TRUE /\ promise' = TRUE
        /\ UNCHANGED connState
     \/ ws # "up" /\ reader' = "end" /\ Done("error") /\ UNCHANGED <<described, promise>>
  /\ UNCHANGED <<format, dial, ws, pc, accepted, ice>>

(* A message that cannot be used ends the loop of OpenIPC; that of Kinesis *)
(* breaks from its switch only, and go2rtcClient does not look.            *)
MessageFails ==
  /\ format = "openipc" /\ Gives /\ reader' = "end" /\ Done("error")
  /\ UNCHANGED <<format, dial, ws, pc, described, accepted, promise, ice, writing>>

ReadFails ==
  /\ reader = "read" /\ ws # "up" /\ reader' = "end" /\ Done("error")
  /\ UNCHANGED <<format, dial, ws, pc, described, accepted, promise, ice, writing>>

Break ==
  /\ ws = "up" /\ ws' = "broken"
  /\ UNCHANGED <<format, dial, pc, described, accepted, promise, connState, reader, ice, writing>>
-----------------------------------------------------------------------------
(* The callbacks *)
PcConnected ==
  /\ accepted /\ described /\ pc = "new" /\ pc' = "connected"
  /\ Done("nil")
  /\ UNCHANGED <<format, dial, ws, described, accepted, promise, reader, ice, writing>>

(* Conn closes a connection that has failed or was disconnected. *)
PcFails ==
  /\ accepted /\ described /\ PcOpen /\ pc' = "closed" /\ Done("error")
  /\ UNCHANGED <<format, dial, ws, described, accepted, promise, reader, ice, writing>>

(* Mutant of Candidate: nobody waits. *)
CandidateAtOnce ==
  /\ ice = "gathers" /\ PcOpen /\ ice' = "ready"
  /\ UNCHANGED <<format, dial, ws, pc, described, accepted, promise, connState, reader, writing>>

(* go2rtcClient sends candidates at once, the others wait. *)
Candidate ==
  /\ ice = "gathers" /\ PcOpen /\ ice' = IF format = "go2rtc" THEN "ready" ELSE "wait"
  /\ UNCHANGED <<format, dial, ws, pc, described, accepted, promise, connState, reader, writing>>

WriteCandidate ==
  /\ \/ ice = "wait" /\ promise
     \/ ice = "ready" /\ MayWrite
  /\ ice' = "write" /\ writing' = writing \cup {Ice}
  /\ UNCHANGED <<format, dial, ws, pc, described, accepted, promise, connState, reader>>

SendCandidate ==
  /\ ice = "write" /\ ice' = "end" /\ writing' = writing \ {Ice}
  /\ \/ ws \in {"up", "broken"} /\ UNCHANGED connState
     \/ ws # "up" /\ IF format = "go2rtc" THEN UNCHANGED connState ELSE Done("error")
  /\ UNCHANGED <<format, dial, ws, pc, described, accepted, promise, reader>>
-----------------------------------------------------------------------------
DialSteps ==
  \/ Dial \/ PeerConnection \/ CreateOffer \/ WriteOffer \/ SendOffer \/ StepFails \/ Wait
  \/ DonePromise \/ CloseWs
Runs == SendAnswer \/ ReadFails \/ WriteCandidate \/ SendCandidate

Next ==
  \/ DialSteps \/ Runs
  \/ Answer \/ AnswerFails \/ ReadAnswer \/ ReadOffer \/ MessageFails \/ Break
  \/ PcConnected \/ PcFails \/ Candidate

(* "protect from sending ICE candidate before Offer": two goroutines never *)
(* write to the socket at a time, which panics, and no candidate is sent   *)
(* before our description to those who need it first, unless the dial is   *)
(* over without one.                                                       *)
OfferFirst ==
  /\ Cardinality(writing) <= 1
  /\ format # "go2rtc" /\ ice = "write" => described \/ Leaving \/ Returned

(* "waiter will wait PC error or WS error or nil (connection OK)": when    *)
(* the socket breaks or something fails, wherever everybody is, the dial   *)
(* returns, the socket is closed and no candidate waits; that to another   *)
(* go2rtc leaves no peer connection open.                                  *)
DialEnds ==
  []<>(\/ dial # "failed" /\ connState # "error" /\ ws # "broken"
       \/ /\ Returned /\ ws \in {"none", "closed"} /\ ice \notin {"wait", "write"}
          /\ format = "go2rtc" /\ dial = "failed" => ~ PcOpen)
=============================================================================
