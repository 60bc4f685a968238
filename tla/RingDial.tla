------------------------------ MODULE RingDial ------------------------------
(***************************************************************************)
(* The dial of a Ring camera (pkg/ring/client.go, ws.go): a peer           *)
(* connection is negotiated over a WebSocket.  The message loop of the     *)
(* WebSocket starts before its callbacks are set; the loop, the peer       *)
(* connection and the dial may all stop the client, without a mutex.       *)
(*                                                                         *)
(* The REST client is RingApi.  The ping loop sends and ends without a     *)
(* word when it cannot, and is left out, as are the formats of messages.   *)
(* A broken socket fails every read; a write may still seem to succeed.    *)
(* The loop and the peer connection report one failure each: later ones    *)
(* find the client closed.  One candidate is found.                        *)
(***************************************************************************)
CONSTANTS
  Dialer, Listener, Pc, Ice, Producer      (* the goroutines                   *)

VARIABLES
  dial,      (* where Dial is                                              *)
  handlers,  (* onMessage, onError and onClose are set                     *)
  session,   (* WSClient.sessionID is known                                *)
  answered,  (* the answer was set                                         *)
  closed,    (* Client.closed                                              *)
  connected, (* the waiter Client.connected: open, or what Done gave it    *)
  sendOffer, (* the waiter sendOffer is done                               *)
  ws,        (* the WebSocket                                              *)
  wsClosed,  (* the channel WSClient.closed is closed                      *)
  pc,        (* the peer connection; "left" is open, and Stop went by      *)
  at,        (* where each goroutine is in its failure                     *)
  panic      (* a closed channel was closed                                *)

ring == <<dial, handlers, session, answered, closed, connected, sendOffer, ws, wsClosed, pc, at,
          panic>>

Goroutines == {Dialer, Listener, Pc, Ice, Producer}

Init ==
  /\ dial = "api" /\ handlers = FALSE /\ session = FALSE /\ answered = FALSE
  /\ closed = FALSE /\ connected = "open" /\ sendOffer = FALSE
  /\ ws = "none" /\ wsClosed = FALSE /\ pc = "none"
  /\ at = [t \in Goroutines |-> "idle"] /\ panic = FALSE

Goto(t, from, to) == at[t] = from /\ at' = [at EXCEPT ![t] = to]
Returned == dial \in {"refused", "failed", "dialled"}
PcOpen == pc \in {"new", "connected"}

(* client.prod is assigned after the callbacks are set. *)
ProdSet == dial \notin {"api", "make", "listen"}

(* Waiter.Done: only the first counts. *)
Done(v) == connected' = IF connected = "open" THEN v ELSE connected
-----------------------------------------------------------------------------
(* Client.Stop, with WSClient.Close.  Those who must wake the dial call    *)
(* Done behind it.  The message "close" is not sent: sendSessionMessage    *)
(* does nothing once the channel is closed.                                *)
TestClosed(t) == Goto(t, "test", IF closed THEN "done" ELSE "set")
SetClosed(t) == Goto(t, "set", "prod") /\ closed' = TRUE

StopProd(t) ==
  /\ Goto(t, "prod", IF ws = "none" THEN "done" ELSE "ws")
  /\ pc' = IF ~ PcOpen THEN pc ELSE IF ProdSet THEN "closed" ELSE "left"

SelectClosed(t) == Goto(t, "ws", IF wsClosed THEN "done" ELSE "close")
CloseWs(t) == Goto(t, "close", "done") /\ panic' = wsClosed /\ wsClosed' = TRUE /\ ws' = "closed"

(* Mutant of WakeDial: the dial is not woken. *)
WakeNobody(t) == Goto(t, "done", "end") /\ UNCHANGED connected

WakeDial(t) ==
  /\ Goto(t, "done", "end")
  /\ IF t \in {Listener, Pc} THEN Done("error") ELSE UNCHANGED connected

Stops(t) ==
  /\ UNCHANGED <<dial, handlers, session, answered, sendOffer>>
  /\ \/ TestClosed(t) /\ UNCHANGED <<closed, connected, ws, wsClosed, pc, panic>>
     \/ SetClosed(t) /\ UNCHANGED <<connected, ws, wsClosed, pc, panic>>
     \/ StopProd(t) /\ UNCHANGED <<closed, connected, ws, wsClosed, panic>>
     \/ SelectClosed(t) /\ UNCHANGED <<closed, connected, ws, wsClosed, pc, panic>>
     \/ CloseWs(t) /\ UNCHANGED <<closed, connected, pc>>
     \/ WakeDial(t) /\ UNCHANGED <<closed, ws, wsClosed, pc, panic>>
-----------------------------------------------------------------------------
(* Dial *)
Working(from) == dial = from /\ at[Dialer] = "idle"

(* WSClient.sendSessionMessage: a closed client is no error. *)
SendSucceeds == wsClosed \/ ws \in {"up", "broken"}
SendFails == ~ wsClosed /\ ws = "broken"

(* NewRestClient; a snapshot needs no connection. *)
NewRestClient ==
  /\ Working("api") /\ dial' \in {"refused", "dialled", "start"}
  /\ UNCHANGED <<handlers, session, answered, closed, connected, sendOffer, ws, wsClosed, pc, at,
                 panic>>

StartWebsocket ==
  /\ Working("start") /\ dial' = "make" /\ ws' = "up"
  /\ UNCHANGED <<handlers, session, answered, closed, connected, sendOffer, wsClosed, pc, at, panic>>

(* The peer connection is made, then the callbacks are set. *)
SetHandlers ==
  /\ Working("make") /\ dial' = "listen" /\ pc' = "new" /\ handlers' = TRUE
  /\ UNCHANGED <<session, answered, closed, connected, sendOffer, ws, wsClosed, at, panic>>

Listen ==
  /\ Working("listen") /\ dial' = "create"
  /\ UNCHANGED <<handlers, session, answered, closed, connected, sendOffer, ws, wsClosed, pc, at,
                 panic>>

(* CreateOffer sets candidates going. *)
CreateOffer ==
  /\ Working("create") /\ pc \in {"new", "left"} /\ dial' = "offer"
  /\ UNCHANGED <<handlers, session, answered, closed, connected, sendOffer, ws, wsClosed, pc, at,
                 panic>>

SendOffer ==
  /\ Working("offer") /\ SendSucceeds /\ dial' = "wait" /\ sendOffer' = TRUE
  /\ UNCHANGED <<handlers, session, answered, closed, connected, ws, wsClosed, pc, at, panic>>

StepFails ==
  /\ \/ \E s \in {"start", "make", "create"} : Working(s)
     \/ Working("offer") /\ SendFails
  /\ Goto(Dialer, "idle", "test")
  /\ UNCHANGED <<dial, handlers, session, answered, closed, connected, sendOffer, ws, wsClosed, pc,
                 panic>>

(* An error that the waiter was given ends the dial without a Stop. *)
Connected ==
  /\ Working("wait") /\ connected # "open"
  /\ dial' = IF connected = "error" THEN "failed" ELSE "dialled"
  /\ UNCHANGED <<handlers, session, answered, closed, connected, sendOffer, ws, wsClosed, pc, at,
                 panic>>

(* defer sendOffer.Done(nil) *)
Fails ==
  /\ Goto(Dialer, "end", "gone") /\ dial' = "failed" /\ sendOffer' = TRUE
  /\ UNCHANGED <<handlers, session, answered, closed, connected, ws, wsClosed, pc, panic>>
-----------------------------------------------------------------------------
(* The message loop *)
Reads == ws # "none" /\ at[Listener] = "idle"
Hears == Reads /\ handlers /\ ws = "up"

SessionCreated ==
  /\ Hears /\ ~ session /\ session' = TRUE
  /\ UNCHANGED <<dial, handlers, answered, closed, connected, sendOffer, ws, wsClosed, pc, at, panic>>

(* The answer of this session is set, and the session activated. *)
Answer ==
  /\ Hears /\ session /\ dial = "wait" /\ pc = "new" /\ ~ answered /\ answered' = TRUE
  /\ UNCHANGED <<dial, handlers, session, closed, connected, sendOffer, ws, wsClosed, pc, at, panic>>

(* "close", an answer or a candidate that cannot be used, or a session     *)
(* that cannot be activated.                                               *)
MessageFails ==
  /\ Hears /\ Goto(Listener, "idle", "test")
  /\ UNCHANGED <<dial, handlers, session, answered, closed, connected, sendOffer, ws, wsClosed, pc,
                 panic>>

(* onWsClose, onWsError: without callbacks nobody hears of it. *)
ReadFails ==
  /\ Reads /\ ws # "up"
  /\ Goto(Listener, "idle", IF wsClosed THEN "end" ELSE IF handlers THEN "test" ELSE "lost")
  /\ UNCHANGED <<dial, handlers, session, answered, closed, connected, sendOffer, ws, wsClosed, pc,
                 panic>>

Break ==
  /\ ws = "up" /\ ws' = "broken"
  /\ UNCHANGED <<dial, handlers, session, answered, closed, connected, sendOffer, wsClosed, pc, at,
                 panic>>
-----------------------------------------------------------------------------
(* The callbacks of the peer connection *)
PcConnected ==
  /\ answered /\ pc = "new" /\ at[Pc] = "idle" /\ pc' = "connected" /\ Done("nil")
  /\ UNCHANGED <<dial, handlers, session, answered, closed, sendOffer, ws, wsClosed, at, panic>>

(* Conn closes a connection that has failed or was disconnected. *)
PcFails ==
  /\ answered /\ PcOpen /\ Goto(Pc, "idle", "test") /\ pc' = "closed"
  /\ UNCHANGED <<dial, handlers, session, answered, closed, connected, sendOffer, ws, wsClosed,
                 panic>>

(* The connection was closed by another goroutine. *)
PcClosed ==
  /\ pc = "closed" /\ Goto(Pc, "idle", "test")
  /\ UNCHANGED <<dial, handlers, session, answered, closed, connected, sendOffer, ws, wsClosed, pc,
                 panic>>

(* A candidate waits for the offer to be sent. *)
Candidate ==
  /\ dial \in {"offer", "wait"} /\ PcOpen /\ Goto(Ice, "idle", "wait")
  /\ UNCHANGED <<dial, handlers, session, answered, closed, connected, sendOffer, ws, wsClosed, pc,
                 panic>>

SendCandidate ==
  /\ sendOffer /\ Goto(Ice, "wait", "end")
  /\ \/ SendSucceeds /\ UNCHANGED connected
     \/ SendFails /\ Done("error")
  /\ UNCHANGED <<dial, handlers, session, answered, closed, sendOffer, ws, wsClosed, pc, panic>>

(* Stop of a producer that was dialled *)
StopProducer ==
  /\ dial = "dialled" /\ Goto(Producer, "idle", "test")
  /\ UNCHANGED <<dial, handlers, session, answered, closed, connected, sendOffer, ws, wsClosed, pc,
                 panic>>
-----------------------------------------------------------------------------
DialSteps ==
  \/ NewRestClient \/ StartWebsocket \/ SetHandlers \/ Listen \/ CreateOffer \/ SendOffer
  \/ StepFails \/ Connected \/ Fails
Runs == ReadFails \/ PcClosed \/ SendCandidate \/ \E t \in Goroutines : Stops(t)

Next ==
  /\ ~ panic
  /\ \/ DialSteps \/ Runs
     \/ SessionCreated \/ Answer \/ MessageFails \/ Break \/ PcConnected \/ PcFails \/ Candidate
     \/ StopProducer

(* "protect from blocking on errors": whatever fails once the callbacks    *)
(* are set, in whichever goroutine, the dial returns, no candidate waits,  *)
(* and what Stop was to close is closed, unless two Stops at a time ended  *)
(* the process.                                                            *)
ErrorEnds ==
  []<>(\/ dial # "failed" /\ ~ closed /\ connected # "error" /\ ws # "broken"
       \/ panic \/ at[Listener] = "lost"
       \/ Returned /\ ~ PcOpen /\ ws \in {"none", "closed"} /\ at[Ice] # "wait")
=============================================================================
