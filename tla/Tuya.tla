-------------------------------- MODULE Tuya --------------------------------
(***************************************************************************)
(* The dial of a Tuya camera (pkg/tuya): a peer connection is negotiated   *)
(* over MQTT, and the callbacks of MQTT, of the peer connection and of its *)
(* data channel end what the dial has begun when something goes wrong,     *)
(* each in a goroutine of its own and without a mutex.                     *)
(*                                                                         *)
(* The requests to the cloud, the formats of offers and answers and the    *)
(* packets are left out.  Publishing and disconnecting are taken to        *)
(* return; the camera may stay silent.  Each callback fails at most once,  *)
(* and one candidate is found.                                             *)
(***************************************************************************)
CONSTANTS
  Dialer, Mqtt, Pc, Dc, Ice, Producer  (* the goroutines                   *)

VARIABLES
  hevc,       (* the camera sends over a data channel                      *)
  dial,       (* where Dial is                                             *)
  closed,     (* Client.closed                                             *)
  connected,  (* the waiter Client.connected: open, or what Done gave it   *)
  sendOffer,  (* the waiter sendOffer is done                              *)
  mqtt,       (* the MQTT connection                                       *)
  mqttClosed, (* TuyaMqttClient.closed                                     *)
  pc,         (* the peer connection                                       *)
  at          (* where each goroutine is in Close                          *)

tuya == <<hevc, dial, closed, connected, sendOffer, mqtt, mqttClosed, pc, at>>

Goroutines == {Dialer, Mqtt, Pc, Dc, Ice, Producer}

Init ==
  /\ hevc \in BOOLEAN /\ dial = "init" /\ closed = FALSE /\ connected = "open"
  /\ sendOffer = FALSE /\ mqtt = "down" /\ mqttClosed = FALSE /\ pc = "none"
  /\ at = [t \in Goroutines |-> "idle"]

Goto(t, from, to) == at[t] = from /\ at' = [at EXCEPT ![t] = to]
Returned == dial \in {"refused", "failed", "dialled"}

PcOpen == pc \in {"new", "connected"}

(* Waiter.Done: only the first counts. *)
Done(v) == connected' = IF connected = "open" THEN v ELSE connected
-----------------------------------------------------------------------------
(* Client.Close: it wakes the dial, and stops. *)

(* Mutant of Close: the dial is not woken. *)
CloseOnly(t) == Goto(t, "close", "test") /\ UNCHANGED connected

Close(t) == Goto(t, "close", "test") /\ Done("error")

(* Client.Stop *)
TestClosed(t) == Goto(t, "test", IF closed THEN "end" ELSE "set")
SetClosed(t) == Goto(t, "set", "conn") /\ closed' = TRUE
StopConn(t) == Goto(t, "conn", "api") /\ pc' = IF PcOpen THEN "closed" ELSE pc

(* TuyaMqttClient.Stop *)
StopMqtt(t) == Goto(t, "api", "end") /\ mqtt' = "down" /\ mqttClosed' = TRUE

Closes(t) ==
  /\ UNCHANGED <<hevc, dial, sendOffer>>
  /\ \/ Close(t) /\ UNCHANGED <<closed, mqtt, mqttClosed, pc>>
     \/ TestClosed(t) /\ UNCHANGED <<closed, connected, mqtt, mqttClosed, pc>>
     \/ SetClosed(t) /\ UNCHANGED <<connected, mqtt, mqttClosed, pc>>
     \/ StopConn(t) /\ UNCHANGED <<closed, connected, mqtt, mqttClosed>>
     \/ StopMqtt(t) /\ UNCHANGED <<closed, connected, pc>>
-----------------------------------------------------------------------------
(* Dial *)
Working(from) == dial = from /\ at[Dialer] = "idle"

(* api.Init: without a client there is nothing that could be closed. *)
InitApi ==
  /\ Working("init")
  /\ \/ dial' = "setup" /\ mqtt' = "up"
     \/ dial' = "refused" /\ mqtt' \in {"up", "down"}
  /\ UNCHANGED <<hevc, closed, connected, sendOffer, mqttClosed, pc, at>>

SetHandlers ==
  /\ Working("setup") /\ dial' = "create" /\ pc' = "new"
  /\ UNCHANGED <<hevc, closed, connected, sendOffer, mqtt, mqttClosed, at>>

(* CreateOffer sets candidates going. *)
CreateOffer ==
  /\ Working("create") /\ PcOpen /\ dial' = "offer"
  /\ UNCHANGED <<hevc, closed, connected, sendOffer, mqtt, mqttClosed, pc, at>>

SendOffer ==
  /\ Working("offer") /\ ~ mqttClosed /\ dial' = "wait" /\ sendOffer' = TRUE
  /\ UNCHANGED <<hevc, closed, connected, mqtt, mqttClosed, pc, at>>

StepFails ==
  /\ \E s \in {"setup", "create", "offer"} : Working(s)
  /\ Goto(Dialer, "idle", "close")
  /\ UNCHANGED <<hevc, dial, closed, connected, sendOffer, mqtt, mqttClosed, pc>>

Connected ==
  /\ Working("wait") /\ connected # "open"
  /\ IF connected = "error"
     THEN Goto(Dialer, "idle", "close") /\ UNCHANGED dial
     ELSE dial' = "dialled" /\ UNCHANGED at
  /\ UNCHANGED <<hevc, closed, connected, sendOffer, mqtt, mqttClosed, pc>>

(* defer sendOffer.Done(nil) *)
Fails ==
  /\ Goto(Dialer, "end", "gone") /\ dial' = "failed" /\ sendOffer' = TRUE
  /\ UNCHANGED <<hevc, closed, connected, mqtt, mqttClosed, pc>>
-----------------------------------------------------------------------------
(* The callbacks *)
Handled == dial \in {"create", "offer", "wait", "failed", "dialled"}

(* handleAnswer, handleError: what the camera sent cannot be used. *)
MessageFails ==
  /\ Handled /\ mqtt = "up" /\ Goto(Mqtt, "idle", "close")
  /\ UNCHANGED <<hevc, dial, closed, connected, sendOffer, mqtt, mqttClosed, pc>>

Disconnect ==
  /\ Handled /\ mqtt = "up" /\ Goto(Mqtt, "idle", "close") /\ mqttClosed' = TRUE
  /\ UNCHANGED <<hevc, dial, closed, connected, sendOffer, mqtt, pc>>

(* The answer is used, and the connection comes about. *)
PcConnected ==
  /\ dial = "wait" /\ pc = "new" /\ at[Pc] = "idle" /\ pc' = "connected"
  /\ IF hevc THEN UNCHANGED connected ELSE Done("nil")
  /\ UNCHANGED <<hevc, dial, closed, sendOffer, mqtt, mqttClosed, at>>

(* Conn closes a connection that has failed or was disconnected. *)
PcFails ==
  /\ Handled /\ PcOpen /\ at[Pc] = "idle" /\ pc' = "closed"
  /\ UNCHANGED <<hevc, dial, closed, connected, sendOffer, mqtt, mqttClosed, at>>

(* The event comes once. *)
PcClosed ==
  /\ Handled /\ pc = "closed" /\ Goto(Pc, "idle", "close") /\ pc' = "ended"
  /\ UNCHANGED <<hevc, dial, closed, connected, sendOffer, mqtt, mqttClosed>>

(* probe: the camera has sent "recv". *)
Probe ==
  /\ hevc /\ pc = "connected" /\ at[Dc] = "idle" /\ Done("nil")
  /\ UNCHANGED <<hevc, dial, closed, sendOffer, mqtt, mqttClosed, pc, at>>

DcFails ==
  /\ hevc /\ pc = "connected" /\ Goto(Dc, "idle", "close")
  /\ UNCHANGED <<hevc, dial, closed, connected, sendOffer, mqtt, mqttClosed, pc>>

(* A candidate waits for the offer to be sent. *)
Candidate ==
  /\ dial \in {"offer", "wait"} /\ PcOpen /\ Goto(Ice, "idle", "wait")
  /\ UNCHANGED <<hevc, dial, closed, connected, sendOffer, mqtt, mqttClosed, pc>>

SendCandidate ==
  /\ sendOffer
  /\ \/ ~ mqttClosed /\ Goto(Ice, "wait", "end")
     \/ Goto(Ice, "wait", "close")
  /\ UNCHANGED <<hevc, dial, closed, connected, sendOffer, mqtt, mqttClosed, pc>>

(* Stop of a producer that was dialled *)
StopProducer ==
  /\ dial = "dialled" /\ Goto(Producer, "idle", "test")
  /\ UNCHANGED <<hevc, dial, closed, connected, sendOffer, mqtt, mqttClosed, pc>>
-----------------------------------------------------------------------------
DialSteps == InitApi \/ SetHandlers \/ CreateOffer \/ SendOffer \/ StepFails \/ Connected \/ Fails
Runs == SendCandidate \/ PcClosed \/ \E t \in Goroutines : Closes(t)

Next ==
  \/ DialSteps \/ Runs
  \/ MessageFails \/ Disconnect \/ PcConnected \/ PcFails \/ Probe \/ DcFails \/ Candidate
  \/ StopProducer

(* "protect from blocking on errors": whatever fails, in whichever of the  *)
(* goroutines and at whatever moment, the dial returns, no callback waits  *)
(* any more, and the connections are closed.                               *)
ErrorEnds ==
  []<>(\/ dial = "failed" \/ closed \/ connected = "error"
         => Returned /\ ~ PcOpen /\ mqtt = "down" /\ at[Ice] # "wait")
=============================================================================
