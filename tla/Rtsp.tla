-------------------------------- MODULE Rtsp --------------------------------
(* The RTSP client of pkg/rtsp: one Conn, from rtspHandler, which dials a  *)
(* camera, over GetTrack and AddTrack, which set medias up and reconnect   *)
(* when the session already plays, to Stop.                                *)
(*                                                                         *)
(* Three goroutines share the Conn.  The caller (streams.Producer, under   *)
(* its own mutex, so one call at a time) opens, adds tracks and stops.     *)
(* Start loops over PLAY and Handle, which reads whatever the connection   *)
(* brings.  The keepalive of Handle writes OPTIONS.  Only GetTrack,        *)
(* AddTrack, Stop and the switch of Start take c.stateMu: Handle and the   *)
(* keepalive use c.conn and c.reader as they find them.                    *)
(*                                                                         *)
(* A call is a list of steps still to do: Do, SetupMedia and Reconnect     *)
(* call each other, and each puts its steps in front of its caller's.  The *)
(* camera answers requests in order; what it answers is chosen when the    *)
(* answer is read, so an answer nobody reads is late, not lost.  The       *)
(* transport is TCP, with the channels the client asked for, and the SDP   *)
(* lists the backchannel last.                                             *)
EXTENDS Naturals, Sequences, FiniteSets, SequencesExt

CONSTANTS
  Recv,       (* medias the camera sends: a receiver each                  *)
  Back,       (* medias the camera takes: the backchannel, a sender each   *)
  MaxFaults,  (* bound: what is refused, comes late, fails or is dropped   *)
  MaxBeats    (* bound: keepalives                                         *)

VARIABLES
  state,      (* c.state                                                   *)
  open,       (* c.conn is dialled and not closed                          *)
  dead,       (* the camera has dropped it                                 *)
  wire,       (* the requests on it whose answers c.reader still holds     *)
  old,        (* those of an earlier reader that Handle is still in        *)
  setup,      (* the medias whose SETUP was written on it                  *)
  playing,    (* its PLAY was answered with OK                             *)
  auth,       (* c.auth.Method: untried, or what a 401 made of it          *)
  backchannel,(* c.Backchannel                                             *)
  medias,     (* c.Medias                                                  *)
  receivers, senders, (* the medias of c.Receivers and of c.Senders        *)
  channel,    (* for each track, the media whose answer gave its channel   *)
  caller,     (* what the producer is doing                                *)
  plan,       (* the steps its call has left                               *)
  wrote,      (* the request of the first step is written                  *)
  failed,     (* a call has failed                                         *)
  start,      (* where Start is                                            *)
  fresh,      (* Handle reads the current connection                       *)
  faults, beats

tcp   == <<open, dead, wire, old, setup, playing>>
conf  == <<auth, backchannel, medias>>
added == <<receivers, senders, channel>>
call  == <<caller, plan, wrote, failed>>
loop  == <<start, fresh>>
vars  == <<state, tcp, conf, added, call, loop, faults, beats>>

Media == Recv \cup Back
Tracks == ToSet(receivers) \cup ToSet(senders)

Init ==
  /\ state = "NONE" /\ open = FALSE /\ dead = FALSE /\ wire = <<>> /\ old = <<>>
  /\ setup = {} /\ playing = FALSE
  /\ auth = "untried" /\ backchannel \in BOOLEAN /\ medias = {}
  /\ receivers = <<>> /\ senders = <<>> /\ channel = [m \in Media |-> m]
  /\ caller = "new" /\ plan = <<>> /\ wrote = FALSE /\ failed = FALSE
  /\ start = "idle" /\ fresh = FALSE /\ faults = 0 /\ beats = 0

Fault == faults < MaxFaults /\ faults' = faults + 1
Alive == open /\ ~dead
Send(request) == wire' = IF Alive THEN Append(wire, request) ELSE wire
----------------------------------------------------------------------------
(* The steps of a call. *)

Step(s) == plan # <<>> /\ Head(plan) = s
Asks    == plan # <<>> /\ Head(plan) \in {"describe"} \cup Media
Redial  == <<"dial", "describe">>
(* Mutant: only the receivers are restored. *)
ReconnectReceivers == <<"close">> \o Redial \o receivers
(* Reconnect: the medias are restored, receivers first. *)
Reconnect == <<"close">> \o Redial \o receivers \o senders

(* The call returns an error; rtspHandler closes nothing then. *)
Fail ==
  /\ plan' = <<>> /\ wrote' = FALSE /\ failed' = TRUE
  /\ caller' = IF caller = "opening" THEN "gone" ELSE "ready"
  /\ UNCHANGED backchannel

(* Do fails.  rtspHandler tries once more without the backchannel, on a    *)
(* connection of its own; SetupMedia does so too, after a Reconnect.       *)
DoFails ==
  \/ /\ backchannel /\ (caller = "opening" \/ Head(plan) \in Media)
     /\ plan' = IF caller = "opening" THEN Redial ELSE Reconnect \o plan
     /\ backchannel' = FALSE /\ wrote' = FALSE /\ UNCHANGED <<caller, failed>>
  \/ ~(backchannel /\ (caller = "opening" \/ Head(plan) \in Media)) /\ Fail

(* The first step is done; with the last one the track is added. *)
Done(m) ==
  /\ plan' = Tail(plan) /\ wrote' = FALSE
  /\ caller' = IF plan' = <<>> THEN "ready" ELSE caller
  /\ IF plan' = <<>> /\ caller = "busy"
     THEN /\ IF Head(plan) \in Recv
             THEN receivers' = Append(receivers, Head(plan)) /\ UNCHANGED senders
             ELSE senders' = Append(senders, Head(plan)) /\ UNCHANGED receivers
          /\ state' = "SETUP"
          /\ channel' = [channel EXCEPT ![Head(plan)] = m]
     ELSE UNCHANGED <<added, state>>

CloseStep ==
  /\ Step("close") /\ open' = FALSE /\ plan' = Tail(plan)
  /\ UNCHANGED <<state, dead, wire, old, setup, playing, conf, added, caller, wrote, failed,
                 loop, faults, beats>>

(* Dial: a Handle that is reading goes on with the reader it has. *)
DialStep ==
  /\ Step("dial") /\ plan' = Tail(plan)
  /\ state' = "CONN" /\ open' = TRUE /\ dead' = FALSE /\ wire' = <<>>
  /\ old' = IF fresh THEN wire ELSE old
  /\ fresh' = FALSE /\ setup' = {} /\ playing' = FALSE /\ auth' = "untried"
  /\ UNCHANGED <<backchannel, medias, added, caller, wrote, failed, start, faults, beats>>

(* rtspHandler takes only the Dial of a redirect for a failed Describe. *)
DialFails ==
  /\ Step("dial") /\ Fault
  /\ IF state = "NONE" THEN Fail ELSE DoFails
  /\ UNCHANGED <<state, tcp, auth, medias, added, loop, beats>>

Write ==
  /\ Asks /\ ~wrote /\ Head(plan) \in {"describe"} \cup medias
  /\ Send(Head(plan)) /\ wrote' = TRUE /\ setup' = setup \cup ({Head(plan)} \cap Media)
  /\ UNCHANGED <<state, open, dead, old, playing, conf, added, caller, plan, failed,
                 loop, faults, beats>>

(* SetupMedia: wrong media, the last SDP does not have it. *)
WrongMedia ==
  /\ Asks /\ ~wrote /\ Head(plan) \in Media \ medias /\ Fail
  /\ UNCHANGED <<state, tcp, auth, medias, added, loop, faults, beats>>

Answered == Asks /\ wrote /\ wire # <<>> /\ wire' = Tail(wire)
Own == Answered /\ Head(wire) = Head(plan)

(* Describe: the medias of the SDP, the backchannel only when asked for;   *)
(* those of a later one only shorten the list, to none when the answer has *)
(* no SDP.                                                                 *)
Sdp == IF Head(wire) # "describe" THEN {} ELSE IF backchannel THEN Media ELSE Recv
Describe ==
  medias' = IF caller = "opening" THEN Sdp
            ELSE IF Cardinality(medias) > Cardinality(Sdp) THEN medias \cap Sdp ELSE medias

(* Do: the next answer is taken for the answer, whatever its CSeq. *)
ReadOK ==
  /\ Answered /\ (Head(plan) \in Media => Head(wire) \in Media)
  /\ IF Step("describe") THEN Describe ELSE UNCHANGED medias
  /\ Done(Head(wire))
  /\ UNCHANGED <<open, dead, old, setup, playing, auth, backchannel, failed, loop, faults, beats>>

(* SetupMedia: wrong transport, the answer was not one to a SETUP. *)
ReadForeign ==
  /\ Answered /\ Head(plan) \in Media /\ Head(wire) \notin Media /\ Fail
  /\ UNCHANGED <<state, open, dead, old, setup, playing, auth, medias, added, loop, faults, beats>>

(* A 401, and Do has something to try: the name, or the TP-Link's way. *)
ReadUnauthorized ==
  /\ Own /\ auth = "untried" /\ auth' = "tried" /\ wrote' = FALSE
  /\ UNCHANGED <<state, open, dead, old, setup, playing, backchannel, medias, added, caller,
                 plan, failed, loop, faults, beats>>

(* Mutant: the connection that redirects is not closed. *)
ReadMovedOpen ==
  /\ Own /\ Step("describe") /\ Fault
  /\ plan' = <<"dial">> \o plan /\ wrote' = FALSE
  /\ UNCHANGED <<state, open, dead, old, setup, playing, conf, added, caller, failed, loop, beats>>
(* A redirect: close, dial the new address and ask again. *)
ReadMoved ==
  /\ Own /\ Step("describe") /\ Fault
  /\ plan' = <<"close", "dial">> \o plan /\ wrote' = FALSE
  /\ UNCHANGED <<state, open, dead, old, setup, playing, conf, added, caller, failed, loop, beats>>

(* Any other status, or a 401 that cannot be helped. *)
ReadRefused ==
  /\ Own /\ Fault /\ DoFails
  /\ UNCHANGED <<state, open, dead, old, setup, playing, auth, medias, added, loop, beats>>

(* Mutant: no deadline, only a dropped connection ends the read. *)
ReadForever ==
  /\ Asks /\ wrote /\ DoFails /\ dead
  /\ UNCHANGED <<state, tcp, auth, medias, added, loop, faults, beats>>
(* The deadline passes, or the connection is gone. *)
ReadTimeout ==
  /\ Asks /\ wrote /\ DoFails
  /\ IF wire = <<>> THEN UNCHANGED faults ELSE Fault
  /\ UNCHANGED <<state, tcp, auth, medias, added, loop, beats>>
----------------------------------------------------------------------------
(* The calls of the producer. *)

Open ==
  /\ caller = "new" /\ caller' = "opening" /\ plan' = Redial
  /\ UNCHANGED <<state, tcp, conf, added, wrote, failed, loop, faults, beats>>

(* GetTrack of a media the camera sends, AddTrack of one it takes. *)
AddMedia(m) ==
  /\ caller = "ready" /\ m \in medias \ Tracks
  /\ caller' = "busy" /\ plan' = (IF state = "PLAY" THEN Reconnect ELSE <<>>) \o <<m>>
  /\ UNCHANGED <<state, tcp, conf, added, wrote, failed, loop, faults, beats>>

Go ==
  /\ caller = "ready" /\ Tracks # {} /\ start = "idle" /\ start' = "switch"
  /\ UNCHANGED <<state, tcp, conf, added, call, fresh, faults, beats>>

Stop ==
  /\ caller = "ready" /\ caller' = "stopping" /\ state' = "NONE"
  /\ UNCHANGED <<tcp, conf, added, plan, wrote, failed, loop, faults, beats>>

Close ==
  /\ caller = "stopping" /\ caller' = "stopped" /\ open' = FALSE
  /\ UNCHANGED <<state, dead, wire, old, setup, playing, conf, added, plan, wrote, failed,
                 loop, faults, beats>>
----------------------------------------------------------------------------
(* Start, Handle and the keepalive. *)

Unlocked == caller \notin {"busy", "stopping"}

(* The switch of Start: SETUP plays, everything else ends it. *)
Play ==
  /\ start = "switch" /\ Unlocked /\ state = "SETUP"
  /\ Send("play") /\ state' = "PLAY" /\ start' = "loop"
  /\ UNCHANGED <<open, dead, old, setup, playing, conf, added, call, fresh, faults, beats>>

Return ==
  /\ start = "switch" /\ Unlocked /\ state # "SETUP"
  /\ start' = IF state = "NONE" THEN "nil" ELSE "error"
  /\ UNCHANGED <<state, tcp, conf, added, call, fresh, faults, beats>>

(* Handle: the state is read, then the reader, both without the lock. *)
Loop ==
  /\ start = "loop"
  /\ IF state = "NONE" THEN start' = "switch" /\ UNCHANGED fresh
                       ELSE start' = "read" /\ fresh' = TRUE
  /\ UNCHANGED <<state, tcp, conf, added, call, faults, beats>>

(* handleTCPData: an answer of the camera, whatever it answers. *)
Handle ==
  /\ start = "read" /\ start' = "loop" /\ fresh' = FALSE
  /\ IF fresh
     THEN /\ wire # <<>> /\ wire' = Tail(wire) /\ UNCHANGED old
          /\ \/ Head(wire) = "play" /\ playing' = TRUE /\ UNCHANGED faults
             \/ Head(wire) = "play" /\ Fault /\ UNCHANGED playing
             \/ Head(wire) # "play" /\ UNCHANGED <<playing, faults>>
     ELSE old # <<>> /\ old' = <<>> /\ UNCHANGED <<wire, playing, faults>>
  /\ UNCHANGED <<state, open, dead, setup, conf, added, call, beats>>

(* Mutant: Handle skips an error. *)
HandleSkips ==
  /\ start = "read" /\ start' = "loop" /\ fresh' = FALSE /\ old' = <<>>
  /\ IF fresh /\ Alive /\ (playing \/ wire # <<>>) THEN Fault ELSE UNCHANGED faults
  /\ UNCHANGED <<state, open, dead, wire, setup, playing, conf, added, call, beats>>
(* The connection is closed, or the deadline passes: the camera sends      *)
(* nothing before it plays.                                                *)
HandleFails ==
  /\ start = "read" /\ start' = "switch" /\ fresh' = FALSE /\ old' = <<>>
  /\ IF fresh /\ Alive /\ (playing \/ wire # <<>>) THEN Fault ELSE UNCHANGED faults
  /\ UNCHANGED <<state, open, dead, wire, setup, playing, conf, added, call, beats>>

Keepalive ==
  /\ start \in {"loop", "read"} /\ Alive /\ beats < MaxBeats /\ beats' = beats + 1
  /\ Send("options")
  /\ UNCHANGED <<state, open, dead, old, setup, playing, conf, added, call, loop, faults>>

Drop ==
  /\ Alive /\ Fault /\ dead' = TRUE /\ wire' = <<>>
  /\ UNCHANGED <<state, open, old, setup, playing, conf, added, call, loop, beats>>
----------------------------------------------------------------------------
Call == CloseStep \/ DialStep \/ DialFails \/ Write \/ WrongMedia \/ ReadOK \/ ReadForeign
        \/ ReadUnauthorized \/ ReadMoved \/ ReadRefused \/ ReadTimeout
Switch == Play \/ Return
Reading == Loop \/ Handle \/ HandleFails

Next ==
  \/ Call \/ Switch \/ Reading \/ Open \/ Go \/ Stop \/ Close \/ Keepalive \/ Drop
  \/ \E m \in Media : AddMedia(m)

Spec == Init /\ [][Next]_vars
(* Goroutines run, reads have deadlines, and a sync.Mutex is handed to who *)
(* has waited for it: callers that come again and again do not starve      *)
(* Start.  Nobody has to call.                                             *)
FairSpec == Spec /\ WF_vars(Call) /\ WF_vars(Close) /\ WF_vars(Reading) /\ SF_vars(Switch)
----------------------------------------------------------------------------
(* Through redirects, reconnects and retries, a connection is closed       *)
(* before the next is dialled, and the last one when the Conn is stopped.  *)
(* Only rtspHandler leaves one to the garbage collector, for its second    *)
(* try.                                                                    *)
OneConnection ==
  [][/\ DialStep /\ open => caller = "opening" /\ ~backchannel
     /\ caller' = "stopped" => ~open']_vars

(* PLAY is written on a connection only when every track has been set up   *)
(* on it, with the channel of its own media: a Reconnect, or one inside    *)
(* another, restores them all, and no answer to another request is taken   *)
(* for that to a SETUP.                                                    *)
Whole == \A m \in Tracks : m \in setup /\ channel[m] = m
PlaysAllTracks == [][Play /\ ~failed => Whole]_vars

(* Whatever failed before, a track is set up again on the connection that  *)
(* plays: "restore previous medias".                                       *)
Restored == [][Play => Tracks \subseteq setup]_vars

(* A track added while Start runs is played, or Start ends, unless more    *)
(* calls keep coming: "Setup after PLAY should Play once again".           *)
Running == start \in {"switch", "loop", "read"}
PlaysAgain == []<>(Running /\ state = "SETUP" => caller = "busy")

(* Every call returns, whatever answers get lost, and a Stop ends Start    *)
(* without an error: "None after PLAY should exit without error".          *)
CallsReturn ==
  /\ []<>(plan = <<>>)
  /\ (Running /\ state = "NONE") ~> (start = "nil")
=============================================================================
