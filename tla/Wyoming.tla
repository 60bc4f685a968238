------------------------------- MODULE Wyoming -------------------------------
(***************************************************************************)
(* A client of the Wyoming satellite (pkg/wyoming/satellite.go, expr.go,   *)
(* wakeword.go): the goroutine that reads its events, the goroutines of    *)
(* scripts, the sender that brings the chunks of the microphone, and the   *)
(* connection to the wake word service with a goroutine of its own.        *)
(*                                                                         *)
(* setMicState, micStop and onMicChunk run under micMu from their first    *)
(* line to their last, a dial of the wake word service and the MicHandler  *)
(* included: each is one step.  w.Detection is written without the mutex.  *)
(* Whether a chunk is loud, and whether micTS has passed wakeTimeout, is   *)
(* left open.                                                              *)
(***************************************************************************)
EXTENDS Sequences

CONSTANTS
  Jobs,     (* bound: goroutines of scripts at a time                      *)
  Scripts   (* calls of the scripts a configuration may have for an event  *)

VARIABLES
  client,    (* the connection to the client is open                       *)
  micState,
  mic,       (* s.mic is set                                               *)
  listed,    (* the microphone is one of stream.consumers                  *)
  feed,      (* its sender: none, open, or closed with a queue to drain    *)
  wake,      (* s.wake: none, its connection is open, or broken            *)
  heard,     (* s.wake.Detection is set                                    *)
  jobs,      (* the calls each goroutine still has to make                 *)
  handling   (* Server.Handle has not returned                             *)

Init ==
  /\ client = TRUE /\ handling = TRUE
  /\ micState = "new"
  /\ mic = FALSE /\ listed = FALSE /\ feed = "none"
  /\ wake = "none" /\ heard = FALSE
  /\ jobs = [j \in Jobs |-> <<>>]

Running == {"idle", "vad", "wakeword", "active"}

(* "go s.handleScript": the event's script, or what handleEvent does.      *)
Go(default) ==
  \E j \in Jobs, calls \in Scripts \cup {default} :
    jobs[j] = <<>> /\ jobs' = [jobs EXCEPT ![j] = calls]
-----------------------------------------------------------------------------
(* s.wake = nil, after a Close *)
Asleep == wake' = "none" /\ heard' = FALSE

(* Mutant of SetMicState: every state but stateNew may change. *)
SetAnyMicState(s) ==
  \/ /\ micState # "new"
     /\ micState' = s
     /\ UNCHANGED <<client, mic, listed, feed>>
  \/ /\ micState = "new" /\ mic' = TRUE
     /\ \/ micState' = s /\ listed' = TRUE /\ feed' = "open" /\ UNCHANGED client
        \/ micState' = "error" /\ client' = FALSE /\ UNCHANGED <<listed, feed>>

(* The first call of it adds the microphone to the stream, which may fail. *)
SetMicState(s) ==
  \/ /\ micState \in Running
     /\ micState' = s
     /\ UNCHANGED <<client, mic, listed, feed>>
  \/ /\ micState = "new" /\ mic' = TRUE
     /\ \/ micState' = s /\ listed' = TRUE /\ feed' = "open" /\ UNCHANGED client
        \/ micState' = "error" /\ client' = FALSE /\ UNCHANGED <<listed, feed>>
  \/ /\ micState \in {"error", "closed"}
     /\ UNCHANGED <<client, micState, mic, listed, feed>>

(* The MicHandler of internal/wyoming would have RemoveConsumer called by  *)
(* an OnClose of the microphone; micConsumer has no such method.           *)
MicStop ==
  /\ micState' = "closed"
  /\ mic' = FALSE
  /\ feed' = IF mic /\ feed = "open" THEN "draining" ELSE feed
  /\ Asleep
  /\ UNCHANGED listed

Detect == SetMicState("vad") /\ UNCHANGED <<wake, heard>>
Stream == SetMicState("active") /\ UNCHANGED <<wake, heard>>
Pause == SetMicState("idle") /\ UNCHANGED <<wake, heard>>
Stop == MicStop /\ UNCHANGED client
-----------------------------------------------------------------------------
(* onMicChunk *)

(* Mutant of WriteFails: the state stays. *)
WriteFailsOnly == micState' = "wakeword" /\ Asleep

(* "wake word service failed" *)
WriteFails == micState' = "vad" /\ Asleep

(* A chunk while the wake word service listens on connection w; only one   *)
(* that came before can have let the time pass.                            *)
Listen(w) ==
  \/ /\ heard
     /\ micState' = "idle" /\ Go(<<"Stream">>)
     /\ wake' = w /\ UNCHANGED heard
  \/ /\ ~ heard /\ WriteFails
     /\ UNCHANGED jobs
  \/ /\ ~ heard /\ w = "open"
     /\ micState' \in {"wakeword"} \cup (IF micState = "wakeword" THEN {"vad"} ELSE {})
     /\ wake' = w /\ UNCHANGED <<heard, jobs>>

(* A loud chunk: the wake word service, if there is one, or the client.    *)
Voice ==
  \/ wake # "none" /\ Listen(wake)
  \/ wake = "none" /\ Listen("open")
  \/ /\ wake = "none"
     /\ micState' = "idle" /\ Go(<<"Stream">>)
     /\ UNCHANGED <<wake, heard>>

OnMicChunk ==
  /\ feed # "none"
  /\ \/ micState = "idle" /\ UNCHANGED <<micState, wake, heard, jobs>>
     \/ micState = "vad" /\ Voice
     \/ micState = "wakeword" /\ Listen(wake)
     \/ micState \notin {"idle", "wakeword"} /\ Asleep /\ UNCHANGED <<micState, jobs>>
  /\ UNCHANGED <<client, mic, listed, feed, handling>>

(* The sender has delivered what was queued when it was closed. *)
Drained ==
  /\ feed = "draining" /\ feed' = "none"
  /\ UNCHANGED <<client, micState, mic, listed, wake, heard, jobs, handling>>

(* WakeWord.handle *)
WakeHears ==
  /\ wake = "open" /\ heard' = TRUE
  /\ UNCHANGED <<client, micState, mic, listed, feed, wake, jobs, handling>>

WakeEnds ==
  /\ wake = "open" /\ wake' = "broken"
  /\ UNCHANGED <<client, micState, mic, listed, feed, heard, jobs, handling>>
-----------------------------------------------------------------------------
(* An event of the client without a script is handled in place, audio-stop *)
(* and every script in a goroutine.                                        *)
HandleScript ==
  /\ handling /\ client
  /\ \/ (Detect \/ Stop \/ Pause) /\ UNCHANGED jobs
     \/ /\ Go(<<"PlayAudio", "Detect">>)
        /\ UNCHANGED <<client, micState, mic, listed, feed, wake, heard>>
  /\ UNCHANGED handling

(* A call of a script.  Those chained with && end at one that fails.       *)
Call(j) ==
  /\ jobs[j] # <<>>
  /\ \/ Head(jobs[j]) = "Detect" /\ Detect
     \/ Head(jobs[j]) = "Stream" /\ Stream
     \/ Head(jobs[j]) = "Pause" /\ Pause
     \/ Head(jobs[j]) = "Stop" /\ Stop
     \/ Head(jobs[j]) = "PlayAudio" /\ UNCHANGED <<client, micState, mic, listed, feed, wake, heard>>
  /\ \E rest \in {<<>>, Tail(jobs[j])} : jobs' = [jobs EXCEPT ![j] = rest]
  /\ UNCHANGED handling

(* The client leaves or the connection was closed: Handle's deferred Close.*)
Close ==
  /\ handling /\ handling' = FALSE
  /\ client' = FALSE
  /\ MicStop
  /\ UNCHANGED jobs

Next ==
  \/ HandleScript \/ Close \/ OnMicChunk \/ Drained \/ WakeHears \/ WakeEnds
  \/ \E j \in Jobs : Call(j)
-----------------------------------------------------------------------------
(* A chunk never meets a satellite that waits for the wake word without a  *)
(* service to give it to (s.wake.Detection of a nil s.wake), whatever      *)
(* scripts, events and failed writes have done to its state meanwhile.     *)
WakeKept == micState = "wakeword" => wake # "none"

(* When Handle has returned, no script that still runs and no chunk that   *)
(* still comes opens the microphone or the wake word service again.        *)
NothingLeft == ~ handling => micState = "closed" /\ wake = "none" /\ feed # "open"

(* Stop is to "stop and disconnect stream": the microphone is not one of   *)
(* the stream's consumers any more, so its source can stop.                *)
StopDisconnects == micState = "closed" => ~ listed
=============================================================================
