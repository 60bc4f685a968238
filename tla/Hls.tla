---------------------------------- MODULE Hls ----------------------------------
(* A session of the HLS server (internal/hls): a consumer of a stream, the *)
(* Session that collects what the consumer writes, and the timer that      *)
(* removes both when no segment has been asked for during keepalive.       *)
(*                                                                         *)
(* handlerStream, or the WebSocket's handler, adds the consumer, starts    *)
(* the timer, registers the session and starts Run, in which the senders   *)
(* of the consumer write.  Every request for a segment is a goroutine of   *)
(* its own: it looks the session up under sessionsMu, resets the timer,    *)
(* and polls for data.  The timer's function deletes the session under the *)
(* mutex and then removes the consumer.                                    *)
(*                                                                         *)
(* Frames are numbered; 0 stands for the init data (the fMP4 header, or    *)
(* the tables of MPEG-TS).  The timer fires after 5 seconds: by then the   *)
(* handler has registered the session and started Run.                     *)
EXTENDS Naturals, Sequences, SequencesExt

CONSTANTS
  Requests,   (* requests for a segment                                    *)
  MaxFrames   (* bound: frames written                                     *)

VARIABLES
  format,     (* fMP4 or MPEG-TS                                           *)
  handler,    (* where handlerStream is                                    *)
  session,    (* the session is in the map                                 *)
  consumer,   (* the consumer is the stream's: not yet, yes, no more       *)
  run,        (* the goroutine in Run                                      *)
  alive,      (* the timer is armed                                        *)
  expired,    (* functions of the timer between their two steps            *)
  header,     (* s.init # nil                                              *)
  buffer,     (* s.buffer                                                  *)
  frames,     (* the frames written                                        *)
  segments,   (* what Segment has returned, s.seq of them                  *)
  request     (* where each request is                                     *)

life == <<handler, session, consumer, run, alive, expired>>
data == <<header, buffer, frames, segments>>
vars == <<format, life, data, request>>

Init ==
  /\ format \in {"mp4", "ts"} /\ handler = "add"
  /\ session = FALSE /\ consumer = "none" /\ run = "none" /\ alive = FALSE /\ expired = 0
  /\ header = FALSE /\ buffer = <<>> /\ frames = 0 /\ segments = <<>>
  /\ request = [r \in Requests |-> "new"]
-----------------------------------------------------------------------------
(* handlerStream. *)
AddConsumer ==
  /\ handler = "add" /\ handler' = "timer" /\ consumer' = "in"
  /\ UNCHANGED <<format, session, run, alive, expired, data, request>>

AddFails ==
  /\ handler = "add" /\ handler' = "failed"
  /\ UNCHANGED <<format, session, consumer, run, alive, expired, data, request>>

AfterFunc ==
  /\ handler = "timer" /\ handler' = "register" /\ alive' = TRUE
  /\ UNCHANGED <<format, session, consumer, run, expired, data, request>>

Register ==
  /\ handler = "register" /\ handler' = "run" /\ session' = TRUE
  /\ UNCHANGED <<format, consumer, run, alive, expired, data, request>>

(* Run: the consumer's WriteTo writes the init data first. *)
Run ==
  /\ handler = "run" /\ handler' = "done" /\ run' = "run" /\ header' = TRUE
  /\ UNCHANGED <<format, session, consumer, alive, expired, buffer, frames, segments, request>>

(* Write: frames, those kept for WriteTo all at once.  A sender that is    *)
(* closed still writes what it has.                                        *)
Write ==
  /\ header
  /\ \E n \in frames + 1 .. MaxFrames :
       /\ buffer' = buffer \o [i \in 1 .. n - frames |-> frames + i]
       /\ frames' = n
  /\ UNCHANGED <<format, life, header, segments, request>>
-----------------------------------------------------------------------------
(* handlerSegmentTS and handlerSegmentMP4. *)
Goto(r, from, to) == request[r] = from /\ request' = [request EXCEPT ![r] = to]

Find(r) ==
  /\ handler = "done"
  /\ Goto(r, "new", IF session THEN "found" ELSE "404")
  /\ UNCHANGED <<format, life, data>>

(* Mutant of Reset: the timer is stopped, to be armed by the answer. *)
ResetStops(r) ==
  /\ Goto(r, "found", "poll") /\ alive' = FALSE
  /\ UNCHANGED <<format, handler, session, consumer, run, expired, data>>
(* alive.Reset, which arms a timer that has fired, too. *)
Reset(r) ==
  /\ Goto(r, "found", "poll") /\ alive' = TRUE
  /\ UNCHANGED <<format, handler, session, consumer, run, expired, data>>

(* Mutant of Segment: the buffer is not renewed. *)
SegmentAgain(r) ==
  /\ Goto(r, "poll", "200") /\ buffer # <<>>
  /\ segments' = Append(segments, buffer)
  /\ UNCHANGED <<format, life, header, frames, buffer>>
(* Segment takes what there is; MPEG-TS goes on with the init data. *)
Segment(r) ==
  /\ Goto(r, "poll", "200") /\ buffer # <<>>
  /\ segments' = Append(segments, buffer)
  /\ buffer' = IF format = "mp4" THEN <<>> ELSE <<0>>
  /\ UNCHANGED <<format, life, header, frames>>

(* Sixty times there was nothing. *)
GiveUp(r) ==
  /\ Goto(r, "poll", "404") /\ buffer = <<>>
  /\ UNCHANGED <<format, life, data>>
-----------------------------------------------------------------------------
(* The timer's function. *)
Expire ==
  /\ alive /\ handler = "done"
  /\ alive' = FALSE /\ session' = FALSE /\ expired' = expired + 1
  /\ UNCHANGED <<format, handler, consumer, run, data, request>>

(* RemoveConsumer; stopping the consumer ends its WriteTo. *)
RemoveConsumer ==
  /\ expired > 0 /\ expired' = expired - 1
  /\ consumer' = "out" /\ run' = "end"
  /\ UNCHANGED <<format, handler, session, alive, data, request>>

Start == AddConsumer \/ AfterFunc \/ Register \/ Run
Answer(r) == Reset(r) \/ Segment(r) \/ GiveUp(r)

Next ==
  \/ Start \/ AddFails \/ Write \/ Expire \/ RemoveConsumer
  \/ \E r \in Requests : Find(r) \/ Answer(r)

Spec == Init /\ [][Next]_vars
-----------------------------------------------------------------------------
(* The frames behind the init data. *)
FramesOf(s) == IF s # <<>> /\ Head(s) = 0 THEN Tail(s) ELSE s

(* What the requests have got, in the order of s.mu, and what is left are  *)
(* the frames written, none lost, doubled or moved, whatever requests      *)
(* overlap; no MPEG-TS segment but the first lacks the init data.          *)
SegmentsWhole ==
  /\ FlattenSeq([i \in DOMAIN segments |-> FramesOf(segments[i])]) \o FramesOf(buffer)
       = [i \in 1 .. frames |-> i]
  /\ \A i \in DOMAIN segments : format = "ts" /\ i > 1 => Head(segments[i]) = 0

(* When no segment is asked for any more, the consumer is removed from the *)
(* stream, its WriteTo has ended, and the session is gone from the map,    *)
(* also when the last request reset a timer that had fired.                *)
SessionEnds ==
  []<>(consumer \in {"in", "out"} =>
         consumer = "out" /\ run = "end" /\ ~session /\ ~alive /\ expired = 0)
=============================================================================
