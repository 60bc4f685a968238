-------------------------------- MODULE Srtp --------------------------------
(***************************************************************************)
(* The SRTP server (pkg/srtp) and those who use it: a HomeKit camera that  *)
(* is a source (pkg/homekit/producer.go, pkg/hap/camera/stream.go), whose  *)
(* Start and Stop run in two goroutines, and sessions that go2rtc as a     *)
(* camera adds for its controllers (consumer.go), and never deletes.  The  *)
(* server listens while it has sessions; a goroutine, handle, reads        *)
(* s.conn, which it looks up again for every packet.                       *)
(*                                                                         *)
(* A socket is s.conn or an older one; those are closed.  The keys are of  *)
(* the one suite that is offered, so that a session's init succeeds.  The  *)
(* other side chooses the numbers (SSRC) of its sessions, all different.   *)
(***************************************************************************)
EXTENDS Naturals

CONSTANTS
  Sources,     (* clients of a camera, one after the other                 *)
  Controllers, (* Consumers                                                *)
  Readers,     (* goroutines in handle; the bound on how many there are    *)
  Kinds        (* sessions of each, video and audio, used in this order    *)

VARIABLES
  conn,        (* s.conn: none, open or closed                             *)
  sessions,    (* s.sessions                                               *)
  on,          (* session.conn: none, the current s.conn or an older one   *)
  handle,      (* where the goroutines are                                 *)
  start, stop, (* where Start and Stop of a client are                     *)
  remote,      (* clients whose sessions have a Remote                     *)
  added,       (* how many of its sessions a client or Consumer has added  *)
  panic        (* somebody has used a nil conn                             *)

srtpVars == <<conn, sessions, on, handle, start, stop, remote, added, panic>>

Session == (Sources \cup Controllers) \X (1 .. Kinds)

Init ==
  /\ conn = "none" /\ sessions = {}
  /\ on = [s \in Session |-> "none"]
  /\ handle = [h \in Readers |-> "none"]
  /\ start = [c \in Sources |-> "none"] /\ stop = [c \in Sources |-> 0]
  /\ remote = {}
  /\ added = [c \in Sources \cup Controllers |-> 0]
  /\ panic = FALSE
-----------------------------------------------------------------------------
(* AddSession listens for the first one; ListenPacket may fail. *)
Listen(s) ==
  /\ on' = [t \in Session |-> IF t = s THEN "here" ELSE IF on[t] = "here" THEN "old" ELSE on[t]]
  /\ \E h \in Readers :
       /\ handle[h] = "none"
       /\ handle' = [g \in Readers |-> IF g = h THEN "loop"
                                      ELSE IF handle[g] = "read" THEN "stale" ELSE handle[g]]
  /\ conn' = "open" /\ sessions' = {s}

ListenFails ==
  /\ on' = [t \in Session |-> IF on[t] = "here" THEN "old" ELSE on[t]]
  /\ handle' = [g \in Readers |-> IF handle[g] = "read" THEN "stale" ELSE handle[g]]
  /\ conn' = "none" /\ UNCHANGED sessions

(* Mutant of AddSession: it listens only once. *)
AddSessionOnce(s) ==
  \/ conn = "none" /\ (Listen(s) \/ ListenFails)
  \/ conn # "none" /\ on' = [on EXCEPT ![s] = "here"] /\ sessions' = sessions \cup {s}
     /\ UNCHANGED <<conn, handle>>

AddSession(s) ==
  \/ sessions = {} /\ (Listen(s) \/ ListenFails)
  \/ sessions # {} /\ on' = [on EXCEPT ![s] = "here"] /\ sessions' = sessions \cup {s}
     /\ UNCHANGED <<conn, handle>>

DelSession(s) ==
  /\ sessions' = sessions \ {s}
  /\ conn' = IF sessions' = {} /\ conn # "none" THEN "closed" ELSE conn
-----------------------------------------------------------------------------
(* The client of a camera.  Start: NewStream finds a free stream and       *)
(* exchanges the endpoints, which gives the sessions their Remote, and     *)
(* starts the stream; then the sessions are added.                         *)
Step(c, from, to) == start[c] = from /\ start' = [start EXCEPT ![c] = to]

Start(c) ==
  /\ Step(c, "none", "exchange")
  /\ UNCHANGED <<conn, sessions, on, handle, stop, remote, added, panic>>

ExchangeEndpoints(c) ==
  /\ Step(c, "exchange", "config") /\ remote' = remote \cup {c}
  /\ UNCHANGED <<conn, sessions, on, handle, stop, added, panic>>

SetStreamConfig(c) ==
  /\ Step(c, "config", "add")
  /\ UNCHANGED <<conn, sessions, on, handle, stop, remote, added, panic>>

NewStreamFails(c) ==
  /\ start[c] \in {"exchange", "config"} /\ start' = [start EXCEPT ![c] = "end"]
  /\ UNCHANGED <<conn, sessions, on, handle, stop, remote, added, panic>>

AddSessions(c) ==
  /\ Step(c, "add", IF added[c] + 1 = Kinds THEN "end" ELSE "add")
  /\ AddSession(<<c, added[c] + 1>>)
  /\ added' = [added EXCEPT ![c] = @ + 1]
  /\ UNCHANGED <<stop, remote, panic>>

(* Stop, at any time since Dial: a session that has no Remote yet is not   *)
(* deleted.                                                                *)
Stop(c) ==
  /\ stop[c] < Kinds
  /\ stop' = [stop EXCEPT ![c] = @ + 1]
  /\ IF c \in remote THEN DelSession(<<c, stop[c] + 1>>) ELSE UNCHANGED <<conn, sessions>>
  /\ UNCHANGED <<on, handle, start, remote, added, panic>>
-----------------------------------------------------------------------------
(* Consumer.SetConfig; then its sender writes.  A session whose server     *)
(* could not listen has no conn.                                           *)
SetConfig(c) ==
  /\ added[c] < Kinds
  /\ AddSession(<<c, added[c] + 1>>)
  /\ added' = [added EXCEPT ![c] = @ + 1]
  /\ UNCHANGED <<start, stop, remote, panic>>

WriteRTP(c) ==
  /\ added[c] = Kinds /\ \E k \in 1 .. Kinds : on[<<c, k>>] = "none"
  /\ panic' = TRUE
  /\ UNCHANGED <<conn, sessions, on, handle, start, stop, remote, added>>

(* handle: it reads whatever s.conn is now. *)
Loop(h) ==
  /\ handle[h] = "loop"
  /\ handle' = [handle EXCEPT ![h] = "read"]
  /\ panic' = (conn = "none")
  /\ UNCHANGED <<conn, sessions, on, start, stop, remote, added>>

Receive(h) ==
  /\ handle[h] = "read" /\ conn = "open"
  /\ handle' = [handle EXCEPT ![h] = "loop"]
  /\ UNCHANGED <<conn, sessions, on, start, stop, remote, added, panic>>

ReadFails(h) ==
  /\ handle[h] = "stale" \/ (handle[h] = "read" /\ conn = "closed")
  /\ handle' = [handle EXCEPT ![h] = "none"]
  /\ UNCHANGED <<conn, sessions, on, start, stop, remote, added, panic>>
-----------------------------------------------------------------------------
(* Nothing follows a panic. *)
Next ==
  /\ panic = FALSE
  /\ \/ \E c \in Sources : \/ Start(c) \/ ExchangeEndpoints(c) \/ SetStreamConfig(c)
                            \/ NewStreamFails(c) \/ AddSessions(c) \/ Stop(c)
     \/ \E c \in Controllers : SetConfig(c) \/ WriteRTP(c)
     \/ \E h \in Readers : Loop(h) \/ Receive(h) \/ ReadFails(h)

(* However Start and Stop of several clients meet: the sessions are on the *)
(* server's own socket, which is open and which a goroutine reads, and the *)
(* socket is open only while there are sessions.                           *)
Served ==
  panic = FALSE =>
    /\ \A s \in sessions : on[s] = "here"
    /\ (conn = "open") = (sessions # {})
    /\ sessions # {} => \E h \in Readers : handle[h] \in {"loop", "read"}
=============================================================================
