------------------------------ MODULE RtspServer ------------------------------
(* The RTSP server: tcpHandler of internal/rtsp over Accept and Handle of  *)
(* pkg/rtsp, and the exec source (internal/exec), whose child process      *)
(* feeds go2rtc through it.                                                *)
(*                                                                         *)
(* Every connection has a goroutine in tcpHandler.  A client that          *)
(* DESCRIBEs becomes a consumer of the stream, one that ANNOUNCEs a        *)
(* producer; the listener sets closer, which takes it out again.  An exec  *)
(* dial registers a channel under the hash of its URL, starts the child    *)
(* and waits: for a connection on that path, for the end of the child, or  *)
(* for 30 seconds.  The exec handler passes the connection to whoever is   *)
(* registered when the child has finished RECORD.                          *)
(*                                                                         *)
(* The dials are those of one URL, by the producers of one stream, in      *)
(* turn or, when the URL is listed twice, at once; each holds its          *)
(* producer's mutex.  AddConsumer goes through all the producers, so a     *)
(* consumer waits while any dial runs, also one that is the dial's own     *)
(* child, reading the stream it is to feed.  Clients send requests in the  *)
(* order that Accept lists and may break off anywhere.                     *)
EXTENDS Naturals

CONSTANTS
  Dials,      (* calls of execHandle: each names its child and the         *)
              (* connection on which the child feeds                       *)
  Clients,    (* other connections to the RTSP server                      *)
  Input,      (* for each dial, the client its child reads from, or None   *)
  None

ASSUME RtspServerAssumption == None \notin Dials

VARIABLES
  dial,       (* where each execHandle is, then its producer               *)
  waiter,     (* waiters[path]: the dial registered                        *)
  chan,       (* the connection each dial's channel holds                  *)
  fed,        (* the connection each dial has returned                     *)
  child,      (* the child process of each dial                            *)
  cancelled,  (* its context: cmd.Done is closed, the process is killed    *)
  conn,       (* where each connection's tcpHandler is                     *)
  role,       (* what its peer does: play, publish, or feed a dial         *)
  peer,       (* a client is there or has gone                             *)
  found,      (* the waiter the exec handler has looked up for it          *)
  listed,     (* the connections that are consumers or producers           *)
  closer      (* those whose closer is set                                 *)

exec   == <<dial, waiter, chan, fed, child, cancelled>>
server == <<conn, role, peer, found, listed, closer>>
vars   == <<exec, server>>

Conns  == Dials \cup Clients
InDial == {"starting", "waiting", "failing", "taking"}

Init ==
  /\ dial = [d \in Dials |-> "new"] /\ waiter = None
  /\ chan = [d \in Dials |-> None] /\ fed = [d \in Dials |-> None]
  /\ child = [d \in Dials |-> "none"] /\ cancelled = [d \in Dials |-> FALSE]
  /\ conn = [c \in Conns |-> "none"] /\ role = [c \in Conns |-> "feed"]
  /\ peer = [c \in Clients |-> "there"] /\ found = [c \in Dials |-> None]
  /\ listed = {} /\ closer = {}
-----------------------------------------------------------------------------
(* execHandle and handleRTSP. *)

Goto(d, from, to) == dial[d] = from /\ dial' = [dial EXCEPT ![d] = to]
Cancel(d) == cancelled' = [cancelled EXCEPT ![d] = TRUE]

(* A dial of the same URL replaces the channel of an earlier one. *)
Register(d) ==
  /\ Goto(d, "new", "starting") /\ waiter' = d
  /\ UNCHANGED <<chan, fed, child, cancelled, server>>

Launch(d) ==
  /\ Goto(d, "starting", "waiting") /\ child' = [child EXCEPT ![d] = "run"]
  /\ UNCHANGED <<waiter, chan, fed, cancelled, server>>

LaunchFails(d) ==
  /\ Goto(d, "starting", "failing")
  /\ UNCHANGED <<waiter, chan, fed, child, cancelled, server>>

(* Mutant: the timer starts when the child has connected. *)
TimeoutLate(d) ==
  /\ Goto(d, "waiting", "failing") /\ conn[d] # "none"
  /\ UNCHANGED <<waiter, chan, fed, child, cancelled, server>>
(* The three cases of the select. *)
Timeout(d) ==
  /\ Goto(d, "waiting", "failing")
  /\ UNCHANGED <<waiter, chan, fed, child, cancelled, server>>

ChildFailed(d) ==
  /\ Goto(d, "waiting", "failing") /\ cancelled[d]
  /\ UNCHANGED <<waiter, chan, fed, child, cancelled, server>>

Receive(d) ==
  /\ Goto(d, "waiting", "taking") /\ chan[d] # None
  /\ fed' = [fed EXCEPT ![d] = chan[d]] /\ chan' = [chan EXCEPT ![d] = None]
  /\ UNCHANGED <<waiter, child, cancelled, server>>

(* Mutant: the child of a dial that failed is left alone. *)
ReturnOnly(d) ==
  /\ waiter' = None
  /\ Goto(d, "failing", "failed") \/ Goto(d, "taking", "feeding")
  /\ UNCHANGED <<chan, fed, child, cancelled, server>>
(* The deferred delete, whoever is registered now, and cmd.Close when the  *)
(* dial failed.                                                            *)
Unregister(d) ==
  /\ waiter' = None
  /\ \/ Goto(d, "failing", "failed") /\ Cancel(d)
     \/ Goto(d, "taking", "feeding") /\ UNCHANGED cancelled
  /\ UNCHANGED <<chan, fed, child, server>>

(* The producer is stopped: Conn.Close, with cmd.Close as OnClose. *)
Stop(d) ==
  /\ Goto(d, "feeding", "stopped") /\ Cancel(d)
  /\ conn' = [conn EXCEPT ![fed[d]] = "closed"]
  /\ UNCHANGED <<waiter, chan, fed, child, role, peer, found, listed, closer>>

(* The child ends, killed or not; Wait returns and cancels the context. *)
Exit(d) ==
  /\ child[d] = "run" /\ child' = [child EXCEPT ![d] = "dead"] /\ Cancel(d)
  /\ UNCHANGED <<dial, waiter, chan, fed, server>>
-----------------------------------------------------------------------------
(* tcpHandler and Accept. *)

At(c, from, to) == conn[c] = from /\ conn' = [conn EXCEPT ![c] = to]
Reads(c) == {d \in Dials : Input[d] = c}
There(c) ==
  IF c \in Dials THEN child[c] = "run"
  ELSE peer[c] = "there" /\ \A d \in Reads(c) : child[d] = "run"

(* A child opens its input before its output. *)
Connect(c) ==
  /\ At(c, "none", "open") /\ There(c)
  /\ c \in Dials /\ Input[c] # None => conn[Input[c]] = "handle"
  /\ \E r \in {"play", "publish", "feed"} :
       /\ r = "feed" <=> c \in Dials
       /\ c \in Clients /\ Reads(c) # {} => r = "play"
       /\ role' = [role EXCEPT ![c] = r]
  /\ UNCHANGED <<exec, peer, found, listed, closer>>

(* Mutant: tcpHandler only closes the connection. *)
AcceptFailsOnly(c) ==
  /\ conn[c] \in {"open", "setup"} /\ conn' = [conn EXCEPT ![c] = "closed"]
  /\ UNCHANGED <<exec, role, peer, found, listed, closer>>
(* The peer is gone, or its request is refused. *)
AcceptFails(c) ==
  /\ conn[c] \in {"open", "setup"} /\ conn' = [conn EXCEPT ![c] = "closed"]
  /\ listed' = listed \ (closer \cap {c})
  /\ UNCHANGED <<exec, role, peer, found, closer>>

Describe(c) ==
  /\ role[c] = "play" /\ At(c, "open", "adding")
  /\ UNCHANGED <<exec, role, peer, found, listed, closer>>

(* AddConsumer, once it has every producer's mutex; with no sender, also   *)
(* when it takes a backchannel only, the answer is 404 and Accept returns. *)
Add(c) ==
  /\ \A d \in Dials : dial[d] \notin InDial
  /\ \/ /\ At(c, "adding", "setup") \/ At(c, "adding", "ended")
        /\ listed' = listed \cup {c} /\ closer' = closer \cup {c}
     \/ At(c, "adding", "ended") /\ UNCHANGED <<listed, closer>>
  /\ UNCHANGED <<exec, role, peer, found>>

(* The path may be no stream's: that of a child never is. *)
Announce(c) ==
  /\ role[c] \in {"publish", "feed"} /\ At(c, "open", "setup")
  /\ \/ /\ c \in Clients
        /\ listed' = listed \cup {c} /\ closer' = closer \cup {c}
     \/ UNCHANGED <<listed, closer>>
  /\ UNCHANGED <<exec, role, peer, found>>

(* PLAY or RECORD. *)
Play(c) ==
  /\ At(c, "setup", "ended")
  /\ UNCHANGED <<exec, role, peer, found, listed, closer>>

Teardown(c) ==
  /\ c \in Clients /\ Reads(c) = {}
  /\ At(c, "setup", "ended") /\ peer' = [peer EXCEPT ![c] = "gone"]
  /\ UNCHANGED <<exec, role, found, listed, closer>>

(* The exec handler finds a waiter on the path, or there is none. *)
Find(c) ==
  /\ c \in Dials /\ waiter # None
  /\ At(c, "ended", "found") /\ found' = [found EXCEPT ![c] = waiter]
  /\ UNCHANGED <<exec, role, peer, listed, closer>>

FindNone(c) ==
  /\ c \in Dials => waiter = None
  /\ At(c, "ended", IF c \in closer THEN "handle" ELSE "closed")
  /\ UNCHANGED <<exec, role, peer, found, listed, closer>>

(* The send that does not block, after the mutex is released. *)
HandOver(c) ==
  /\ c \in Dials
  /\ \/ /\ At(c, "found", "passed") /\ chan[found[c]] = None
        /\ chan' = [chan EXCEPT ![found[c]] = c]
     \/ At(c, "found", "closed") /\ chan[found[c]] # None /\ UNCHANGED chan
  /\ UNCHANGED <<dial, waiter, fed, child, cancelled, role, peer, found, listed, closer>>

(* Handle returns: the peer is gone, or was silent for too long. *)
EndHandle(c) ==
  /\ At(c, "handle", "closed") /\ listed' = listed \ {c}
  /\ UNCHANGED <<exec, role, peer, found, closer>>

(* A client breaks off; a child does so when it ends. *)
Leave(c) ==
  /\ c \in Clients /\ Reads(c) = {} /\ conn[c] \notin {"none", "closed"} /\ peer[c] = "there"
  /\ peer' = [peer EXCEPT ![c] = "gone"]
  /\ UNCHANGED <<exec, conn, role, found, listed, closer>>
-----------------------------------------------------------------------------
Returns(d) == Launch(d) \/ Timeout(d) \/ ChildFailed(d) \/ Receive(d) \/ Unregister(d)
Goes(c)    == Add(c) \/ Find(c) \/ FindNone(c) \/ HandOver(c)
Breaks(c)  == ~There(c) /\ (AcceptFails(c) \/ EndHandle(c))

Next ==
  \/ \E d \in Dials : Register(d) \/ LaunchFails(d) \/ Returns(d) \/ Stop(d) \/ Exit(d)
  \/ \E c \in Conns : \/ Connect(c) \/ AcceptFails(c) \/ Describe(c) \/ Announce(c)
                      \/ Play(c) \/ Teardown(c) \/ Goes(c) \/ EndHandle(c) \/ Leave(c)

Spec == Init /\ [][Next]_vars

(* Goroutines run, the timer fires, a killed child ends, and a connection  *)
(* whose peer is gone gives an error.  Nobody has to connect, to ask or to *)
(* stop.                                                                   *)
FairSpec ==
  /\ Spec
  /\ \A d \in Dials : WF_vars(Returns(d)) /\ WF_vars(cancelled[d] /\ Exit(d))
  /\ \A c \in Conns : WF_vars(Goes(c)) /\ WF_vars(Breaks(c))
-----------------------------------------------------------------------------
(* The types of the exec source's state. *)
ExecTypeOK ==
  /\ dial \in [Dials -> InDial \cup {"new", "failed", "feeding", "stopped"}]
  /\ child \in [Dials -> {"none", "run", "dead"}]
  /\ cancelled \in [Dials -> BOOLEAN]

(* No child process runs for nobody: unless it is being killed, its dial   *)
(* waits for it or has returned a connection whose Close will kill it,     *)
(* also when dials of the same URL take each other's waiters and           *)
(* connections.                                                            *)
NoStrayChild ==
  \A d \in Dials : child[d] = "run" /\ ~cancelled[d] => dial[d] \in {"waiting", "failing", "taking", "feeding"}

(* The dial waits for a child that waits to read the stream the dial       *)
(* holds: nobody waits for ever, neither the dial nor a consumer.          *)
EverybodyReturns ==
  /\ \A d \in Dials : []<>(dial[d] \notin InDial)
  /\ \A c \in Clients : []<>(conn[c] # "adding")

(* A client that goes, wherever it is in the protocol, also while it is    *)
(* being added, is in the end no consumer and no producer of the stream.   *)
ClientsGone ==
  \A c \in Clients :
    []<>(conn[c] # "none" /\ ~There(c) => c \notin listed /\ conn[c] = "closed")
=============================================================================
