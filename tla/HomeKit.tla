------------------------------ MODULE HomeKit -------------------------------
(***************************************************************************)
(* go2rtc as a HomeKit camera (internal/homekit/server.go, pkg/homekit):   *)
(* controllers, each with a connection and a goroutine that answers it,    *)
(* set up, start and end sessions of video.  All use one s.consumer and    *)
(* one list s.conns, which an End walks without the mutex.  A consumer     *)
(* writes until a timer fires that every packet resets.                    *)
(*                                                                         *)
(* Pairing, the answer to an offer, the other characteristics and the      *)
(* proxy are left out; the SRTP sessions are in Srtp, the stream is in     *)
(* Streams.  A controller names the session it set up last; the names      *)
(* differ, so that a session is its Consumer.  Since Go 1.23 a Reset takes *)
(* back a value of the timer that has not been received.                   *)
(***************************************************************************)
EXTENDS Naturals, Functions

CONSTANTS
  Phones,        (* the controllers                                        *)
  Consumers,     (* what SetupEndpoints makes; the bound on its calls      *)
  MaxConnects,   (* bound: connections of all controllers                  *)
  MaxStarts,     (* bound: Starts of all sessions                          *)
  None

VARIABLES
  at,            (* where the goroutine of the controller's connection is  *)
  up,            (* whether that connection is open                        *)
  connects,
  want,          (* the session that the controller set up last            *)
  consumer,      (* s.consumer                                             *)
  owner,         (* Consumer.conn: whose connection, while it is the same  *)
  starts,
  conns,         (* s.conns: how often the Consumer is in it               *)
  missed,        (* those under whose walk s.conns was moved               *)
  timer,         (* Consumer.deadline                                      *)
  feed,          (* the Sender that resets the timer                       *)
  listed,        (* how often the Consumer is in the stream's consumers    *)
  run            (* the goroutine of a Start, in WriteTo and after it      *)

hkVars == <<at, up, connects, want, consumer, owner, starts, conns, missed, timer,
            feed, listed, run>>

Init ==
  /\ at = [p \in Phones |-> "off"]
  /\ up = [p \in Phones |-> FALSE]
  /\ connects = 0
  /\ want = [p \in Phones |-> None]
  /\ consumer = None
  /\ owner = [k \in Consumers |-> None]
  /\ starts = [k \in Consumers |-> 0]
  /\ conns = [k \in Consumers |-> 0]
  /\ missed = {}
  /\ timer = [k \in Consumers |-> "none"]
  /\ feed = [k \in Consumers |-> "none"]
  /\ listed = [k \in Consumers |-> 0]
  /\ run = [k \in Consumers |-> [i \in 1 .. MaxStarts |-> "none"]]

Goto(p, phase) == at' = [at EXCEPT ![p] = phase]
Asks(p) == at[p] = "idle" /\ up[p] = TRUE

(* slices.Delete moves the elements while others may walk over them. *)
Moved == missed' = {p \in Phones : at[p] = "walk"}
-----------------------------------------------------------------------------
(* Handle, after PairVerify *)
Connect(p) ==
  /\ at[p] = "off" /\ connects < MaxConnects
  /\ connects' = connects + 1
  /\ up' = [up EXCEPT ![p] = TRUE]
  /\ Goto(p, "idle")
  /\ UNCHANGED <<want, consumer, owner, starts, conns, missed, timer, feed, listed, run>>

(* The controller sleeps, or its network fails. *)
Disconnect(p) ==
  /\ up[p] = TRUE /\ up' = [up EXCEPT ![p] = FALSE]
  /\ UNCHANGED <<at, connects, want, consumer, owner, starts, conns, missed, timer,
                 feed, listed, run>>

(* The next request cannot be read: DelConn and conn.Close. *)
Leave(p) ==
  /\ at[p] = "idle" /\ up[p] = FALSE
  /\ Goto(p, "off") /\ Moved
  /\ want' = [want EXCEPT ![p] = None]
  /\ owner' = [k \in Consumers |-> IF owner[k] = p THEN None ELSE owner[k]]
  /\ UNCHANGED <<up, connects, consumer, starts, conns, timer, feed, listed, run>>

(* SetCharacteristic(TypeSetupEndpoints): NewConsumer, SetOffer.  What     *)
(* nobody remembers, and was never started, is as good as new.             *)
Made == {k \in Consumers : k = consumer \/ starts[k] > 0 \/ \E p \in Phones : want[p] = k}
SetupEndpoints(p) ==
  /\ Asks(p)
  /\ \E k \in Consumers \ Made :
       /\ consumer' = k
       /\ owner' = [owner EXCEPT ![k] = p]
       /\ want' = [want EXCEPT ![p] = k]
  /\ UNCHANGED <<at, up, connects, starts, conns, missed, timer, feed, listed, run>>

(* SetCharacteristic(TypeSelectedStreamConfiguration), a Start: SetConfig  *)
(* refuses the session of another Consumer.                                *)
SetConfig(p) ==
  /\ Asks(p) /\ want[p] # None /\ consumer = want[p]
  /\ FoldFunction(+, 0, starts) < MaxStarts
  /\ starts' = [starts EXCEPT ![consumer] = @ + 1]
  /\ Goto(p, "conn")
  /\ UNCHANGED <<up, connects, want, consumer, owner, conns, missed, timer, feed, listed,
                 run>>

AddConn(p) ==
  /\ at[p] = "conn" /\ Goto(p, "add")
  /\ conns' = [conns EXCEPT ![want[p]] = @ + 1]
  /\ UNCHANGED <<up, connects, want, consumer, owner, starts, missed, timer, feed,
                 listed, run>>

(* AddTrack makes the timer, and the Sender that resets it, once.  What    *)
(* cannot be added stays in s.conns.                                       *)
AddConsumer(p) ==
  /\ at[p] = "add" /\ Goto(p, "idle")
  /\ LET k == want[p] IN
     \/ /\ IF timer[k] = "none"
           THEN timer' = [timer EXCEPT ![k] = "armed"] /\ feed' = [feed EXCEPT ![k] = "on"]
           ELSE UNCHANGED <<timer, feed>>
        /\ listed' = [listed EXCEPT ![k] = @ + 1]
        /\ \E i \in 1 .. MaxStarts :
             /\ run[k][i] = "none" /\ \A j \in 1 .. i - 1 : run[k][j] # "none"
             /\ run' = [run EXCEPT ![k][i] = "wait"]
     \/ UNCHANGED <<timer, feed, listed, run>>
  /\ UNCHANGED <<up, connects, want, consumer, owner, starts, conns, missed>>

(* An End ranges over s.conns as it is now. *)
End(p) ==
  /\ Asks(p) /\ want[p] # None /\ Goto(p, "walk") /\ missed' = missed \ {p}
  /\ UNCHANGED <<up, connects, want, consumer, owner, starts, conns, timer, feed,
                 listed, run>>

NotFound(p) ==
  /\ at[p] = "walk" /\ (conns[want[p]] = 0 \/ p \in missed) /\ Goto(p, "idle")
  /\ want' = [want EXCEPT ![p] = None]
  /\ UNCHANGED <<up, connects, consumer, owner, starts, conns, missed, timer, feed,
                 listed, run>>
-----------------------------------------------------------------------------
(* Consumer.Stop: the timer fires now; then Connection.Stop closes the     *)
(* senders, which handle what they have queued, and the connection.        *)
Fires(k) == timer' = [timer EXCEPT ![k] = IF @ = "none" THEN "none" ELSE "fired"]

Closes(k) ==
  /\ feed' = [feed EXCEPT ![k] = IF @ = "on" THEN "queue" ELSE @]
  /\ up' = [p \in Phones |-> up[p] = TRUE /\ owner[k] # p]

Found(p) ==
  /\ at[p] = "walk" /\ conns[want[p]] > 0 /\ Goto(p, "close") /\ Fires(want[p])
  /\ UNCHANGED <<up, connects, want, consumer, owner, starts, conns, missed, feed, listed, run>>

StopEnds(p) ==
  /\ at[p] = "close" /\ Goto(p, "idle") /\ Closes(want[p])
  /\ want' = [want EXCEPT ![p] = None]
  /\ UNCHANGED <<connects, consumer, owner, starts, conns, missed, timer, listed, run>>

(* Handler of the first track: a packet resets the timer. *)
Packet(k) ==
  /\ feed[k] \in {"on", "queue"} /\ timer[k] # "armed"
  /\ timer' = [timer EXCEPT ![k] = "armed"]
  /\ UNCHANGED <<at, up, connects, want, consumer, owner, starts, conns, missed, feed,
                 listed, run>>

Drained(k) ==
  /\ feed[k] = "queue" /\ feed' = [feed EXCEPT ![k] = "none"]
  /\ UNCHANGED <<at, up, connects, want, consumer, owner, starts, conns, missed, timer,
                 listed, run>>

(* No packet for ConnDeadline *)
Expire(k) ==
  /\ timer[k] = "armed" /\ timer' = [timer EXCEPT ![k] = "fired"]
  /\ UNCHANGED <<at, up, connects, want, consumer, owner, starts, conns, missed, feed,
                 listed, run>>

(* WriteTo takes the value of the timer; RemoveConsumer's Stop lets it     *)
(* fire again, for another goroutine of this Consumer.                     *)
Step(k, i, from, to) == run[k][i] = from /\ run' = [run EXCEPT ![k][i] = to]

WriteTo(k, i) ==
  /\ Step(k, i, "wait", "remove") /\ timer[k] = "fired"
  /\ timer' = [timer EXCEPT ![k] = "spent"]
  /\ UNCHANGED <<at, up, connects, want, consumer, owner, starts, conns, missed, feed, listed>>

(* Mutant of RemoveConsumer: it does not call Stop. *)
RemoveConsumerOnly(k, i) ==
  /\ Step(k, i, "remove", "conn")
  /\ listed' = [listed EXCEPT ![k] = @ - 1]
  /\ UNCHANGED <<at, up, connects, want, consumer, owner, starts, conns, missed, timer, feed>>

RemoveConsumer(k, i) ==
  /\ Step(k, i, "remove", "conn") /\ Fires(k) /\ Closes(k)
  /\ listed' = [listed EXCEPT ![k] = @ - 1]
  /\ UNCHANGED <<at, connects, want, consumer, owner, starts, conns, missed>>

DelConn(k, i) ==
  /\ Step(k, i, "conn", "none") /\ Moved
  /\ conns' = [conns EXCEPT ![k] = @ - 1]
  /\ UNCHANGED <<at, up, connects, want, consumer, owner, starts, timer, feed, listed>>
-----------------------------------------------------------------------------
Handles(p) == AddConn(p) \/ AddConsumer(p) \/ Found(p) \/ NotFound(p) \/ StopEnds(p)
Writes(k, i) == WriteTo(k, i) \/ RemoveConsumer(k, i) \/ DelConn(k, i)

Next ==
  \/ \E p \in Phones :
       \/ Connect(p) \/ Disconnect(p) \/ Leave(p) \/ SetupEndpoints(p)
       \/ SetConfig(p) \/ End(p) \/ Handles(p)
  \/ \E k \in Consumers :
       \/ Packet(k) \/ Drained(k) \/ Expire(k)
       \/ \E i \in 1 .. MaxStarts : Writes(k, i)

(* A session that plays is one that an End finds: it is in s.conns as      *)
(* often, at least, as it is in the stream, and it leaves the stream no    *)
(* more often than it came.                                                *)
Findable == \A k \in Consumers : 0 <= listed[k] /\ listed[k] <= conns[k]

(* A session that plays is found by an End.  And when one is stopped,      *)
(* whatever packets are still queued and however often it was started, all *)
(* its goroutines return and it leaves the stream.                         *)
EndsPlay ==
  /\ []Findable
  /\ \A k \in Consumers :
       (\E p \in Phones : at[p] = "close" /\ want[p] = k)
         ~> (listed[k] = 0 /\ \A i \in 1 .. MaxStarts : run[k][i] = "none")
=============================================================================
