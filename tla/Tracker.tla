------------------------------- MODULE Tracker -------------------------------
(***************************************************************************)
(* The shares of a WebTorrent tracker: the Serve loops of the server       *)
(* (pkg/webtorrent/server.go) and the Worker of each connection, which     *)
(* announces the shares (pkg/core/worker.go).                              *)
(*                                                                         *)
(* AddShare, RemoveShare and the announcing run under s.mu; s.announce is  *)
(* written without it.  A share is the name that AddShare gets; every call *)
(* brings a new one.  AddShare starts a loop whenever it finds no share,   *)
(* also while an earlier loop has not seen that there was none.            *)
(***************************************************************************)
EXTENDS Naturals

CONSTANTS
  Shares,     (* the names of the shares                                   *)
  Loops,      (* Serve loops: as many as there may be first shares         *)
  NoLoop,
  MaxDrops    (* bound: how often the tracker refuses or drops one         *)

VARIABLES
  shares,     (* s.shares                                                  *)
  spent,      (* names that were given                                     *)
  announce,   (* the loop that has made s.announce                         *)
  loop,       (* where each Serve loop is                                  *)
  ws,         (* its connection                                            *)
  worker,     (* its Worker: waits for its timer, has been fired, runs f,  *)
              (* has run it, or has ended                                  *)
  sent,       (* the shares announced on the connection                    *)
  drops

tracker == <<shares, spent, announce, loop, ws, worker, sent, drops>>

Init ==
  /\ shares = {} /\ spent = {} /\ announce = NoLoop /\ drops = 0
  /\ loop = [l \in Loops |-> "off"] /\ ws = [l \in Loops |-> "none"]
  /\ worker = [l \in Loops |-> "end"] /\ sent = [l \in Loops |-> {}]

Goto(l, from, to) == loop[l] = from /\ loop' = [loop EXCEPT ![l] = to]

(* Worker.Do: a timer that is reset while f runs is set again after it. *)
Do(w) == IF w \in Loops /\ worker[w] = "wait" THEN [worker EXCEPT ![w] = "fired"] ELSE worker

(* Worker.Stop: the channel is not read while f runs. *)
Stop(w) == IF worker[w] = "wait" THEN [worker EXCEPT ![w] = "end"] ELSE worker
-----------------------------------------------------------------------------
(* go s.Serve() for the first share *)
Started(l) ==
  IF shares = {} THEN Goto(l, "off", "check") ELSE UNCHANGED loop

(* Mutant of AddShare: the share is stored before the test. *)
AddShareFirst(s, l) ==
  /\ s \notin spent /\ spent' = spent \cup {s}
  /\ shares' = shares \cup {s}
  /\ IF shares' = {} THEN Goto(l, "off", "check") ELSE UNCHANGED loop
  /\ worker' = Do(announce)
  /\ UNCHANGED <<announce, ws, sent, drops>>

AddShare(s, l) ==
  /\ s \notin spent /\ spent' = spent \cup {s}
  /\ Started(l)
  /\ shares' = shares \cup {s}
  /\ worker' = Do(announce)
  /\ UNCHANGED <<announce, ws, sent, drops>>

RemoveShare(s) ==
  /\ s \in shares /\ shares' = shares \ {s}
  /\ UNCHANGED <<spent, announce, loop, ws, worker, sent, drops>>
-----------------------------------------------------------------------------
(* Serve *)
HasShares(l) ==
  /\ Goto(l, "check", IF shares = {} THEN "gone" ELSE "dial")
  /\ UNCHANGED <<shares, spent, announce, ws, worker, sent, drops>>

Dial(l) ==
  /\ Goto(l, "dial", "read")
  /\ ws' = [ws EXCEPT ![l] = "open"] /\ sent' = [sent EXCEPT ![l] = {}]
  /\ announce' = l /\ worker' = [worker EXCEPT ![l] = "fired"]
  /\ UNCHANGED <<shares, spent, drops>>

DialFails(l) ==
  /\ Goto(l, "dial", "sleep") /\ drops < MaxDrops /\ drops' = drops + 1
  /\ UNCHANGED <<shares, spent, announce, ws, worker, sent>>

(* The connection is closed by the tracker, or lost. *)
Drop(l) ==
  /\ ws[l] = "open" /\ ws' = [ws EXCEPT ![l] = "lost"]
  /\ drops < MaxDrops /\ drops' = drops + 1
  /\ UNCHANGED <<shares, spent, announce, loop, worker, sent>>

(* The reader fails; whose Worker is stopped is not said. *)
ReadFails(l) ==
  /\ ws[l] \in {"lost", "closed"} /\ Goto(l, "read", "sleep")
  /\ worker' = Stop(announce)
  /\ ws' = [ws EXCEPT ![l] = "closed"]
  /\ UNCHANGED <<shares, spent, announce, sent, drops>>

Wake(l) ==
  /\ Goto(l, "sleep", "check")
  /\ UNCHANGED <<shares, spent, announce, ws, worker, sent, drops>>
-----------------------------------------------------------------------------
(* The goroutine of the Worker; f is the writer.  A Worker that is left    *)
(* over from an earlier connection of the loop only meets an error.        *)
Fire(l) ==
  /\ worker[l] = "wait" /\ worker' = [worker EXCEPT ![l] = "fired"]
  /\ UNCHANGED <<shares, spent, announce, loop, ws, sent, drops>>

Writer(l) ==
  /\ worker[l] = "fired"
  /\ IF shares = {}
     THEN /\ ws' = [ws EXCEPT ![l] = "closed"]
          /\ worker' = [worker EXCEPT ![l] = IF ws[l] = "closed" THEN "end" ELSE "ran"]
          /\ UNCHANGED sent
     ELSE /\ \/ ws[l] # "closed" /\ worker' = [worker EXCEPT ![l] = "ran"]
             \/ ws[l] # "open" /\ worker' = [worker EXCEPT ![l] = "end"]
          /\ sent' = [sent EXCEPT ![l] = IF ws[l] = "open" THEN shares ELSE @]
          /\ UNCHANGED ws
  /\ UNCHANGED <<shares, spent, announce, loop, drops>>

Reset(l) ==
  /\ worker[l] = "ran" /\ worker' = [worker EXCEPT ![l] = "wait"]
  /\ UNCHANGED <<shares, spent, announce, loop, ws, sent, drops>>

Serve(l) == HasShares(l) \/ Dial(l) \/ ReadFails(l) \/ Wake(l)
Announces(l) == Fire(l) \/ Writer(l) \/ Reset(l)

Next ==
  \/ \E s \in Shares : RemoveShare(s) \/ \E l \in Loops : AddShare(s, l)
  \/ \E l \in Loops : DialFails(l) \/ Drop(l) \/ Serve(l) \/ Announces(l)
-----------------------------------------------------------------------------
(* However often the tracker drops the connections, loops overlap and one  *)
(* stops the Worker of another: a share that stays is announced, again and *)
(* again, on a connection that is open.                                    *)
Announced ==
  \A s \in Shares :
    []<>(s \in shares => \E l \in Loops : ws[l] = "open" /\ s \in sent[l])
=============================================================================
