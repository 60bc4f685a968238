----------------------------- MODULE SourceLink -----------------------------
(***************************************************************************)
(* What the producers of a stream promise to the sources they dial         *)
(* (cameras, child processes, other servers): each producer has one live   *)
(* connection at most, or two while a replacement takes over, and a        *)
(* connection that has been stopped is never used again.                   *)
(***************************************************************************)
EXTENDS Integers

CONSTANTS Producers, Conns   (* connections are numbered as they are opened *)

VARIABLES
  link,   (* link[p]: the connections producer p has open *)
  used    (* every connection ever opened                 *)

Init == link = [p \in Producers |-> {}] /\ used = {}

OpenLink(p, n) ==
  /\ n \in Conns \ used
  /\ used' = used \cup {n}
  /\ link' = [link EXCEPT ![p] = @ \cup {n}]

(* The first consumer's demand. *)
Connect(p) == link[p] = {} /\ \E n \in Conns : OpenLink(p, n)

(* A replacement, opened before the current connection is given up ... *)
Overlap(p) ==
  \E old \in Conns : link[p] = {old} /\ \E n \in Conns : old < n /\ OpenLink(p, n)

(* ... and it is the older one that goes. *)
HandOver(p) ==
  /\ \E old, new \in link[p] : old < new /\ link' = [link EXCEPT ![p] = {new}]
  /\ UNCHANGED used

(* Nobody wants the source any more. *)
Disconnect(p) ==
  /\ \E old \in Conns : link[p] = {old} /\ link' = [link EXCEPT ![p] = {}]
  /\ UNCHANGED used

Next == \E p \in Producers : Connect(p) \/ Overlap(p) \/ HandOver(p) \/ Disconnect(p)

Spec == Init /\ [][Next]_<<link, used>>
=============================================================================
