-------------------------------- MODULE Node --------------------------------
(***************************************************************************)
(* The children of a core.Receiver (pkg/core/node.go, track.go): the       *)
(* goroutine that reads a source hands every packet to the children, while *)
(* other goroutines attach senders, close them, or close the receiver.     *)
(*                                                                         *)
(* r.childs is a Go slice.  Input and Close walk over it as it was when    *)
(* they began, without the mutex, while RemoveChild moves the elements     *)
(* down in the same array and AppendChild writes behind the last one or,   *)
(* when the array is full, moves to a new one of twice the size.  mem has  *)
(* every array, with Nobody in the places that were never used.            *)
(*                                                                         *)
(* What the child does with the packet is in Sender.                       *)
(***************************************************************************)
EXTENDS Naturals, Sequences

CONSTANTS
  Senders,
  Closers,     (* goroutines that close a sender or the receiver           *)
  MaxPackets,  (* bound: packets of the source                             *)
  Nobody

ASSUME NodeAssumption == MaxPackets \in Nat /\ Nobody \notin Senders

VARIABLES
  mem,      (* the arrays; the last one is that of r.childs                *)
  len,      (* len(r.childs)                                               *)
  place,    (* what each consumer has done with its sender; its parent     *)
            (* field is set when it is bound                               *)
  walk,     (* the source's goroutine in Receiver.Input                    *)
  closer    (* the goroutines in Sender.Close or Receiver.Close            *)

vars == <<mem, len, place, walk, closer>>

Current == Len(mem)
Childs == {mem[Current][i] : i \in 1 .. len}

(* A walk over r.childs keeps the array and the length it began with. *)
Whole == [at |-> Current, end |-> len, next |-> 1]

(* gone: the senders that had left when the packet came; fed: who got it.  *)
Outside ==
  [in |-> FALSE, pkt |-> 0, over |-> [at |-> 1, end |-> 0, next |-> 1],
   gone |-> {}, fed |-> <<>>]

(* stack: the walks of the nested Node.Close calls; others: who else was   *)
(* attached when this sender left.                                         *)
Away == [at |-> "new", of |-> Nobody, stack |-> <<>>, others |-> {}]

Init ==
  /\ mem = <<<<>>>>
  /\ len = 0
  /\ place = [s \in Senders |-> "new"]
  /\ walk = Outside
  /\ closer = [k \in Closers |-> Away]
-----------------------------------------------------------------------------
(* The slice. *)

(* A bigger array with the old elements. *)
Grown(a) == IF a = <<>> THEN <<Nobody>> ELSE a \o [i \in 1 .. Len(a) |-> Nobody]

(* n.childs = append(n.childs, child) *)
Add(s) ==
  LET a == mem[Current] IN
  /\ len' = len + 1
  /\ mem' = IF len < Len(a) THEN [mem EXCEPT ![Current][len + 1] = s]
                            ELSE Append(mem, [Grown(a) EXCEPT ![len + 1] = s])

(* Mutant of Remove: the last child is cut off. *)
RemoveLast(s) ==
  /\ len' = len - 1
  /\ UNCHANGED <<mem, walk>>

(* n.childs = append(n.childs[:i], n.childs[i+1:]...), in the same array *)
Remove(s) ==
  LET a == mem[Current] IN
  /\ UNCHANGED walk
  /\ \/ s \notin Childs /\ UNCHANGED <<mem, len>>
     \/ \E i \in 1 .. len :
          /\ a[i] = s
          /\ mem' = [mem EXCEPT ![Current] =
                       [j \in 1 .. Len(a) |-> IF j \in i .. len - 1 THEN a[j + 1] ELSE a[j]]]
          /\ len' = len - 1
-----------------------------------------------------------------------------
(* Receiver.Input. *)

Left(s) == \E k \in Closers : closer[k].of = s

(* "range r.childs" fixes the array and the length. *)
Input ==
  /\ ~ walk.in /\ walk.pkt < MaxPackets
  /\ walk' = [in |-> TRUE, pkt |-> walk.pkt + 1, over |-> Whole,
              gone |-> {s \in Senders : Left(s)}, fed |-> <<>>]
  /\ UNCHANGED <<mem, len, place, closer>>

(* child.Input(packet) for the element that is in the array now. *)
Feed ==
  LET w == walk.over IN
  /\ walk.in /\ w.next <= w.end
  /\ walk' = [walk EXCEPT !.over.next = @ + 1, !.fed = Append(@, mem[w.at][w.next])]
  /\ UNCHANGED <<mem, len, place, closer>>

Fed ==
  /\ walk.in /\ walk.over.next > walk.over.end
  /\ walk' = [Outside EXCEPT !.pkt = walk.pkt]
  /\ UNCHANGED <<mem, len, place, closer>>
-----------------------------------------------------------------------------
(* Attaching: AppendChild under the receiver's mutex ... *)
Attach(s) ==
  /\ place[s] = "new"
  /\ place' = [place EXCEPT ![s] = "appended"]
  /\ Add(s)
  /\ UNCHANGED <<walk, closer>>

(* ... and child.parent = n after it. *)
SetParent(s) ==
  /\ place[s] = "appended"
  /\ place' = [place EXCEPT ![s] = "bound"]
  /\ UNCHANGED <<mem, len, walk, closer>>
-----------------------------------------------------------------------------
(* Node.Close. *)

(* Of a sender: parent.RemoveChild(n), under the receiver's mutex ... *)
Leave(k, s) ==
  /\ closer[k].at = "new" /\ place[s] = "bound"
  /\ closer' = [closer EXCEPT ![k] = [Away EXCEPT !.at = "count", !.of = s,
                                                   !.others = Childs \ {s}]]
  /\ Remove(s)
  /\ UNCHANGED place

(* Mutant of Count: the receiver is closed although it has children. *)
CountNothing(k) ==
  /\ closer[k].at = "count"
  /\ closer' = [closer EXCEPT ![k].at = "range"]
  /\ UNCHANGED <<mem, len, place, walk>>

(* ... "if len(parent.childs) == 0 { parent.Close() }", without it. *)
Count(k) ==
  /\ closer[k].at = "count"
  /\ closer' = [closer EXCEPT ![k].at = IF len = 0 THEN "range" ELSE "walk"]
  /\ UNCHANGED <<mem, len, place, walk>>

(* Receiver.Close, by the producer. *)
CloseReceiver(k) ==
  /\ closer[k].at = "new"
  /\ closer' = [closer EXCEPT ![k].at = "range"]
  /\ UNCHANGED <<mem, len, place, walk>>

(* Of the receiver: "for _, childs := range n.childs { childs.Close() }" *)
BeginSweep(k) ==
  /\ closer[k].at = "range"
  /\ closer' = [closer EXCEPT ![k].at = "walk", ![k].stack = <<Whole>> \o @]
  /\ UNCHANGED <<mem, len, place, walk>>

(* The child leaves, and closes the receiver again when it was the last.   *)
(* A child without a parent yet closes its own children: it has none.      *)
Sweep(k) ==
  LET w == Head(closer[k].stack)
      s == mem[w.at][w.next]
      step == [closer[k] EXCEPT !.stack[1].next = @ + 1]
  IN
  /\ closer[k].at = "walk" /\ closer[k].stack # <<>> /\ w.next <= w.end
  /\ \/ /\ place[s] = "bound"
        /\ Remove(s)
        /\ closer' = [closer EXCEPT ![k] = [step EXCEPT !.at = "count"]]
     \/ /\ place[s] # "bound"
        /\ closer' = [closer EXCEPT ![k] = step]
        /\ UNCHANGED <<mem, len, walk>>
  /\ UNCHANGED place

Return(k) ==
  LET st == closer[k].stack IN
  /\ closer[k].at = "walk"
  /\ \/ /\ st = <<>>
        /\ closer' = [closer EXCEPT ![k].at = "end"]
     \/ /\ st # <<>> /\ Head(st).next > Head(st).end
        /\ closer' = [closer EXCEPT ![k].stack = Tail(@)]
  /\ UNCHANGED <<mem, len, place, walk>>

(* The source has ended and every closer has closed. *)
Quiet ==
  /\ walk.pkt = MaxPackets /\ ~ walk.in
  /\ \A k \in Closers : closer[k].at = "end"
  /\ UNCHANGED vars

CloserStep(k) == Count(k) \/ BeginSweep(k) \/ Sweep(k) \/ Return(k)

Next ==
  \/ Input \/ Feed \/ Fed
  \/ \E s \in Senders : Attach(s) \/ SetParent(s)
  \/ \E k \in Closers : CloseReceiver(k) \/ CloserStep(k) \/ \E s \in Senders : Leave(k, s)
  \/ Quiet

Spec == Init /\ [][Next]_vars
-----------------------------------------------------------------------------
Walks == [at : 1 .. Len(mem), end : Nat, next : Nat \ {0}]

(* The types of the nodes' fields, of the walks and of the goroutines. *)
TypeOK ==
  /\ mem # <<>> /\ \A a \in 1 .. Len(mem) : mem[a] \in Seq(Senders \cup {Nobody})
  /\ len \in 0 .. Len(mem[Current]) /\ Childs \subseteq Senders
  /\ place \in [Senders -> {"new", "appended", "bound"}]
  /\ walk.pkt \in 0 .. MaxPackets /\ walk.over \in Walks /\ walk.fed \in Seq(Senders)
  /\ \A k \in Closers :
       /\ closer[k].at \in {"new", "count", "range", "walk", "end"}
       /\ closer[k].stack \in Seq(Walks)

Times(s) == {i \in 1 .. Len(walk.fed) : walk.fed[i] = s}

(* A sender that has left gets none of the packets that come after it,     *)
(* although its place in the array is written over by others.              *)
GoneForGood == \A s \in walk.gone : Times(s) = {}

(* A sender that leaves closes the receiver only when nobody is attached:  *)
(* it never detaches one that was there before it left.                    *)
SparesOthers ==
  [][\A k \in Closers :
       Sweep(k) /\ closer[k].of # Nobody => Childs \cap closer[k].others \subseteq Childs']_vars

(* A child is in the list once: closing it takes it out. *)
NoTwins == \A i, j \in 1 .. len : mem[Current][i] = mem[Current][j] => i = j
=============================================================================
