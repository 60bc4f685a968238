------------------------------ MODULE Producers ------------------------------
(***************************************************************************)
(* The list s.producers of a stream (internal/streams) while it changes:   *)
(* connections that push to the stream come and go (AddProducer,           *)
(* RemoveProducer), Play adds its source as an internal producer and takes *)
(* it out, and AddConsumer ranges over the list, once for each media of    *)
(* its consumer, without s.mu.                                             *)
(*                                                                         *)
(* The list is a Go slice: a range keeps the array and the length it began *)
(* with, an append writes behind the end or moves to a larger array, a     *)
(* removal shifts the elements of the array in place.  What a producer     *)
(* offers, and whether one with a backchannel is connected, is left open;  *)
(* the producers' own states are in Streams.                               *)
(***************************************************************************)
EXTENDS Naturals, Sequences

CONSTANTS
  Configured,  (* how many producers the configuration lists               *)
  Publishers,  (* connections that push to the stream                      *)
  Plays,       (* calls of Play, each with its source                      *)
  Viewers,     (* consumers                                                *)
  Medias       (* how many medias each of them has                         *)

VARIABLES
  array, len,   (* the array of the list and its length                    *)
  cut,          (* internal producers whose conn stop() has set to nil     *)
  src, dst,     (* the connections of each Play                            *)
  listed,       (* those of dst that are in s.consumers                    *)
  viewer,       (* where the AddConsumer of each viewer is                 *)
  errs,         (* the length of its prodErrors                            *)
  media, pos,   (* its media, and its place in the range over the list     *)
  old, n,       (* the array and the length the range began with; <<>> is  *)
                (* the array as it still is                                *)
  reads,        (* the producers it has got a track from                   *)
  pending,      (* s.pending                                               *)
  paniced

list == <<array, len, old, cut>>
play == <<src, dst, listed>>
range == <<viewer, errs, media, n, pos, reads, pending>>

Own == 1 .. Configured
List == SubSeq(array, 1, len)
Listed(e) == \E i \in 1 .. len : List[i] = e

Init ==
  /\ array = [i \in Own |-> i] /\ len = Configured /\ cut = {}
  /\ src = [p \in Plays |-> "new"] /\ dst = [p \in Plays |-> "none"] /\ listed = {}
  /\ viewer = [v \in Viewers |-> "out"] /\ errs = [v \in Viewers |-> 0]
  /\ media = [v \in Viewers |-> 1] /\ n = [v \in Viewers |-> 0]
  /\ old = [v \in Viewers |-> <<>>] /\ pos = [v \in Viewers |-> 1]
  /\ reads = [v \in Viewers |-> {}] /\ pending = 0
  /\ paniced = FALSE
-----------------------------------------------------------------------------
(* The list moves to a larger array, those who range over it stay. *)
Move(new) ==
  /\ array' = new
  /\ old' = [v \in Viewers |-> IF viewer[v] = "range" /\ old[v] = <<>> THEN array ELSE old[v]]

(* s.producers = append(s.producers, producer) *)
Push(e) ==
  /\ \/ len < Len(array) /\ array' = [array EXCEPT ![len + 1] = e] /\ UNCHANGED old
     \/ len = Len(array) /\ Move(List \o <<e>> \o [i \in 1 .. len - 1 |-> 0])
  /\ len' = len + 1

(* RemoveProducer: an entry without conn is not found. *)
Take(e) ==
  /\ UNCHANGED old
  /\ IF Listed(e) /\ e \notin cut
     THEN LET first == CHOOSE i \in 1 .. len : array[i] = e
          IN  /\ array' = [i \in DOMAIN array |->
                             IF i \in first .. len - 1 THEN array[i + 1] ELSE array[i]]
              /\ len' = len - 1
     ELSE UNCHANGED <<array, len>>

(* AddProducer and RemoveProducer of a connection that pushes *)
Come(u) ==
  /\ ~ Listed(u) /\ Push(u)
  /\ UNCHANGED <<cut, play, range, paniced>>

Leave(u) ==
  /\ Listed(u) /\ Take(u)
  /\ reads' = [v \in Viewers |-> reads[v] \ {u}]
  /\ UNCHANGED <<cut, play, viewer, errs, media, n, pos, pending, paniced>>
-----------------------------------------------------------------------------
(* Play *)

(* conn.Stop of a source: its Start is to return. *)
Stopped(ps) == [p \in Plays |-> IF p \in ps /\ src[p] = "run" THEN "stopped" ELSE src[p]]

(* The internal producers there are, under s.mu. *)
Silence(p) ==
  /\ src[p] = "new"
  /\ src' = [Stopped({q \in Plays : Listed(q) /\ q \notin cut}) EXCEPT ![p] = "ready"]
  /\ UNCHANGED <<dst, listed, list, range, paniced>>

(* There was nothing to play, or no consumer for it. *)
Fails(p) ==
  /\ src[p] = "ready" /\ src' = [src EXCEPT ![p] = "over"]
  /\ UNCHANGED <<dst, listed, list, range, paniced>>

(* A producer that is connected takes it, or a new connection to one does. *)
AddInternalProducer(p) ==
  /\ src[p] = "ready" /\ src' = [src EXCEPT ![p] = "run"]
  /\ \E new \in {"none", "ready"} : dst' = [dst EXCEPT ![p] = new]
  /\ Push(p)
  /\ UNCHANGED <<cut, listed, range, paniced>>

AddInternalConsumer(p) ==
  /\ dst[p] = "ready" /\ dst' = [dst EXCEPT ![p] = "run"]
  /\ listed' = listed \cup {p}
  /\ UNCHANGED <<src, list, range, paniced>>

(* src.Start and dst.Start return. *)
SrcEnds(p) ==
  /\ src[p] \in {"run", "stopped"} /\ dst[p] # "ready"
  /\ src' = [src EXCEPT ![p] = "ended"]
  /\ UNCHANGED <<dst, listed, list, range, paniced>>

DstEnds(p) ==
  /\ dst[p] \in {"run", "stopped"}
  /\ dst' = [dst EXCEPT ![p] = "ended"]
  /\ UNCHANGED <<src, listed, list, range, paniced>>

RemoveSrc(p) ==
  /\ src[p] = "ended" /\ src' = [src EXCEPT ![p] = "over"]
  /\ dst' = [dst EXCEPT ![p] = IF @ = "run" THEN "stopped" ELSE @]
  /\ Take(p)
  /\ UNCHANGED <<cut, listed, range, paniced>>

(* Mutant of RemoveDst: src is left to end by itself. *)
RemoveDstOnly(p) ==
  /\ dst[p] = "ended" /\ dst' = [dst EXCEPT ![p] = "over"]
  /\ listed' = listed \ {p}
  /\ UNCHANGED <<src, list, range, paniced>>

RemoveDst(p) ==
  /\ dst[p] = "ended" /\ dst' = [dst EXCEPT ![p] = "over"]
  /\ src' = Stopped({p})
  /\ listed' = listed \ {p}
  /\ UNCHANGED <<list, range, paniced>>
-----------------------------------------------------------------------------
(* AddConsumer *)

(* stopProducers: an internal producer has no tracks but those of viewers, *)
(* however its source is connected to the camera.                          *)
StopUnread ==
  LET ps == {p \in Plays : Listed(p) /\ \A v \in Viewers : p \notin reads'[v]}
  IN  cut' = cut \cup ps /\ src' = Stopped(ps \ cut)

NoStop == UNCHANGED <<cut, src>>

AddConsumer(v) ==
  /\ viewer[v] = "out" /\ viewer' = [viewer EXCEPT ![v] = "media"]
  /\ pending' = pending + 1
  /\ errs' = [errs EXCEPT ![v] = len]
  /\ UNCHANGED <<media, n, pos, reads, list, play, paniced>>

RangeProducers(v) ==
  /\ viewer[v] = "media" /\ viewer' = [viewer EXCEPT ![v] = "range"]
  /\ n' = [n EXCEPT ![v] = len]
  /\ UNCHANGED <<errs, media, pos, reads, pending, list, play, paniced>>

(* The next media, or the end of the loops. *)
NextMedia(v) ==
  /\ media' = [media EXCEPT ![v] = @ + 1]
  /\ n' = [n EXCEPT ![v] = 0] /\ old' = [old EXCEPT ![v] = <<>>]
  /\ pos' = [pos EXCEPT ![v] = 1]
  /\ viewer' = [viewer EXCEPT ![v] = IF media[v] < Medias THEN "media" ELSE "leave"]

Producer(v) == (IF old[v] = <<>> THEN array ELSE old[v])[pos[v]]

IndexError(v) ==
  /\ viewer[v] = "range" /\ pos[v] <= n[v] /\ pos[v] > errs[v]
  /\ paniced' = TRUE
  /\ UNCHANGED <<list, play, range>>

(* The producer is skipped, or does not match. *)
NoMatch(v) ==
  /\ viewer[v] = "range" /\ pos[v] <= n[v] /\ pos[v] <= errs[v]
  /\ pos' = [pos EXCEPT ![v] = @ + 1]
  /\ UNCHANGED <<viewer, errs, media, n, reads, pending, list, play, paniced>>

Match(v) ==
  /\ viewer[v] = "range" /\ pos[v] <= n[v] /\ pos[v] <= errs[v]
  /\ Producer(v) \notin cut
  /\ reads' = [reads EXCEPT ![v] = @ \cup {Producer(v)}]
  /\ NextMedia(v)
  /\ UNCHANGED <<errs, pending, array, len, cut, play, paniced>>

EndProducers(v) ==
  /\ viewer[v] = "range" /\ pos[v] > n[v]
  /\ NextMedia(v)
  /\ UNCHANGED <<errs, reads, pending, array, len, cut, play, paniced>>

LeavePending(v) ==
  /\ viewer[v] = "leave"
  /\ viewer' = [viewer EXCEPT ![v] = IF reads[v] = {} THEN "out" ELSE "in"]
  /\ media' = [media EXCEPT ![v] = 1] /\ errs' = [errs EXCEPT ![v] = 0]
  /\ pending' = pending - 1 /\ UNCHANGED reads
  /\ IF pending = 1 THEN StopUnread ELSE NoStop
  /\ UNCHANGED <<array, len, old, dst, listed, n, pos, paniced>>

RemoveConsumer(v) ==
  /\ viewer[v] = "in" /\ viewer' = [viewer EXCEPT ![v] = "out"]
  /\ reads' = [reads EXCEPT ![v] = {}]
  /\ IF pending = 0 THEN StopUnread ELSE NoStop
  /\ UNCHANGED <<array, len, old, dst, listed, errs, media, n, pos, pending, paniced>>

Returns(p) == RemoveSrc(p) \/ RemoveDst(p) \/ AddInternalConsumer(p)
Ends(p) ==
  \/ src[p] = "stopped" /\ SrcEnds(p)
  \/ dst[p] = "stopped" /\ DstEnds(p)

Next ==
  /\ ~ paniced
  /\ \/ \E u \in Publishers : Come(u) \/ Leave(u)
     \/ \E p \in Plays : \/ Silence(p) \/ Fails(p) \/ AddInternalProducer(p)
                         \/ SrcEnds(p) \/ DstEnds(p) \/ Returns(p)
     \/ \E v \in Viewers : \/ AddConsumer(v) \/ RangeProducers(v) \/ IndexError(v) \/ NoMatch(v)
                           \/ Match(v) \/ EndProducers(v) \/ LeavePending(v) \/ RemoveConsumer(v)
-----------------------------------------------------------------------------
(* When the source of a Play or the connection it was dialled for ends,    *)
(* the other is stopped too, the connection is no consumer of the stream   *)
(* any more, and the source no producer with a connection.                 *)
PlayedGone ==
  \A p \in Plays : []<>
    \/ src[p] \notin {"ended", "over"} /\ dst[p] \notin {"ended", "over"}
    \/ src[p] = "over" /\ dst[p] \in {"none", "over"} /\ p \notin listed /\ (Listed(p) => p \in cut)
    \/ paniced

(* "Send stream from source to destination", "Post stream in FLV format":  *)
(* what the API offers for a stream may be asked for at any time, also     *)
(* while a consumer looks for its tracks.                                  *)
PushedSafely == ~ paniced
=============================================================================
