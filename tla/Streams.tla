------------------------------- MODULE Streams -------------------------------
(***************************************************************************)
(* One stream of go2rtc (internal/streams): consumers join and leave it,   *)
(* its producers dial their sources on demand, share their tracks between  *)
(* the consumers, reconnect when a source ends and stop when nobody reads. *)
(*                                                                         *)
(* Locks.  s.mu is the variable smu.  Every method of Producer runs under  *)
(* p.mu and is one action, except reconnect, which moves the readers of    *)
(* the old connection to the new one track by track while others read the  *)
(* track lists without the lock: it is the actions Reconnect .. MoveEnd,   *)
(* and p.mu is held exactly while move[p] is under way (Free(p) is false). *)
(* The list s.producers is fixed here, and a connection offers at most one *)
(* media of a kind.                                                        *)
(***************************************************************************)
EXTENDS Naturals, Sequences, FiniteSets

CONSTANTS
  Producers, Consumers,
  ProducerSeq,    (* s.producers, in order                                 *)
  Kinds,          (* what can match: video, audio, backchannel audio       *)
  BackKinds,      (* the kinds that flow from the consumer to the source   *)
  Wants,          (* Wants[c]: the consumer's medias, in order             *)
  MatchAll,       (* consumers that want a kind from every producer        *)
  SelfSource,     (* SelfSource[c]: producers whose url is c's own source  *)
  Offers,         (* the media sets a source may answer a dial with        *)
  SourcesEnd,     (* whether a running source may end by itself            *)
  MaxConn,        (* bound: connections dialled in a behaviour             *)
  NoConn, NoTrack, NoOne

Conns == 1 .. MaxConn

(* A core.Receiver: the connection that feeds it, the connection whose     *)
(* media list its codec pointer came from, and its kind.                   *)
Tracks == [conn : Conns, of : Conns, kind : Kinds]

ASSUME StreamsAssumption ==
  /\ ProducerSeq \in Seq(Producers)
  /\ BackKinds \subseteq Kinds
  /\ Wants \in [Consumers -> Seq(Kinds)]
  /\ MatchAll \subseteq Consumers
  /\ SelfSource \in [Consumers -> SUBSET Producers]
  /\ Offers \subseteq SUBSET Kinds
  /\ SourcesEnd \in BOOLEAN
  /\ IsFiniteSet(Consumers)
  /\ MaxConn \in Nat
  /\ NoConn \notin Conns
  /\ NoTrack \notin Tracks
  /\ NoOne \notin Consumers

VARIABLES
  state,      (* p.state                                                   *)
  conn,       (* p.conn                                                    *)
  recv,       (* p.receivers                                               *)
  send,       (* p.senders: consumers whose backchannel track p was given  *)
  gen,        (* p.workerID                                                *)
  loops,      (* p's worker goroutines: their workerID and where they are  *)
  move,       (* p's reconnect under way                                   *)
  dialed,     (* connections opened so far                                 *)
  offer,      (* what each of them offers                                  *)
  open,       (* <<p, n>>: p dialled n and n is not stopped                *)
  readers,    (* <<t, c>>: a sender of c is a child of the track t         *)
  fed,        (* <<c, n>>: a sender of n is a child of c's backchannel     *)
  pending,    (* s.pending                                                 *)
  smu,        (* who holds s.mu across several steps                       *)
  consumers,  (* s.consumers                                               *)
  pc, loc     (* each consumer's goroutine                                 *)

producerVars == <<state, conn, recv, send, gen, loops, move>>
connVars     == <<dialed, offer, open>>
nodeVars     == <<readers, fed>>
streamVars   == <<pending, smu, consumers>>
vars == <<producerVars, connVars, nodeVars, streamVars, pc, loc>>

Idle == [conn |-> NoConn, todo |-> {}, track |-> NoTrack, kids |-> {}]

Free(p) == move[p].conn = NoConn

NoLocals ==
  [medias |-> <<>>, prods |-> <<>>, from |-> NoConn, track |-> NoTrack,
   errs |-> {}, starts |-> <<>>, scan |-> <<>>, then |-> "attach"]

Init ==
  /\ state = [p \in Producers |-> "none"]
  /\ conn = [p \in Producers |-> NoConn]
  /\ recv = [p \in Producers |-> {}]
  /\ send = [p \in Producers |-> {}]
  /\ gen = [p \in Producers |-> 0]
  /\ loops = [p \in Producers |-> {}]
  /\ move = [p \in Producers |-> Idle]
  /\ dialed = 0
  /\ offer = [n \in Conns |-> {}]
  /\ open = {}
  /\ readers = {}
  /\ fed = {}
  /\ pending = 0
  /\ smu = NoOne
  /\ consumers = {}
  /\ pc = [c \in Consumers |-> "new"]
  /\ loc = [c \in Consumers |-> NoLocals]
-----------------------------------------------------------------------------
(* Helpers. *)

Goto(c, from, to) == pc[c] = from /\ pc' = [pc EXCEPT ![c] = to]

Prod(c) == Head(loc[c].prods)
Kind(c) == Head(loc[c].medias)

Visiting(c) == pc[c] = "visit" /\ loc[c].medias # <<>> /\ loc[c].prods # <<>>

NextProd(l) == [l EXCEPT !.prods = Tail(@), !.from = NoConn, !.track = NoTrack]
BreakProds(l) == [l EXCEPT !.prods = <<>>, !.from = NoConn, !.track = NoTrack]
FailProd(l) == [NextProd(l) EXCEPT !.errs = @ \cup {Head(l.prods)}]

(* After a match: "if !consMedia.MatchAll() { break producers }". *)
StartProd(c) ==
  LET l == [loc[c] EXCEPT !.starts = Append(@, Prod(c))]
  IN IF c \in MatchAll THEN NextProd(l) ELSE BreakProds(l)

Kids(t) == {c \in Consumers : <<t, c>> \in readers}

(* Node.Close ranges over n.childs while each child removes itself from    *)
(* the same array, so of n children every other one after the first two is *)
(* passed over and stays.                                                  *)
Survive(left, kids) ==
  /\ left \subseteq kids
  /\ Cardinality(left) = IF kids = {} THEN 0 ELSE (Cardinality(kids) - 1) \div 2

(* Mutant of StopConn: conn.Stop() is not called. *)
ForgetConn(p, n) == UNCHANGED <<open, readers, fed>>

(* A new connection of p; at the bound every dial fails. *)
OpenConn(p, o) ==
  /\ dialed < MaxConn
  /\ dialed' = dialed + 1
  /\ offer' = [offer EXCEPT ![dialed + 1] = o]
  /\ open' = open \cup {<<p, dialed + 1>>}

(* conn.Stop(): the transport is closed, the tracks close their children   *)
(* and the senders leave the consumers' tracks.                            *)
StopConn(p, n) ==
  /\ open' = open \ {<<p, n>>}
  /\ \E left \in SUBSET {r \in readers : r[1].conn = n} :
       /\ \A t \in {r[1] : r \in readers} :
            t.conn = n => Survive({c \in Consumers : <<t, c>> \in left}, Kids(t))
       /\ readers' = {r \in readers : r[1].conn # n} \cup left
  /\ fed' = {f \in fed : f[2] # n}
-----------------------------------------------------------------------------
(* AddConsumer: the matching loop. *)

(* s.pending.Add(1), cons.GetMedias() *)
AddConsumer(c) ==
  /\ Goto(c, "new", "visit")
  /\ pending' = pending + 1
  /\ loc' = [loc EXCEPT ![c].medias = Wants[c], ![c].prods = ProducerSeq]
  /\ UNCHANGED <<producerVars, connVars, nodeVars, smu, consumers>>

NextMedia(c) ==
  /\ pc[c] = "visit" /\ loc[c].medias # <<>> /\ loc[c].prods = <<>>
  /\ loc' = [loc EXCEPT ![c].medias = Tail(@), ![c].prods = ProducerSeq]
  /\ UNCHANGED <<producerVars, connVars, nodeVars, streamVars, pc>>

(* The consumer's own source, or a producer that has failed it before. *)
SkipProducer(c) ==
  /\ Visiting(c)
  /\ Prod(c) \in SelfSource[c] \cup loc[c].errs
  /\ loc' = [loc EXCEPT ![c] = NextProd(@)]
  /\ UNCHANGED <<producerVars, connVars, nodeVars, streamVars, pc>>

(* prod.Dial() *)
Dial(c) ==
  LET p == Prod(c) IN
  /\ Visiting(c)
  /\ p \notin SelfSource[c] \cup loc[c].errs
  /\ Free(p)
  /\ \/ /\ state[p] # "none"
        /\ Goto(c, "visit", "dialed")
        /\ UNCHANGED <<state, conn, connVars, loc>>
     \/ /\ state[p] = "none"
        /\ \E o \in Offers : OpenConn(p, o)
        /\ conn' = [conn EXCEPT ![p] = dialed + 1]
        /\ state' = [state EXCEPT ![p] = "medias"]
        /\ Goto(c, "visit", "dialed")
        /\ UNCHANGED loc
     \/ /\ state[p] = "none"
        /\ loc' = [loc EXCEPT ![c] = FailProd(@)]
        /\ UNCHANGED <<state, conn, connVars, pc>>
  /\ UNCHANGED <<recv, send, gen, loops, move, nodeVars, streamVars>>

(* prod.GetMedias() and MatchMedia: the codec comes from this connection. *)
GetMedias(c) ==
  LET p == Prod(c) IN
  /\ pc[c] = "dialed"
  /\ Free(p)
  /\ IF conn[p] # NoConn /\ Kind(c) \in offer[conn[p]]
     THEN /\ Goto(c, "dialed", "matched")
          /\ loc' = [loc EXCEPT ![c].from = conn[p]]
     ELSE /\ Goto(c, "dialed", "visit")
          /\ loc' = [loc EXCEPT ![c] = NextProd(@)]
  /\ UNCHANGED <<producerVars, connVars, nodeVars, streamVars>>

(* Mutant of WithTracks: a started producer falls back to its tracks. *)
AlwaysTracks(p) == [state EXCEPT ![p] = "tracks"]

(* A producer without its first track becomes one with tracks. *)
WithTracks(p) == [state EXCEPT ![p] = IF @ = "medias" THEN "tracks" ELSE @]

(* Mutant of WithReceiver: p.receivers is assigned, not appended to. *)
OnlyReceiver(p, t) == [recv EXCEPT ![p] = {t}]

WithReceiver(p, t) == [recv EXCEPT ![p] = @ \cup {t}]

(* prod.GetTrack(): the receiver of this codec, or a new one. *)
GetTrack(c) ==
  LET p == Prod(c)
      Same == {t \in recv[p] : t.of = loc[c].from /\ t.kind = Kind(c)}
  IN
  /\ pc[c] = "matched"
  /\ Kind(c) \notin BackKinds
  /\ Free(p)
  /\ \/ /\ state[p] # "none"
        /\ \E t \in Same : loc' = [loc EXCEPT ![c].track = t]
        /\ Goto(c, "matched", "tracked")
        /\ UNCHANGED <<state, recv>>
     \/ /\ state[p] # "none" /\ Same = {}
        /\ LET t == [conn |-> conn[p], of |-> loc[c].from, kind |-> Kind(c)]
           IN /\ recv' = WithReceiver(p, t)
              /\ loc' = [loc EXCEPT ![c].track = t]
        /\ state' = WithTracks(p)
        /\ Goto(c, "matched", "tracked")
     \/ /\ state[p] # "none" => Same = {}
        /\ loc' = [loc EXCEPT ![c] = FailProd(@)]
        /\ Goto(c, "matched", "visit")
        /\ UNCHANGED <<state, recv>>
  /\ UNCHANGED <<conn, send, gen, loops, move, connVars, nodeVars, streamVars>>

(* cons.AddTrack(): no lock but the node's own. *)
AddTrack(c) ==
  /\ Goto(c, "tracked", "visit")
  /\ \/ /\ readers' = readers \cup {<<loc[c].track, c>>}
        /\ loc' = [loc EXCEPT ![c] = StartProd(c)]
     \/ /\ loc' = [loc EXCEPT ![c] = NextProd(@)]
        /\ UNCHANGED readers
  /\ UNCHANGED <<producerVars, connVars, fed, streamVars>>

(* cons.GetTrack(), then prod.AddTrack(): the backchannel. *)
AddBackTrack(c) ==
  LET p == Prod(c) IN
  /\ Goto(c, "matched", "visit")
  /\ Kind(c) \in BackKinds
  /\ \/ /\ Free(p) /\ state[p] # "none"
        /\ send' = [send EXCEPT ![p] = @ \cup {c}]
        /\ fed' = fed \cup {<<c, conn[p]>>}
        /\ state' = WithTracks(p)
        /\ loc' = [loc EXCEPT ![c] = StartProd(c)]
     \/ /\ Free(p)
        /\ loc' = [loc EXCEPT ![c] = FailProd(@)]
        /\ UNCHANGED <<send, fed, state>>
     \/ /\ loc' = [loc EXCEPT ![c] = NextProd(@)]
        /\ UNCHANGED <<send, fed, state>>
  /\ UNCHANGED <<conn, recv, gen, loops, move, connVars, readers, streamVars>>
-----------------------------------------------------------------------------
(* stopProducers, called by AddConsumer and by RemoveConsumer. *)

(* s.pending.Load(): skipped while another consumer is being added. *)
LoadPending(c) ==
  /\ Goto(c, "load", IF pending > 0 THEN loc[c].then ELSE "lock")
  /\ UNCHANGED <<producerVars, connVars, nodeVars, streamVars, loc>>

(* Mutant of LockStream: s.mu is not taken. *)
ScanUnlocked(c) ==
  /\ Goto(c, "lock", "check")
  /\ loc' = [loc EXCEPT ![c].scan = ProducerSeq]
  /\ UNCHANGED <<producerVars, connVars, nodeVars, streamVars>>

LockStream(c) ==
  /\ Goto(c, "lock", "check")
  /\ smu = NoOne
  /\ smu' = c
  /\ loc' = [loc EXCEPT ![c].scan = ProducerSeq]
  /\ UNCHANGED <<producerVars, connVars, nodeVars, pending, consumers>>

(* Mutant of Unread: a producer with tracks is taken to be read. *)
Trackless(p) == recv[p] = {} /\ send[p] = {}

(* len(track.Senders()) of every receiver and sender of p, without p.mu. *)
Unread(p) ==
  /\ \A t \in recv[p] : Kids(t) = {}
  /\ \A c \in send[p] : ~ \E f \in fed : f[1] = c

CheckProducer(c) ==
  /\ pc[c] = "check" /\ loc[c].scan # <<>>
  /\ IF Unread(Head(loc[c].scan))
     THEN Goto(c, "check", "stop") /\ UNCHANGED loc
     ELSE loc' = [loc EXCEPT ![c].scan = Tail(@)] /\ UNCHANGED pc
  /\ UNCHANGED <<producerVars, connVars, nodeVars, streamVars>>

(* producer.stop() *)
StopProducer(c) ==
  LET p == Head(loc[c].scan) IN
  /\ Goto(c, "stop", "check")
  /\ Free(p)
  /\ loc' = [loc EXCEPT ![c].scan = Tail(@)]
  /\ IF state[p] = "none"
     THEN UNCHANGED <<state, conn, recv, send, gen, open, nodeVars>>
     ELSE /\ gen' = [gen EXCEPT ![p] = IF state[p] = "start" THEN @ + 1 ELSE @]
          /\ StopConn(p, conn[p])
          /\ conn' = [conn EXCEPT ![p] = NoConn]
          /\ state' = [state EXCEPT ![p] = "none"]
          /\ recv' = [recv EXCEPT ![p] = {}]
          /\ send' = [send EXCEPT ![p] = {}]
  /\ UNCHANGED <<loops, move, dialed, offer, streamVars>>

(* Mutant of UnlockStream: s.mu stays locked. *)
KeepStreamLocked(c) ==
  /\ pc[c] = "check" /\ loc[c].scan = <<>>
  /\ Goto(c, "check", loc[c].then)
  /\ UNCHANGED <<producerVars, connVars, nodeVars, streamVars, loc>>

UnlockStream(c) ==
  /\ loc[c].scan = <<>>
  /\ Goto(c, "check", loc[c].then)
  /\ smu' = NoOne
  /\ UNCHANGED <<producerVars, connVars, nodeVars, pending, consumers, loc>>
-----------------------------------------------------------------------------
(* AddConsumer: its end. *)

(* s.pending.Add(-1), and stopProducers by the last one. *)
LeavePending(c) ==
  /\ loc[c].medias = <<>>
  /\ Goto(c, "visit", IF pending = 1 THEN "load" ELSE "attach")
  /\ pending' = pending - 1
  /\ loc' = [loc EXCEPT ![c].prods = <<>>, ![c].errs = {}]
  /\ UNCHANGED <<producerVars, connVars, nodeVars, smu, consumers>>

FailConsumer(c) ==
  /\ loc[c].starts = <<>>
  /\ Goto(c, "attach", "failed")
  /\ UNCHANGED <<producerVars, connVars, nodeVars, streamVars, loc>>

AttachConsumer(c) ==
  /\ loc[c].starts # <<>>
  /\ Goto(c, "attach", "start")
  /\ smu = NoOne
  /\ consumers' = consumers \cup {c}
  /\ UNCHANGED <<producerVars, connVars, nodeVars, pending, smu, loc>>

(* prod.start(): one new worker, only for a producer that has tracks. *)
StartProducer(c) ==
  LET p == Head(loc[c].starts) IN
  /\ pc[c] = "start"
  /\ Free(p)
  /\ IF state[p] = "tracks"
     THEN /\ state' = [state EXCEPT ![p] = "start"]
          /\ gen' = [gen EXCEPT ![p] = @ + 1]
          /\ loops' = [loops EXCEPT ![p] = @ \cup {[id |-> gen[p] + 1, at |-> "run"]}]
     ELSE UNCHANGED <<state, gen, loops>>
  /\ loc' = [loc EXCEPT ![c].starts = Tail(@)]
  /\ pc' = [pc EXCEPT ![c] = IF Tail(loc[c].starts) = <<>> THEN "attached" ELSE @]
  /\ UNCHANGED <<conn, recv, send, move, connVars, nodeVars, streamVars>>

(* RemoveConsumer: cons.Stop() closes its senders and its own tracks ... *)
RemoveConsumer(c) ==
  /\ Goto(c, "attached", "remove")
  /\ readers' = {r \in readers : r[2] # c}
  /\ \E left \in SUBSET {n \in Conns : <<c, n>> \in fed} :
       /\ Survive(left, {n \in Conns : <<c, n>> \in fed})
       /\ fed' = {f \in fed : f[1] # c} \cup {<<c, n>> : n \in left}
  /\ UNCHANGED <<producerVars, connVars, streamVars, loc>>

(* ... and it leaves the list, before stopProducers. *)
DetachConsumer(c) ==
  /\ Goto(c, "remove", "load")
  /\ smu = NoOne
  /\ consumers' = consumers \ {c}
  /\ loc' = [loc EXCEPT ![c].then = "gone"]
  /\ UNCHANGED <<producerVars, connVars, nodeVars, pending, smu>>
-----------------------------------------------------------------------------
(* The producer's worker goroutine. *)

Current(p, l) == l \in loops[p] /\ l.id = gen[p]

(* conn.Start() returns although nobody stopped the connection. *)
SourceEnds(p) ==
  /\ SourcesEnd
  /\ \E l \in loops[p] :
       /\ Current(p, l) /\ l.at = "run"
       /\ loops' = [loops EXCEPT ![p] = (@ \ {l}) \cup {[l EXCEPT !.at = "ended"]}]
  /\ UNCHANGED <<state, conn, recv, send, gen, move, connVars, nodeVars, streamVars, pc, loc>>

(* conn.Start() has returned and the workerID is no longer p's: exit. *)
ExitStale(p) ==
  /\ Free(p)
  /\ \E l \in loops[p] :
       /\ l.id # gen[p]
       /\ loops' = [loops EXCEPT ![p] = @ \ {l}]
  /\ UNCHANGED <<state, conn, recv, send, gen, move, connVars, nodeVars, streamVars, pc, loc>>

(* reconnect(), to its successful dial.  A failed dial changes nothing but *)
(* the timer that calls reconnect again.                                   *)
Reconnect(p) ==
  /\ Free(p)
  /\ \E l \in loops[p] : Current(p, l) /\ l.at = "ended"
  /\ \E o \in Offers :
       /\ OpenConn(p, o)
       /\ move' = [move EXCEPT ![p] = [Idle EXCEPT !.conn = dialed + 1, !.todo = o]]
  /\ UNCHANGED <<state, conn, recv, send, gen, loops, nodeVars, streamVars, pc, loc>>

(* receiver.Replace(track), first half: the old node gives up its children. *)
MoveTake(p) ==
  /\ ~ Free(p) /\ move[p].track = NoTrack
  /\ \E t \in recv[p] :
       /\ t.kind \in move[p].todo \ BackKinds
       /\ move' = [move EXCEPT ![p].track = t, ![p].kids = Kids(t)]
       /\ readers' = {r \in readers : r[1] # t}
  /\ UNCHANGED <<state, conn, recv, send, gen, loops, connVars, fed, streamVars, pc, loc>>

(* Second half: they become the children of the new connection's track. *)
MovePut(p) ==
  LET t == move[p].track
      new == [conn |-> move[p].conn, of |-> move[p].conn, kind |-> t.kind]
  IN
  /\ ~ Free(p) /\ t # NoTrack
  /\ readers' = {r \in readers : r[1] # new} \cup {<<new, c>> : c \in move[p].kids}
  /\ recv' = [recv EXCEPT ![p] = (@ \ {t}) \cup {new}]
  /\ move' = [move EXCEPT ![p].todo = @ \ {t.kind}, ![p].track = NoTrack, ![p].kids = {}]
  /\ UNCHANGED <<state, conn, send, gen, loops, connVars, fed, streamVars, pc, loc>>

(* A media no receiver matches, or whose track cannot be had. *)
MoveSkip(p) ==
  /\ ~ Free(p) /\ move[p].track = NoTrack
  /\ \E k \in move[p].todo : move' = [move EXCEPT ![p].todo = @ \ {k}]
  /\ UNCHANGED <<state, conn, recv, send, gen, loops, connVars, nodeVars, streamVars, pc, loc>>

(* The backchannel tracks are given to the new connection. *)
MoveBack(p) ==
  /\ ~ Free(p) /\ move[p].track = NoTrack
  /\ \E k \in move[p].todo \cap BackKinds : move' = [move EXCEPT ![p].todo = @ \ {k}]
  /\ fed' = fed \cup {<<c, move[p].conn>> : c \in send[p]}
  /\ UNCHANGED <<state, conn, recv, send, gen, loops, connVars, readers, streamVars, pc, loc>>

(* The previous connection is stopped, the new one runs. *)
MoveEnd(p) ==
  /\ ~ Free(p) /\ move[p].track = NoTrack /\ move[p].todo = {}
  /\ StopConn(p, conn[p])
  /\ conn' = [conn EXCEPT ![p] = move[p].conn]
  /\ loops' = [loops EXCEPT ![p] =
       {l \in @ : l.id # gen[p]} \cup {[id |-> gen[p], at |-> "run"]}]
  /\ move' = [move EXCEPT ![p] = Idle]
  /\ UNCHANGED <<state, recv, send, gen, dialed, offer, streamVars, pc, loc>>
-----------------------------------------------------------------------------
(* Every consumer has come and gone. *)
Terminated ==
  /\ \A c \in Consumers : pc[c] \in {"gone", "failed"}
  /\ UNCHANGED vars

(* What a goroutine inside AddConsumer or RemoveConsumer does next. *)
ConsumerStep(c) ==
  \/ NextMedia(c) \/ SkipProducer(c) \/ Dial(c) \/ GetMedias(c)
  \/ GetTrack(c) \/ AddTrack(c) \/ AddBackTrack(c) \/ LeavePending(c)
  \/ LoadPending(c) \/ LockStream(c) \/ CheckProducer(c) \/ StopProducer(c)
  \/ UnlockStream(c) \/ FailConsumer(c) \/ AttachConsumer(c)
  \/ StartProducer(c) \/ DetachConsumer(c)

(* What a reconnect under way does next. *)
MoveStep(p) == MoveTake(p) \/ MovePut(p) \/ MoveSkip(p) \/ MoveBack(p) \/ MoveEnd(p)

Next ==
  \/ \E c \in Consumers : AddConsumer(c) \/ ConsumerStep(c) \/ RemoveConsumer(c)
  \/ \E p \in Producers : SourceEnds(p) \/ ExitStale(p) \/ Reconnect(p) \/ MoveStep(p)
  \/ Terminated

Spec == Init /\ [][Next]_vars

(* Goroutines are scheduled: one that is inside a call goes on.  Nothing   *)
(* makes a consumer come or leave, a source end or a dial succeed.         *)
Fairness ==
  /\ \A c \in Consumers : WF_vars(ConsumerStep(c))
  /\ \A p \in Producers : WF_vars(MoveStep(p)) /\ WF_vars(ExitStale(p))

FairSpec == Spec /\ Fairness
-----------------------------------------------------------------------------
Places ==
  {"new", "visit", "dialed", "matched", "tracked", "load", "lock", "check", "stop",
   "attach", "failed", "start", "attached", "remove", "gone"}

Locals ==
  [medias : Seq(Kinds), prods : Seq(Producers), from : Conns \cup {NoConn},
   track : Tracks \cup {NoTrack}, errs : SUBSET Producers, starts : Seq(Producers),
   scan : Seq(Producers), then : {"attach", "gone"}]

Moves ==
  [conn : Conns \cup {NoConn}, todo : SUBSET Kinds, track : Tracks \cup {NoTrack},
   kids : SUBSET Consumers]

(* The types of the variables; a producer without a connection is in state *)
(* none, so that no method of it meets a nil connection.                   *)
TypeOK ==
  /\ state \in [Producers -> {"none", "medias", "tracks", "start"}]
  /\ conn \in [Producers -> Conns \cup {NoConn}]
  /\ \A p \in Producers : state[p] = "none" <=> conn[p] = NoConn
  /\ recv \in [Producers -> SUBSET Tracks]
  /\ send \in [Producers -> SUBSET Consumers]
  /\ gen \in [Producers -> Nat]
  /\ loops \in [Producers -> SUBSET [id : Nat, at : {"run", "ended"}]]
  /\ move \in [Producers -> Moves]
  /\ dialed \in 0 .. MaxConn
  /\ offer \in [Conns -> SUBSET Kinds]
  /\ open \subseteq Producers \X Conns
  /\ readers \subseteq Tracks \X Consumers
  /\ fed \subseteq Consumers \X Conns
  /\ pending \in Nat
  /\ smu \in Consumers \cup {NoOne}
  /\ consumers \subseteq Consumers
  /\ pc \in [Consumers -> Places]
  /\ loc \in [Consumers -> Locals]

(* No connection outlives its producer's interest in it: what is open is   *)
(* what some producer holds, or what a reconnect under way will swap in    *)
(* ("fix ghost exec/ffmpeg", producer.go:237).                             *)
NoGhost ==
  open = {<<p, conn[p]>> : p \in {q \in Producers : conn[q] # NoConn}}
           \cup {<<p, move[p].conn>> : p \in {q \in Producers : ~ Free(q)}}

(* A started producer has exactly one worker of its own, running or trying *)
(* to reconnect, and a producer that is not started has none, however      *)
(* starts, stops, reconnects and late goroutines interleave.               *)
OneWorker ==
  \A p \in Producers :
    /\ state[p] = "start" <=> \E l \in loops[p] : Current(p, l)
    /\ \A l, m \in loops[p] : Current(p, l) /\ Current(p, m) => l = m

(* Whoever reads from the connection a producer holds is visible to        *)
(* stopProducers: its track is one of the producer's receivers.            *)
ReadersSeen ==
  \A p \in Producers, r \in readers :
    Free(p) /\ r[1].conn = conn[p] => r[1] \in recv[p]

(* The connections of each producer are opened, handed over and closed as  *)
(* SourceLink promises.                                                    *)
Link == INSTANCE SourceLink WITH
  link <- [p \in Producers |-> {n \in Conns : <<p, n>> \in open}],
  used <- 1 .. dialed

ImplementsLink == Link!Spec

(* Nobody is inside AddConsumer, RemoveConsumer or a reconnect. *)
Quiet ==
  /\ \A c \in Consumers : pc[c] \in {"new", "failed", "attached", "gone"}
  /\ \A p \in Producers : Free(p)

Stops(p) == state[p] # "none" /\ state'[p] = "none"

(* A producer is never stopped under a consumer that is attached, although *)
(* its readers are looked at without p.mu and well before it is stopped.   *)
StopSparesAttached ==
  [][\A p \in Producers : Stops(p) =>
       \A t \in recv[p] : \A c \in Kids(t) : pc[c] \notin {"start", "attached"}]_vars

(* "stop producers if they don't have readers" (add_consumer.go:96): none  *)
(* is stopped while it has readers.                                        *)
StopsUnreadOnly == [][\A p \in Producers : Stops(p) => Unread(p)]_vars

(* When all consumers have left, no producer is connected.                 *)
AllGoneAllStopped ==
  Quiet /\ (\A c \in Consumers : pc[c] \in {"gone", "failed"}) =>
    \A p \in Producers : state[p] = "none"

(* Every AddConsumer returns, with the consumer attached or an error. *)
AddReturns ==
  \A c \in Consumers :
    pc[c] \notin {"new", "attached", "remove", "gone", "failed"} ~>
      pc[c] \in {"attached", "failed", "gone"}

(* When all consumers have left, their connections are closed. *)
LastOneOut ==
  (\A c \in Consumers : pc[c] \in {"remove", "failed"} \/ loc[c].then = "gone") ~> open = {}
=============================================================================
