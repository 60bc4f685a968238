--------------------------- MODULE StreamsProofs ---------------------------
(* Proofs about one stream, for any producers, consumers and media sets. *)
EXTENDS Streams, SequenceTheorems, FiniteSetTheorems, TLAPS

(* Where each goroutine is tells which of its locals are set. *)
SetAt(place, l) ==
  /\ place \in {"dialed", "matched", "tracked"} => l.prods # <<>> /\ l.medias # <<>>
  /\ place = "matched" => l.from \in Conns
  /\ place = "tracked" => l.track \in Tracks
  /\ place = "stop" => l.scan # <<>>
  /\ place = "start" => l.starts # <<>>

LocalsSet == \A c \in Consumers : SetAt(pc[c], loc[c])

(* No worker carries a workerID the producer has not reached. *)
WorkerIds == \A p \in Producers : \A l \in loops[p] : l.id <= gen[p]

(* Only a started producer reconnects, and p.mu keeps it started. *)
MovesStarted == \A p \in Producers : ~ Free(p) => state[p] = "start"

(* s.pending counts the goroutines inside the matching loop. *)
Adding == {c \in Consumers : pc[c] \in {"visit", "dialed", "matched", "tracked"}}
PendingCounts == pending = Cardinality(Adding)

TypeInv ==
  TypeOK /\ LocalsSet /\ OneWorker /\ WorkerIds /\ MovesStarted /\ PendingCounts

(* The changes of a goroutine's locals keep their types. *)
LEMMA LocalTypes ==
  ASSUME NEW l \in Locals, l.prods # <<>>
  PROVE  /\ NextProd(l) \in Locals
         /\ BreakProds(l) \in Locals
         /\ FailProd(l) \in Locals
         /\ [l EXCEPT !.starts = Append(@, Head(l.prods))] \in Locals
         /\ NextProd(l).then = l.then
<1>1. Head(l.prods) \in Producers /\ Tail(l.prods) \in Seq(Producers)
  BY HeadTailProperties DEF Locals
<1>2. Append(l.starts, Head(l.prods)) \in Seq(Producers)
  BY <1>1, AppendProperties DEF Locals
<1>3. <<>> \in Seq(Producers)
  BY EmptySeq
<1> QED
  BY <1>1, <1>2, <1>3 DEF Locals, NextProd, BreakProds, FailProd

LEMMA StartTypes ==
  ASSUME NEW c \in Consumers, loc[c] \in Locals, loc[c].prods # <<>>
  PROVE  StartProd(c) \in Locals
<1> DEFINE l == [loc[c] EXCEPT !.starts = Append(@, Prod(c))]
<1>1. l \in Locals /\ l.prods = loc[c].prods
  BY LocalTypes DEF Prod, Locals
<1>2. NextProd(l) \in Locals /\ BreakProds(l) \in Locals
  <2> HIDE DEF l
  <2> QED BY <1>1, LocalTypes
<1> QED
  BY <1>2 DEF StartProd

(* The initial state. *)
LEMMA TypeInit == Init => TypeInv
<1> SUFFICES ASSUME Init PROVE TypeInv
  OBVIOUS
<1>1. /\ \A S : <<>> \in Seq(S)
      /\ Adding = {}
      /\ Cardinality({}) = 0
  BY EmptySeq, FS_EmptySet DEF Init, Adding
<1>2. TypeOK
  BY <1>1, StreamsAssumption
  DEF Init, TypeOK, Idle, NoLocals, Moves, Locals, Places, Conns
<1>3. LocalsSet /\ OneWorker /\ WorkerIds /\ MovesStarted /\ PendingCounts
  BY <1>1 DEF Init, LocalsSet, SetAt, OneWorker, Current, WorkerIds, MovesStarted, Free, Idle,
              PendingCounts
<1> QED
  BY <1>2, <1>3 DEF TypeInv
-----------------------------------------------------------------------------
(* The conjuncts of TypeInv by the part of the state they are about. *)
ProdInv ==
  /\ state \in [Producers -> {"none", "medias", "tracks", "start"}]
  /\ conn \in [Producers -> Conns \cup {NoConn}]
  /\ \A p \in Producers : state[p] = "none" <=> conn[p] = NoConn
  /\ gen \in [Producers -> Nat]
  /\ loops \in [Producers -> SUBSET [id : Nat, at : {"run", "ended"}]]
  /\ OneWorker /\ WorkerIds

ListInv ==
  /\ recv \in [Producers -> SUBSET Tracks]
  /\ send \in [Producers -> SUBSET Consumers]
  /\ move \in [Producers -> Moves]
  /\ MovesStarted

NodeInv ==
  /\ dialed \in 0 .. MaxConn
  /\ offer \in [Conns -> SUBSET Kinds]
  /\ open \subseteq Producers \X Conns
  /\ readers \subseteq Tracks \X Consumers
  /\ fed \subseteq Consumers \X Conns
  /\ smu \in Consumers \cup {NoOne}
  /\ consumers \subseteq Consumers

LocalInv ==
  /\ pc \in [Consumers -> Places]
  /\ loc \in [Consumers -> Locals]
  /\ LocalsSet

PendingInv == pending \in Nat /\ PendingCounts

LEMMA TypeParts ==
  TypeInv <=> ProdInv /\ ListInv /\ NodeInv /\ LocalInv /\ PendingInv
  BY DEF TypeInv, TypeOK, ProdInv, ListInv, NodeInv, LocalInv, PendingInv

(* What a goroutine's place says about the heads it works on. *)
LEMMA Heads ==
  ASSUME LocalInv, NEW c \in Consumers
  PROVE  /\ loc[c] \in Locals
         /\ loc[c].prods # <<>> => Prod(c) \in Producers
         /\ loc[c].medias # <<>> => Kind(c) \in Kinds
         /\ loc[c].scan # <<>> => Head(loc[c].scan) \in Producers
         /\ loc[c].starts # <<>> => Head(loc[c].starts) \in Producers
<1>1. loc[c] \in Locals
  BY DEF LocalInv
<1> QED
  BY <1>1, HeadTailProperties DEF Locals, Prod, Kind

(* A step that moves one goroutine. *)
LEMMA LocalUpdate ==
  ASSUME LocalInv, NEW c \in Consumers, NEW place \in Places, NEW l \in Locals,
         pc' = [pc EXCEPT ![c] = place], loc' = [loc EXCEPT ![c] = l], SetAt(place, l)
  PROVE  LocalInv'
  BY DEF LocalInv, LocalsSet

(* Locals: every step of a goroutine leaves them typed. *)
LEMMA LocalStep == TypeInv /\ [Next]_vars => LocalInv'
<1> SUFFICES ASSUME TypeInv, [Next]_vars PROVE LocalInv'
  OBVIOUS
<1>0. LocalInv /\ ProdInv /\ ListInv
  BY TypeParts
<1>a. ProducerSeq \in Seq(Producers) /\ \A c \in Consumers : Wants[c] \in Seq(Kinds)
  BY StreamsAssumption
<1>b. ASSUME NEW S, NEW s \in Seq(S), s # <<>> PROVE Tail(s) \in Seq(S)
  BY <1>b, HeadTailProperties
<1>c. \A S : <<>> \in Seq(S)
  BY EmptySeq
<1>d. ASSUME NEW c \in Consumers, loc[c].prods # <<>>
      PROVE  NextProd(loc[c]) \in Locals /\ FailProd(loc[c]) \in Locals
  BY <1>0, <1>d, Heads, LocalTypes
<1>1. ASSUME NEW c \in Consumers, AddConsumer(c) PROVE LocalInv'
  <2> DEFINE l == [loc[c] EXCEPT !.medias = Wants[c], !.prods = ProducerSeq]
  <2>1. l \in Locals /\ SetAt("visit", l)
    BY <1>0, <1>a DEF LocalInv, Locals, SetAt
  <2>2. loc' = [loc EXCEPT ![c] = l] /\ pc' = [pc EXCEPT ![c] = "visit"]
    BY <1>0, <1>1 DEF AddConsumer, Goto, LocalInv, Locals
  <2> HIDE DEF l
  <2> QED
    BY <1>0, <2>1, <2>2, LocalUpdate DEF Places
<1>2. ASSUME NEW c \in Consumers, NextMedia(c) PROVE LocalInv'
  <2>1. Tail(loc[c].medias) \in Seq(Kinds)
    BY <1>0, <1>2, <1>b, Heads DEF NextMedia, Locals
  <2> DEFINE l == [loc[c] EXCEPT !.medias = Tail(@), !.prods = ProducerSeq]
  <2>2. l \in Locals /\ SetAt("visit", l)
    BY <1>0, <1>a, <2>1 DEF LocalInv, Locals, SetAt
  <2>3. pc' = [pc EXCEPT ![c] = "visit"]
    BY <1>0, <1>2 DEF NextMedia, LocalInv
  <2>4. loc' = [loc EXCEPT ![c] = l]
    BY <1>0, <1>2 DEF NextMedia, LocalInv, Locals
  <2> HIDE DEF l
  <2> QED
    BY <1>0, <2>2, <2>3, <2>4, LocalUpdate DEF Places
<1>3. ASSUME NEW c \in Consumers, SkipProducer(c) PROVE LocalInv'
  BY <1>0, <1>3, <1>d DEF SkipProducer, Visiting, LocalInv, LocalsSet, SetAt
<1>4. ASSUME NEW c \in Consumers, Dial(c) PROVE LocalInv'
  BY <1>0, <1>4, <1>d DEF Dial, Visiting, LocalInv, LocalsSet, SetAt, Goto, Places
<1>5. ASSUME NEW c \in Consumers, GetMedias(c) PROVE LocalInv'
  <2>1. loc[c].prods # <<>> /\ Prod(c) \in Producers
    BY <1>0, <1>5, Heads DEF GetMedias, LocalInv, LocalsSet, SetAt
  <2>2. conn[Prod(c)] # NoConn => [loc[c] EXCEPT !.from = conn[Prod(c)]] \in Locals
    <3>1. conn[Prod(c)] \in Conns \cup {NoConn} /\ loc[c] \in Locals
      BY <1>0, <2>1 DEF ProdInv, LocalInv
    <3> QED
      BY <3>1 DEF Locals
  <2>3. CASE pc' = [pc EXCEPT ![c] = "matched"]
    <3> DEFINE l == [loc[c] EXCEPT !.from = conn[Prod(c)]]
    <3>1. conn[Prod(c)] # NoConn /\ loc' = [loc EXCEPT ![c].from = conn[Prod(c)]]
      BY <1>0, <1>5, <2>3 DEF GetMedias, Goto, LocalInv
    <3>2. SetAt("dialed", loc[c]) /\ loc[c] \in Locals /\ conn[Prod(c)] \in Conns
      BY <1>0, <1>5, <2>1, <3>1 DEF GetMedias, LocalInv, LocalsSet, ProdInv
    <3>3. l \in Locals
      BY <2>2, <3>1
    <3>4. SetAt("matched", l)
      BY <3>2 DEF SetAt, Locals
    <3>5. loc' = [loc EXCEPT ![c] = l]
      BY <1>0, <3>1 DEF LocalInv
    <3> HIDE DEF l
    <3> QED
      BY <1>0, <2>3, <3>3, <3>4, <3>5, LocalUpdate DEF Places
  <2>4. CASE pc' = [pc EXCEPT ![c] = "visit"]
    BY <1>0, <1>5, <1>d, <2>1, <2>4, LocalUpdate
    DEF GetMedias, Goto, LocalInv, SetAt, Places
  <2> QED
    BY <1>5, <2>3, <2>4 DEF GetMedias, Goto
<1>6. ASSUME NEW c \in Consumers, GetTrack(c) PROVE LocalInv'
  <2>1. /\ loc[c].prods # <<>> /\ Prod(c) \in Producers
        /\ Kind(c) \in Kinds /\ loc[c].from \in Conns
    BY <1>0, <1>6, Heads DEF GetTrack, LocalInv, LocalsSet, SetAt
  <2>2. recv[Prod(c)] \subseteq Tracks
    BY <1>0, <2>1 DEF ListInv
  <2>3. state[Prod(c)] # "none" =>
          [conn |-> conn[Prod(c)], of |-> loc[c].from, kind |-> Kind(c)] \in Tracks
    BY <1>0, <2>1 DEF ProdInv, Tracks
  <2>4. ASSUME NEW t \in Tracks PROVE [loc[c] EXCEPT !.track = t] \in Locals
    BY <1>0 DEF LocalInv, Locals
  <2>5. ASSUME NEW t \in Tracks, pc' = [pc EXCEPT ![c] = "tracked"],
               loc' = [loc EXCEPT ![c].track = t]
        PROVE  LocalInv'
    <3>1. SetAt("tracked", [loc[c] EXCEPT !.track = t])
      BY <1>0, <1>6, <2>1 DEF LocalInv, LocalsSet, SetAt, GetTrack, Locals
    <3> QED
      BY <1>0, <2>4, <2>5, <3>1, LocalUpdate DEF Places
  <2>6. ASSUME pc' = [pc EXCEPT ![c] = "visit"], loc' = [loc EXCEPT ![c] = FailProd(@)]
        PROVE  LocalInv'
    BY <1>0, <1>d, <2>1, <2>6, LocalUpdate DEF Places, SetAt
  <2> QED
    BY <1>6, <2>2, <2>3, <2>5, <2>6 DEF GetTrack, Goto
<1>7. ASSUME NEW c \in Consumers, AddTrack(c) PROVE LocalInv'
  BY <1>0, <1>7, <1>d, StartTypes DEF AddTrack, LocalInv, LocalsSet, SetAt, Goto, Places
<1>8. ASSUME NEW c \in Consumers, AddBackTrack(c) PROVE LocalInv'
  BY <1>0, <1>8, <1>d, StartTypes DEF AddBackTrack, LocalInv, LocalsSet, SetAt, Goto, Places
<1>9. ASSUME NEW c \in Consumers, LeavePending(c) PROVE LocalInv'
  <2> DEFINE l == [loc[c] EXCEPT !.prods = <<>>, !.errs = {}]
  <2>1. l \in Locals /\ \A q \in {"load", "attach"} : SetAt(q, l)
    BY <1>0, <1>c DEF LocalInv, Locals, SetAt
  <2>2. loc' = [loc EXCEPT ![c] = l]
    BY <1>0, <1>9 DEF LeavePending, LocalInv, Locals
  <2>3. \E q \in {"load", "attach"} : pc' = [pc EXCEPT ![c] = q]
    BY <1>9 DEF LeavePending, Goto
  <2> HIDE DEF l
  <2> QED
    BY <1>0, <2>1, <2>2, <2>3, LocalUpdate DEF Places
<1>10. ASSUME NEW c \in Consumers, LoadPending(c) PROVE LocalInv'
  BY <1>0, <1>10 DEF LoadPending, LocalInv, LocalsSet, SetAt, Goto, Places, Locals
<1>11. ASSUME NEW c \in Consumers, LockStream(c) PROVE LocalInv'
  <2> DEFINE l == [loc[c] EXCEPT !.scan = ProducerSeq]
  <2>1. l \in Locals /\ SetAt("check", l)
    BY <1>0, <1>a DEF LocalInv, Locals, SetAt
  <2>2. loc' = [loc EXCEPT ![c] = l] /\ pc' = [pc EXCEPT ![c] = "check"]
    BY <1>0, <1>11 DEF LockStream, Goto, LocalInv
  <2> HIDE DEF l
  <2> QED
    BY <1>0, <2>1, <2>2, LocalUpdate DEF Places
<1>12. ASSUME NEW c \in Consumers, CheckProducer(c) PROVE LocalInv'
  <2>1. Tail(loc[c].scan) \in Seq(Producers)
    BY <1>0, <1>12, <1>b, Heads DEF CheckProducer, Locals
  <2>2. /\ [loc[c] EXCEPT !.scan = Tail(@)] \in Locals
        /\ SetAt("check", [loc[c] EXCEPT !.scan = Tail(@)])
    BY <1>0, <2>1 DEF LocalInv, Locals, SetAt
  <2>3. CASE Goto(c, "check", "stop") /\ UNCHANGED loc
    BY <1>0, <1>12, <2>3 DEF CheckProducer, LocalInv, LocalsSet, SetAt, Goto, Places
  <2>4. CASE loc' = [loc EXCEPT ![c].scan = Tail(@)] /\ UNCHANGED pc
    BY <1>0, <1>12, <2>2, <2>4 DEF CheckProducer, LocalInv, LocalsSet
  <2> QED
    BY <1>12, <2>3, <2>4 DEF CheckProducer
<1>13. ASSUME NEW c \in Consumers, StopProducer(c) PROVE LocalInv'
  <2>1. Tail(loc[c].scan) \in Seq(Producers)
    BY <1>0, <1>13, <1>b, Heads DEF StopProducer, Goto, Locals, LocalInv, LocalsSet, SetAt
  <2>2. /\ [loc[c] EXCEPT !.scan = Tail(@)] \in Locals
        /\ SetAt("check", [loc[c] EXCEPT !.scan = Tail(@)])
    BY <1>0, <2>1 DEF LocalInv, Locals, SetAt
  <2> QED
    BY <1>0, <1>13, <2>1, <2>2, LocalUpdate DEF StopProducer, Goto, Places
<1>14. ASSUME NEW c \in Consumers, UnlockStream(c) PROVE LocalInv'
  BY <1>0, <1>14 DEF UnlockStream, LocalInv, LocalsSet, SetAt, Goto, Places, Locals
<1>15. ASSUME NEW c \in Consumers, FailConsumer(c) PROVE LocalInv'
  BY <1>0, <1>15 DEF FailConsumer, LocalInv, LocalsSet, SetAt, Goto, Places
<1>16. ASSUME NEW c \in Consumers, AttachConsumer(c) PROVE LocalInv'
  BY <1>0, <1>16 DEF AttachConsumer, LocalInv, LocalsSet, SetAt, Goto, Places
<1>17. ASSUME NEW c \in Consumers, StartProducer(c) PROVE LocalInv'
  <2>1. Tail(loc[c].starts) \in Seq(Producers)
    BY <1>0, <1>17, <1>b, Heads DEF StartProducer, Locals, LocalInv, LocalsSet, SetAt
  <2> DEFINE l == [loc[c] EXCEPT !.starts = Tail(@)]
             place == IF Tail(loc[c].starts) = <<>> THEN "attached" ELSE "start"
  <2>2. l \in Locals /\ l.starts = Tail(loc[c].starts)
    BY <1>0, <2>1 DEF LocalInv, Locals
  <2>3. SetAt(place, l)
    BY <2>2 DEF SetAt
  <2>4. loc' = [loc EXCEPT ![c] = l] /\ pc' = [pc EXCEPT ![c] = place]
    BY <1>0, <1>17 DEF StartProducer, LocalInv
  <2>5. place \in Places
    BY DEF Places
  <2> HIDE DEF l, place
  <2> QED
    BY <1>0, <2>2, <2>3, <2>4, <2>5, LocalUpdate
<1>18. ASSUME NEW c \in Consumers, RemoveConsumer(c) PROVE LocalInv'
  BY <1>0, <1>18 DEF RemoveConsumer, LocalInv, LocalsSet, SetAt, Goto, Places
<1>19. ASSUME NEW c \in Consumers, DetachConsumer(c) PROVE LocalInv'
  <2> DEFINE l == [loc[c] EXCEPT !.then = "gone"]
  <2>1. l \in Locals /\ SetAt("load", l)
    BY <1>0 DEF LocalInv, Locals, SetAt
  <2>2. loc' = [loc EXCEPT ![c] = l] /\ pc' = [pc EXCEPT ![c] = "load"]
    BY <1>0, <1>19 DEF DetachConsumer, Goto, LocalInv
  <2> HIDE DEF l
  <2> QED
    BY <1>0, <2>1, <2>2, LocalUpdate DEF Places
<1>20. CASE UNCHANGED <<pc, loc>>
  BY <1>0, <1>20, SMTT(30) DEF LocalInv, LocalsSet, SetAt
<1> QED
  BY <1>1, <1>2, <1>3, <1>4, <1>5, <1>6, <1>7, <1>8, <1>9, <1>10, <1>11, <1>12, <1>13,
     <1>14, <1>15, <1>16, <1>17, <1>18, <1>19, <1>20
  DEF Next, ConsumerStep, MoveStep, SourceEnds, ExitStale, Reconnect, MoveTake, MovePut,
      MoveSkip, MoveBack, MoveEnd, Terminated, vars-----------------------------------------------------------------------------
(* Producers: starts, stops and reconnects leave one worker to each. *)
LEMMA ProdStep == TypeInv /\ [Next]_vars => ProdInv'
<1> SUFFICES ASSUME TypeInv, [Next]_vars PROVE ProdInv'
  OBVIOUS
<1>0. LocalInv /\ ProdInv /\ ListInv /\ NodeInv
  BY TypeParts
<1>a. NoConn \notin Conns
  BY StreamsAssumption
<1>b. dialed < MaxConn => dialed + 1 \in Conns
  BY <1>0, StreamsAssumption DEF NodeInv, Conns
<1>1. ASSUME NEW c \in Consumers, Dial(c) PROVE ProdInv'
  <2>1. Prod(c) \in Producers
    BY <1>0, <1>1, Heads DEF Dial, Visiting
  <2> QED
    BY <1>0, <1>1, <1>a, <1>b, <2>1 DEF Dial, OpenConn, ProdInv, OneWorker, WorkerIds, Current
<1>2. ASSUME NEW c \in Consumers, GetTrack(c) PROVE ProdInv'
  <2>1. Prod(c) \in Producers
    BY <1>0, <1>2, Heads DEF GetTrack, LocalInv, LocalsSet, SetAt
  <2> QED
    BY <1>0, <1>2, <2>1 DEF GetTrack, WithTracks, ProdInv, OneWorker, WorkerIds, Current
<1>3. ASSUME NEW c \in Consumers, AddBackTrack(c) PROVE ProdInv'
  <2>1. Prod(c) \in Producers
    BY <1>0, <1>3, Heads DEF AddBackTrack, Goto, LocalInv, LocalsSet, SetAt
  <2> QED
    BY <1>0, <1>3, <2>1 DEF AddBackTrack, WithTracks, ProdInv, OneWorker, WorkerIds, Current
<1>4. ASSUME NEW c \in Consumers, StopProducer(c) PROVE ProdInv'
  <2> DEFINE p == Head(loc[c].scan)
  <2>1. p \in Producers
    BY <1>0, <1>4, Heads DEF StopProducer, Goto, LocalInv, LocalsSet, SetAt
  <2>2. CASE state[p] = "none"
    BY <1>0, <1>4, <2>2 DEF StopProducer, ProdInv, OneWorker, WorkerIds, Current
  <2>3. CASE state[p] # "none"
    <3>1. /\ gen' = [gen EXCEPT ![p] = IF state[p] = "start" THEN @ + 1 ELSE @]
          /\ conn' = [conn EXCEPT ![p] = NoConn]
          /\ state' = [state EXCEPT ![p] = "none"]
          /\ loops' = loops
      BY <1>4, <2>3 DEF StopProducer
    <3>2. \A l \in loops[p] : l.id # gen'[p]
      BY <1>0, <2>1, <3>1 DEF ProdInv, OneWorker, WorkerIds, Current
    <3> HIDE DEF p
    <3> QED
      BY <1>0, <2>1, <3>1, <3>2 DEF ProdInv, OneWorker, WorkerIds, Current
  <2> QED
    BY <2>2, <2>3
<1>5. ASSUME NEW c \in Consumers, StartProducer(c) PROVE ProdInv'
  <2> DEFINE p == Head(loc[c].starts)
  <2>1. p \in Producers
    BY <1>0, <1>5, Heads DEF StartProducer, LocalInv, LocalsSet, SetAt
  <2>2. CASE state[p] # "tracks"
    BY <1>0, <1>5, <2>2 DEF StartProducer, ProdInv, OneWorker, WorkerIds, Current
  <2>3. CASE state[p] = "tracks"
    <3> DEFINE new == [id |-> gen[p] + 1, at |-> "run"]
    <3>1. /\ gen' = [gen EXCEPT ![p] = @ + 1]
          /\ state' = [state EXCEPT ![p] = "start"]
          /\ loops' = [loops EXCEPT ![p] = @ \cup {new}]
          /\ conn' = conn
      BY <1>5, <2>3 DEF StartProducer
    <3>2. new \in [id : Nat, at : {"run", "ended"}] /\ new.id = gen[p] + 1
      BY <1>0, <2>1 DEF ProdInv
    <3>3. \A l \in loops[p] : l.id # gen[p] + 1 /\ l.id <= gen[p] + 1
      BY <1>0, <2>1 DEF ProdInv, WorkerIds
    <3> HIDE DEF p, new
    <3> QED
      BY <1>0, <2>1, <2>3, <3>1, <3>2, <3>3 DEF ProdInv, OneWorker, WorkerIds, Current
  <2> QED
    BY <2>2, <2>3
<1>6. ASSUME NEW p \in Producers, SourceEnds(p) PROVE ProdInv'
  <2>1. PICK l \in loops[p] :
          /\ l.id = gen[p]
          /\ loops' = [loops EXCEPT ![p] = (@ \ {l}) \cup {[l EXCEPT !.at = "ended"]}]
    BY <1>6 DEF SourceEnds, Current
  <2> DEFINE end == [l EXCEPT !.at = "ended"]
  <2>2. end \in [id : Nat, at : {"run", "ended"}] /\ end.id = gen[p]
    BY <1>0, <2>1 DEF ProdInv
  <2>3. UNCHANGED <<state, conn, gen>>
    BY <1>6 DEF SourceEnds
  <2>4. \A m \in loops[p] \ {l} : m.id # gen[p]
    BY <1>0, <2>1 DEF ProdInv, OneWorker, Current
  <2>5. loops' = [loops EXCEPT ![p] = (@ \ {l}) \cup {end}]
    BY <2>1
  <2> HIDE DEF end
  <2>6. loops'[p] = (loops[p] \ {l}) \cup {end} /\ \A q \in Producers \ {p} : loops'[q] = loops[q]
    BY <1>0, <2>5 DEF ProdInv
  <2>7. state[p] = "start"
    BY <1>0, <2>1 DEF ProdInv, OneWorker, Current
  <2>8. ASSUME NEW q \in Producers PROVE
          /\ state[q] = "start" <=> \E m \in loops'[q] : m.id = gen[q]
          /\ \A m, n \in loops'[q] : m.id = gen[q] /\ n.id = gen[q] => m = n
          /\ \A m \in loops'[q] : m.id <= gen[q]
    BY <1>0, <2>2, <2>4, <2>6, <2>7 DEF ProdInv, OneWorker, WorkerIds, Current
  <2>9. loops' \in [Producers -> SUBSET [id : Nat, at : {"run", "ended"}]]
    BY <1>0, <2>2, <2>5 DEF ProdInv
  <2> QED
    BY <1>0, <2>3, <2>8, <2>9 DEF ProdInv, OneWorker, WorkerIds, Current
<1>7. ASSUME NEW p \in Producers, ExitStale(p) PROVE ProdInv'
  BY <1>0, <1>7 DEF ExitStale, ProdInv, OneWorker, WorkerIds, Current
<1>8. ASSUME NEW p \in Producers, MoveEnd(p) PROVE ProdInv'
  <2> DEFINE new == [id |-> gen[p], at |-> "run"]
  <2>1. /\ conn' = [conn EXCEPT ![p] = move[p].conn]
        /\ loops' = [loops EXCEPT ![p] = {l \in @ : l.id # gen[p]} \cup {new}]
        /\ UNCHANGED <<state, gen>>
    BY <1>8 DEF MoveEnd
  <2>2. new \in [id : Nat, at : {"run", "ended"}] /\ new.id = gen[p]
    BY <1>0 DEF ProdInv
  <2>3. move[p].conn \in Conns /\ state[p] = "start"
    BY <1>0, <1>8 DEF MoveEnd, ListInv, Moves, MovesStarted, Free
  <2> HIDE DEF new
  <2> QED
    BY <1>0, <1>a, <2>1, <2>2, <2>3 DEF ProdInv, OneWorker, WorkerIds, Current
<1>9. CASE UNCHANGED <<state, conn, gen, loops>>
  BY <1>0, <1>9 DEF ProdInv, OneWorker, WorkerIds, Current
<1> QED
  BY <1>1, <1>2, <1>3, <1>4, <1>5, <1>6, <1>7, <1>8, <1>9
  DEF Next, ConsumerStep, MoveStep, AddConsumer, NextMedia, SkipProducer, GetMedias,
      AddTrack, LeavePending, LoadPending, LockStream, CheckProducer, UnlockStream,
      FailConsumer, AttachConsumer, RemoveConsumer, DetachConsumer, Reconnect, MoveTake,
      MovePut, MoveSkip, MoveBack, Terminated, producerVars, vars-----------------------------------------------------------------------------
(* Track lists and reconnects: only a started producer is being moved. *)
LEMMA ListStep == TypeInv /\ [Next]_vars => ListInv'
<1> SUFFICES ASSUME TypeInv, [Next]_vars PROVE ListInv'
  OBVIOUS
<1>0. LocalInv /\ ProdInv /\ ListInv /\ NodeInv
  BY TypeParts
<1>a. dialed < MaxConn => dialed + 1 \in Conns
  BY <1>0, StreamsAssumption DEF NodeInv, Conns
<1>b. \A o \in Offers : o \subseteq Kinds
  BY StreamsAssumption
<1>1. ASSUME NEW c \in Consumers, Dial(c) PROVE ListInv'
  <2>1. Prod(c) \in Producers /\ Free(Prod(c))
    BY <1>0, <1>1, Heads DEF Dial, Visiting
  <2>2. /\ UNCHANGED <<recv, send, move>>
        /\ \A q \in Producers \ {Prod(c)} : state'[q] = state[q]
    BY <1>0, <1>1 DEF Dial, ProdInv
  <2> QED
    BY <1>0, <2>1, <2>2 DEF ListInv, MovesStarted, Free
<1>2. ASSUME NEW c \in Consumers, GetTrack(c) PROVE ListInv'
  <2>1. Prod(c) \in Producers /\ Free(Prod(c)) /\ Kind(c) \in Kinds /\ loc[c].from \in Conns
    BY <1>0, <1>2, Heads DEF GetTrack, LocalInv, LocalsSet, SetAt
  <2>2. state[Prod(c)] # "none" =>
          [conn |-> conn[Prod(c)], of |-> loc[c].from, kind |-> Kind(c)] \in Tracks
    BY <1>0, <2>1 DEF ProdInv, Tracks
  <2>3. ASSUME NEW t \in Tracks, recv' = WithReceiver(Prod(c), t)
        PROVE  recv' \in [Producers -> SUBSET Tracks]
    BY <1>0, <2>1, <2>3 DEF ListInv, WithReceiver
  <2>4. recv' \in [Producers -> SUBSET Tracks]
    BY <1>0, <1>2, <2>2, <2>3 DEF GetTrack, ListInv
  <2>5. UNCHANGED <<send, move>> /\ \A q \in Producers \ {Prod(c)} : state'[q] = state[q]
    BY <1>0, <1>2 DEF GetTrack, WithTracks, ProdInv
  <2> QED
    BY <1>0, <2>1, <2>4, <2>5 DEF ListInv, MovesStarted, Free
<1>3. ASSUME NEW c \in Consumers, AddBackTrack(c) PROVE ListInv'
  <2>1. Prod(c) \in Producers
    BY <1>0, <1>3, Heads DEF AddBackTrack, Goto, LocalInv, LocalsSet, SetAt
  <2> QED
    BY <1>0, <1>3, <2>1 DEF AddBackTrack, WithTracks, ListInv, ProdInv, MovesStarted, Free
<1>4. ASSUME NEW c \in Consumers, StopProducer(c) PROVE ListInv'
  <2>1. Head(loc[c].scan) \in Producers
    BY <1>0, <1>4, Heads DEF StopProducer, Goto, LocalInv, LocalsSet, SetAt
  <2> QED
    BY <1>0, <1>4, <2>1 DEF StopProducer, ListInv, ProdInv, MovesStarted, Free
<1>5. ASSUME NEW c \in Consumers, StartProducer(c) PROVE ListInv'
  <2>1. Head(loc[c].starts) \in Producers
    BY <1>0, <1>5, Heads DEF StartProducer, LocalInv, LocalsSet, SetAt
  <2> QED
    BY <1>0, <1>5, <2>1 DEF StartProducer, ListInv, ProdInv, MovesStarted, Free
<1>6. ASSUME NEW p \in Producers, Reconnect(p) PROVE ListInv'
  <2>1. state[p] = "start"
    BY <1>0, <1>6 DEF Reconnect, Current, ProdInv, OneWorker
  <2>2. PICK o \in Offers :
          /\ dialed < MaxConn
          /\ move' = [move EXCEPT ![p] = [Idle EXCEPT !.conn = dialed + 1, !.todo = o]]
    BY <1>6 DEF Reconnect, OpenConn
  <2>3. [Idle EXCEPT !.conn = dialed + 1, !.todo = o] \in Moves
    BY <1>a, <1>b, <2>2 DEF Idle, Moves
  <2>4. UNCHANGED <<state, recv, send>>
    BY <1>6 DEF Reconnect
  <2> QED
    BY <1>0, <2>1, <2>2, <2>3, <2>4 DEF ListInv, MovesStarted, Free
<1>7. ASSUME NEW p \in Producers, MoveTake(p) PROVE ListInv'
  <2>1. PICK t \in recv[p] :
          move' = [move EXCEPT ![p].track = t, ![p].kids = Kids(t)]
    BY <1>7 DEF MoveTake
  <2>2. /\ [move[p] EXCEPT !.track = t, !.kids = Kids(t)] \in Moves
        /\ move' = [move EXCEPT ![p] = [move[p] EXCEPT !.track = t, !.kids = Kids(t)]]
    BY <1>0, <2>1 DEF ListInv, Moves, Kids
  <2>3. UNCHANGED <<state, recv, send>>
    BY <1>7 DEF MoveTake
  <2>4. [move[p] EXCEPT !.track = t, !.kids = Kids(t)].conn = move[p].conn
    BY <1>0 DEF ListInv, Moves
  <2> QED
    BY <1>0, <2>2, <2>3, <2>4 DEF ListInv, MovesStarted, Free
<1>8. ASSUME NEW p \in Producers, MovePut(p) PROVE ListInv'
  <2> DEFINE t == move[p].track
             new == [conn |-> move[p].conn, of |-> move[p].conn, kind |-> t.kind]
             m == [move[p] EXCEPT !.todo = @ \ {t.kind}, !.track = NoTrack, !.kids = {}]
  <2>1. t \in Tracks /\ move[p].conn \in Conns
    BY <1>0, <1>8 DEF MovePut, ListInv, Moves, Free
  <2>2. new \in Tracks
    BY <2>1 DEF Tracks
  <2>3. m \in Moves /\ m.conn = move[p].conn /\ move' = [move EXCEPT ![p] = m]
    BY <1>0, <1>8 DEF MovePut, ListInv, Moves
  <2>4. recv' = [recv EXCEPT ![p] = (@ \ {t}) \cup {new}] /\ UNCHANGED <<state, send>>
    BY <1>8 DEF MovePut
  <2> HIDE DEF t, new, m
  <2> QED
    BY <1>0, <2>2, <2>3, <2>4 DEF ListInv, MovesStarted, Free
<1>9. ASSUME NEW p \in Producers, NEW k \in Kinds, UNCHANGED <<state, recv, send>>,
             move' = [move EXCEPT ![p].todo = @ \ {k}]
      PROVE  ListInv'
  BY <1>0, <1>9 DEF ListInv, Moves, MovesStarted, Free
<1>10. ASSUME NEW p \in Producers, MoveSkip(p) \/ MoveBack(p) PROVE ListInv'
  BY <1>0, <1>9, <1>10 DEF MoveSkip, MoveBack, ListInv, Moves
<1>11. ASSUME NEW p \in Producers, MoveEnd(p) PROVE ListInv'
  BY <1>0, <1>11 DEF MoveEnd, ListInv, MovesStarted, Free, Idle, Moves
<1>12. CASE UNCHANGED <<state, recv, send, move>>
  BY <1>0, <1>12, SMTT(30) DEF ListInv, MovesStarted, Free
<1> QED
  BY <1>1, <1>2, <1>3, <1>4, <1>5, <1>6, <1>7, <1>8, <1>10, <1>11, <1>12
  DEF Next, ConsumerStep, MoveStep, AddConsumer, NextMedia, SkipProducer, GetMedias,
      AddTrack, LeavePending, LoadPending, LockStream, CheckProducer, UnlockStream,
      FailConsumer, AttachConsumer, RemoveConsumer, DetachConsumer, SourceEnds, ExitStale,
      Terminated, producerVars, vars

(* Connections, children and s.mu: what steps put there has its type. *)
LEMMA NodeStep == TypeInv /\ [Next]_vars => NodeInv'
<1> SUFFICES ASSUME TypeInv, [Next]_vars PROVE NodeInv'
  OBVIOUS
<1>0. LocalInv /\ ProdInv /\ ListInv /\ NodeInv
  BY TypeParts
<1>a. ASSUME NEW p \in Producers, NEW o \in Offers, OpenConn(p, o)
      PROVE  dialed' \in 0 .. MaxConn /\ offer' \in [Conns -> SUBSET Kinds]
               /\ open' \subseteq Producers \X Conns
  BY <1>0, <1>a, StreamsAssumption DEF OpenConn, NodeInv, Conns
<1>b. ASSUME NEW p \in Producers, NEW n, StopConn(p, n)
      PROVE  open' \subseteq open /\ readers' \subseteq readers /\ fed' \subseteq fed
  BY <1>b DEF StopConn
<1>1. ASSUME NEW c \in Consumers, Dial(c) PROVE NodeInv'
  <2>1. Prod(c) \in Producers
    BY <1>0, <1>1, Heads DEF Dial, Visiting
  <2> QED
    BY <1>0, <1>1, <1>a, <2>1 DEF Dial, NodeInv, nodeVars, connVars, streamVars
<1>2. ASSUME NEW c \in Consumers, AddTrack(c) PROVE NodeInv'
  BY <1>0, <1>2 DEF AddTrack, Goto, NodeInv, LocalInv, LocalsSet, SetAt, connVars, streamVars
<1>3. ASSUME NEW c \in Consumers, AddBackTrack(c) PROVE NodeInv'
  <2>1. Prod(c) \in Producers
    BY <1>0, <1>3, Heads DEF AddBackTrack, Goto, LocalInv, LocalsSet, SetAt
  <2>2. state[Prod(c)] # "none" => conn[Prod(c)] \in Conns
    BY <1>0, <2>1 DEF ProdInv
  <2> QED
    BY <1>0, <1>3, <2>2 DEF AddBackTrack, NodeInv, connVars, streamVars
<1>4. ASSUME NEW c \in Consumers, StopProducer(c) PROVE NodeInv'
  <2>1. Head(loc[c].scan) \in Producers
    BY <1>0, <1>4, Heads DEF StopProducer, Goto, LocalInv, LocalsSet, SetAt
  <2>2. open' \subseteq open /\ readers' \subseteq readers /\ fed' \subseteq fed
    BY <1>4, <1>b, <2>1 DEF StopProducer, nodeVars
  <2>3. UNCHANGED <<dialed, offer, smu, consumers>>
    BY <1>4 DEF StopProducer, streamVars
  <2> QED
    BY <1>0, <2>2, <2>3 DEF NodeInv
<1>5. ASSUME NEW c \in Consumers, RemoveConsumer(c) PROVE NodeInv'
  BY <1>0, <1>5 DEF RemoveConsumer, NodeInv, connVars, streamVars
<1>6. ASSUME NEW p \in Producers, Reconnect(p) PROVE NodeInv'
  BY <1>0, <1>6, <1>a DEF Reconnect, NodeInv, nodeVars, streamVars
<1>7. ASSUME NEW p \in Producers, MoveTake(p) PROVE NodeInv'
  BY <1>0, <1>7 DEF MoveTake, NodeInv, connVars, streamVars
<1>8. ASSUME NEW p \in Producers, MovePut(p) PROVE NodeInv'
  <2> DEFINE new == [conn |-> move[p].conn, of |-> move[p].conn, kind |-> move[p].track.kind]
  <2>1. move[p].conn \in Conns /\ move[p].track \in Tracks /\ move[p].kids \subseteq Consumers
    BY <1>0, <1>8 DEF MovePut, ListInv, Moves, Free
  <2>2. new \in Tracks
    BY <2>1 DEF Tracks
  <2>3. readers' = {r \in readers : r[1] # new} \cup {<<new, c>> : c \in move[p].kids}
    BY <1>8 DEF MovePut
  <2>4. UNCHANGED <<dialed, offer, open, fed, smu, consumers>>
    BY <1>8 DEF MovePut, connVars, streamVars
  <2> HIDE DEF new
  <2> QED
    BY <1>0, <2>1, <2>2, <2>3, <2>4 DEF NodeInv
<1>9. ASSUME NEW p \in Producers, MoveBack(p) PROVE NodeInv'
  <2>1. move[p].conn \in Conns /\ send[p] \subseteq Consumers
    BY <1>0, <1>9 DEF MoveBack, ListInv, Moves, Free
  <2> QED
    BY <1>0, <1>9, <2>1 DEF MoveBack, NodeInv, connVars, streamVars
<1>10. ASSUME NEW p \in Producers, MoveEnd(p) PROVE NodeInv'
  BY <1>0, <1>10, <1>b DEF MoveEnd, NodeInv, streamVars
<1>11. ASSUME NEW c \in Consumers,
              LockStream(c) \/ UnlockStream(c) \/ AttachConsumer(c) \/ DetachConsumer(c)
       PROVE  NodeInv'
  BY <1>0, <1>11
  DEF LockStream, UnlockStream, AttachConsumer, DetachConsumer, NodeInv, connVars, nodeVars
<1>12. CASE UNCHANGED <<connVars, nodeVars, smu, consumers>>
  BY <1>0, <1>12, SMTT(30) DEF NodeInv, connVars, nodeVars
<1> QED
  BY <1>1, <1>2, <1>3, <1>4, <1>5, <1>6, <1>7, <1>8, <1>9, <1>10, <1>11, <1>12
  DEF Next, ConsumerStep, MoveStep, AddConsumer, NextMedia, SkipProducer, GetMedias,
      GetTrack, LeavePending, LoadPending, CheckProducer, FailConsumer, StartProducer,
      SourceEnds, ExitStale, MoveSkip, Terminated, streamVars, vars
(* s.pending: one for each goroutine that enters the loop, one less for    *)
(* each that leaves it.                                                    *)
LEMMA PendingStep == TypeInv /\ [Next]_vars => PendingInv'
<1> SUFFICES ASSUME TypeInv, [Next]_vars PROVE PendingInv'
  OBVIOUS
<1>0. LocalInv /\ PendingInv
  BY TypeParts
<1>a. IsFiniteSet(Adding)
  BY StreamsAssumption, FS_Subset DEF Adding
<1>1. ASSUME NEW c \in Consumers, AddConsumer(c) PROVE PendingInv'
  <2>1. Adding' = Adding \cup {c} /\ c \notin Adding
    BY <1>0, <1>1 DEF AddConsumer, Goto, Adding, LocalInv
  <2>2. Cardinality(Adding') = Cardinality(Adding) + 1
    BY <1>a, <2>1, FS_AddElement
  <2> QED
    BY <1>0, <1>1, <2>2 DEF AddConsumer, PendingInv, PendingCounts
<1>2. ASSUME NEW c \in Consumers, LeavePending(c) PROVE PendingInv'
  <2>1. Adding' = Adding \ {c} /\ c \in Adding
    BY <1>0, <1>2 DEF LeavePending, Goto, Adding, LocalInv
  <2>2. Cardinality(Adding') = Cardinality(Adding) - 1 /\ Cardinality(Adding') \in Nat
    BY <1>a, <2>1, FS_RemoveElement, FS_CardinalityType
  <2> QED
    BY <1>0, <1>2, <2>2 DEF LeavePending, PendingInv, PendingCounts
<1>3. ASSUME UNCHANGED pending, Adding' = Adding PROVE PendingInv'
  BY <1>0, <1>3 DEF PendingInv, PendingCounts
<1>4. ASSUME NEW c \in Consumers, NEW from, NEW to, Goto(c, from, to),
             from \in {"visit", "dialed", "matched", "tracked"} <=>
             to \in {"visit", "dialed", "matched", "tracked"}
      PROVE  Adding' = Adding
  BY <1>0, <1>4 DEF Goto, Adding, LocalInv
<1>5. ASSUME NEW c \in Consumers,
             Dial(c) \/ GetMedias(c) \/ GetTrack(c) \/ AddTrack(c) \/ AddBackTrack(c)
      PROVE  PendingInv'
  <2>1. UNCHANGED pending
    BY <1>5 DEF Dial, GetMedias, GetTrack, AddTrack, AddBackTrack, streamVars
  <2>2. Adding' = Adding
    BY <1>4, <1>5 DEF Dial, GetMedias, GetTrack, AddTrack, AddBackTrack, Adding
  <2> QED
    BY <1>3, <2>1, <2>2
<1>6. ASSUME NEW c \in Consumers,
             LoadPending(c) \/ LockStream(c) \/ CheckProducer(c) \/ StopProducer(c)
               \/ UnlockStream(c) \/ FailConsumer(c) \/ AttachConsumer(c)
               \/ StartProducer(c) \/ RemoveConsumer(c) \/ DetachConsumer(c)
      PROVE  PendingInv'
  <2>1. UNCHANGED pending
    BY <1>6 DEF LoadPending, LockStream, CheckProducer, StopProducer, UnlockStream,
                FailConsumer, AttachConsumer, StartProducer, RemoveConsumer,
                DetachConsumer, streamVars
  <2>2. pc[c] \notin {"visit", "dialed", "matched", "tracked"}
    BY <1>6 DEF LoadPending, LockStream, CheckProducer, StopProducer, UnlockStream,
                FailConsumer, AttachConsumer, StartProducer, RemoveConsumer,
                DetachConsumer, Goto
  <2>3. loc[c].then \in {"attach", "gone"}
    BY <1>0, Heads DEF Locals
  <2>4. \E q \in Places \ {"visit", "dialed", "matched", "tracked"} :
          pc' = [pc EXCEPT ![c] = q]
    BY <1>0, <1>6, <2>2, <2>3
    DEF LoadPending, LockStream, CheckProducer, StopProducer, UnlockStream,
        FailConsumer, AttachConsumer, StartProducer, RemoveConsumer, DetachConsumer,
        Goto, LocalInv, Places
  <2>5. Adding' = Adding
    BY <1>0, <2>2, <2>4 DEF Adding, LocalInv
  <2> QED
    BY <1>3, <2>1, <2>5
<1>7. CASE UNCHANGED <<pending, pc>>
  BY <1>3, <1>7 DEF Adding
<1> QED
  BY <1>1, <1>2, <1>5, <1>6, <1>7
  DEF Next, ConsumerStep, MoveStep, NextMedia, SkipProducer, SourceEnds, ExitStale,
      Reconnect, MoveTake, MovePut, MoveSkip, MoveBack, MoveEnd, Terminated,
      streamVars, vars
-----------------------------------------------------------------------------
LEMMA TypeStep == TypeInv /\ [Next]_vars => TypeInv'
<1> SUFFICES ASSUME TypeInv, [Next]_vars PROVE TypeInv'
  OBVIOUS
<1>1. ProdInv' /\ ListInv' /\ NodeInv' /\ LocalInv' /\ PendingInv'
  BY ProdStep, ListStep, NodeStep, LocalStep, PendingStep
<1> QED
  BY <1>1
  DEF TypeInv, TypeOK, ProdInv, ListInv, NodeInv, LocalInv, PendingInv

LEMMA TypeInductive == Spec => []TypeInv
<1>1. QED
  BY TypeInit, TypeStep, PTL DEF Spec

(* The variables keep their types; no method of a producer meets a nil     *)
(* connection (producer.go:57-132).                                        *)
THEOREM TypeCorrect == Spec => []TypeOK
<1>1. TypeInv => TypeOK
  BY DEF TypeInv
<1>2. QED
  BY <1>1, TypeInductive, PTL

(* However AddConsumer, RemoveConsumer, ends of sources and reconnects of  *)
(* any number of consumers interleave, a started producer has one worker   *)
(* and a producer that is not started has none (producer.go:144-270).      *)
THEOREM OneWorkerSafe == Spec => []OneWorker
<1>1. TypeInv => OneWorker
  BY SMTT(30) DEF TypeInv
<1>2. QED
  BY <1>1, TypeInductive, PTL
-----------------------------------------------------------------------------
(* The connections of a stream: none is left behind, and each producer     *)
(* keeps SourceLink's promise.                                             *)

(* A producer's open connections are the one it holds and the one that is  *)
(* to replace it, which is the younger.                                    *)
LinkOK(p) ==
  /\ \A n \in Conns : <<p, n>> \in open <=> n = conn[p] \/ n = move[p].conn
  /\ conn[p] \in Conns => conn[p] <= dialed
  /\ move[p].conn \in Conns =>
       /\ conn[p] \in Conns
       /\ conn[p] < move[p].conn
       /\ move[p].conn <= dialed

LinkInv == \A p \in Producers : LinkOK(p)

(* link[p] of the refinement mapping. *)
LinkOf(p) == {n \in Conns : <<p, n>> \in open}

(* What a step may do to the connections. *)
Dials(p) ==
  /\ state[p] = "none" /\ Free(p) /\ dialed < MaxConn
  /\ dialed' = dialed + 1
  /\ open' = open \cup {<<p, dialed + 1>>}
  /\ conn' = [conn EXCEPT ![p] = dialed + 1]
  /\ move' = move

Replaces(p) ==
  /\ state[p] = "start" /\ Free(p) /\ dialed < MaxConn
  /\ dialed' = dialed + 1
  /\ open' = open \cup {<<p, dialed + 1>>}
  /\ conn' = conn
  /\ move'[p].conn = dialed + 1
  /\ \A q \in Producers \ {p} : move'[q] = move[q]

Swaps(p) ==
  /\ ~ Free(p)
  /\ open' = open \ {<<p, conn[p]>>}
  /\ conn' = [conn EXCEPT ![p] = move[p].conn]
  /\ move'[p].conn = NoConn
  /\ \A q \in Producers \ {p} : move'[q] = move[q]
  /\ dialed' = dialed

Closes(p) ==
  /\ Free(p) /\ state[p] # "none"
  /\ open' = open \ {<<p, conn[p]>>}
  /\ conn' = [conn EXCEPT ![p] = NoConn]
  /\ UNCHANGED <<move, dialed>>

Keeps ==
  /\ UNCHANGED <<open, conn, dialed>>
  /\ \A q \in Producers : move'[q].conn = move[q].conn

(* Every step does one of these things. *)
LEMMA LinkSteps ==
  TypeInv /\ [Next]_vars =>
    Keeps \/ \E p \in Producers : Dials(p) \/ Replaces(p) \/ Swaps(p) \/ Closes(p)
<1> SUFFICES ASSUME TypeInv, [Next]_vars
    PROVE Keeps \/ \E p \in Producers : Dials(p) \/ Replaces(p) \/ Swaps(p) \/ Closes(p)
  OBVIOUS
<1>0. LocalInv /\ ProdInv /\ ListInv /\ NodeInv
  BY TypeParts
<1>1. ASSUME NEW c \in Consumers, Dial(c) PROVE Keeps \/ Dials(Prod(c))
  BY <1>1 DEF Dial, OpenConn, Dials, Keeps, connVars
<1>2. ASSUME NEW c \in Consumers, Dial(c) PROVE Prod(c) \in Producers
  BY <1>0, <1>2, Heads DEF Dial, Visiting
<1>3. ASSUME NEW c \in Consumers, StopProducer(c)
      PROVE  Keeps \/ Closes(Head(loc[c].scan))
  BY <1>3 DEF StopProducer, StopConn, Closes, Keeps
<1>4. ASSUME NEW c \in Consumers, StopProducer(c) PROVE Head(loc[c].scan) \in Producers
  BY <1>0, <1>4, Heads DEF StopProducer, Goto, LocalInv, LocalsSet, SetAt
<1>5. ASSUME NEW p \in Producers, Reconnect(p) PROVE Replaces(p)
  <2>1. state[p] = "start"
    BY <1>0, <1>5 DEF Reconnect, Current, ProdInv, OneWorker
  <2> QED
    BY <1>0, <1>5, <2>1 DEF Reconnect, OpenConn, Replaces, ListInv, Idle
<1>6. ASSUME NEW p \in Producers, MoveEnd(p) PROVE Swaps(p)
  BY <1>0, <1>6 DEF MoveEnd, StopConn, Swaps, ListInv, Idle
<1>7. ASSUME NEW p \in Producers, MoveTake(p) \/ MovePut(p) \/ MoveSkip(p) \/ MoveBack(p)
      PROVE  Keeps
  <2>1. UNCHANGED <<open, conn, dialed>>
    BY <1>7 DEF MoveTake, MovePut, MoveSkip, MoveBack, connVars
  <2>2. CASE MoveTake(p)
    BY <1>0, <2>1, <2>2 DEF MoveTake, Keeps, ListInv, Moves
  <2>3. CASE MovePut(p)
    BY <1>0, <2>1, <2>3 DEF MovePut, Keeps, ListInv, Moves
  <2>4. CASE MoveSkip(p) \/ MoveBack(p)
    BY <1>0, <2>1, <2>4 DEF MoveSkip, MoveBack, Keeps, ListInv, Moves
  <2> QED
    BY <1>7, <2>2, <2>3, <2>4
<1>8. CASE UNCHANGED <<open, conn, dialed, move>>
  BY <1>8 DEF Keeps
<1> QED
  BY <1>1, <1>2, <1>3, <1>4, <1>5, <1>6, <1>7, <1>8
  DEF Next, ConsumerStep, MoveStep, AddConsumer, NextMedia, SkipProducer, GetMedias,
      GetTrack, AddTrack, AddBackTrack, LeavePending, LoadPending, LockStream,
      CheckProducer, UnlockStream, FailConsumer, AttachConsumer, StartProducer,
      RemoveConsumer, DetachConsumer, SourceEnds, ExitStale, Terminated, producerVars,
      connVars, vars

LEMMA LinkInit == Init => LinkInv
  BY StreamsAssumption DEF Init, LinkInv, LinkOK, Idle

LEMMA LinkStep == TypeInv /\ LinkInv /\ [Next]_vars => LinkInv'
<1> SUFFICES ASSUME TypeInv, LinkInv, [Next]_vars PROVE LinkInv'
  OBVIOUS
<1>0. ProdInv /\ ListInv /\ NodeInv
  BY TypeParts
<1>a. NoConn \notin Conns /\ (\A n \in Conns : n \in Int) /\ dialed \in Int
  BY <1>0, StreamsAssumption DEF Conns, NodeInv
<1>b. dialed < MaxConn => dialed + 1 \in Conns
  BY <1>0, StreamsAssumption DEF Conns, NodeInv
<1>c. \A p \in Producers : LinkOK(p)
  BY DEF LinkInv
<1>1. CASE Keeps
  BY <1>1 DEF Keeps, LinkInv, LinkOK
<1>2. ASSUME NEW p \in Producers, Dials(p) PROVE LinkInv'
  <2>1. conn'[p] = dialed + 1 /\ dialed + 1 \in Conns /\ conn[p] = NoConn
    BY <1>0, <1>2, <1>b DEF Dials, ProdInv
  <2>2. LinkOK(p)'
    BY <1>2, <1>a, <2>1 DEF Dials, LinkInv, LinkOK, Free
  <2>3. ASSUME NEW q \in Producers, q # p PROVE LinkOK(q)'
    <3>1. conn'[q] = conn[q] /\ move'[q] = move[q] /\ dialed' = dialed + 1
      BY <1>0, <1>2, <2>3 DEF Dials, ProdInv
    <3>2. \A n \in Conns : <<q, n>> \in open' <=> <<q, n>> \in open
      BY <1>2, <2>3 DEF Dials
    <3>3. LinkOK(q)
      BY <1>c
    <3>4. \A n \in Conns : n <= dialed => n <= dialed'
      BY <1>a, <3>1
    <3> QED
      BY <3>1, <3>2, <3>3, <3>4 DEF LinkOK
  <2> QED
    BY <2>2, <2>3 DEF LinkInv
<1>3. ASSUME NEW p \in Producers, Replaces(p) PROVE LinkInv'
  <2>1. conn[p] \in Conns /\ dialed + 1 \in Conns
    BY <1>0, <1>3, <1>b DEF Replaces, ProdInv
  <2>2. LinkOK(p)'
    <3>1. LinkOK(p) /\ move[p].conn = NoConn /\ move'[p].conn = dialed + 1 /\ conn' = conn
            /\ dialed' = dialed + 1
      BY <1>3, <1>c DEF Replaces, Free
    <3>2. \A n \in Conns : <<p, n>> \in open' <=> <<p, n>> \in open \/ n = dialed + 1
      BY <1>3 DEF Replaces
    <3>3. conn[p] <= dialed /\ conn[p] < dialed + 1 /\ conn[p] <= dialed + 1
      BY <1>a, <2>1, <3>1 DEF LinkOK
    <3>4. \A n \in Conns : <<p, n>> \in open' <=> n = conn'[p] \/ n = move'[p].conn
      BY <1>a, <3>1, <3>2 DEF LinkOK
    <3> QED
      BY <1>a, <2>1, <3>1, <3>3, <3>4 DEF LinkOK
  <2>3. ASSUME NEW q \in Producers, q # p PROVE LinkOK(q)'
    <3>1. \A n \in Conns : <<q, n>> \in open' <=> <<q, n>> \in open
      BY <1>3, <2>3 DEF Replaces
    <3>2. LinkOK(q) /\ conn' = conn /\ move'[q] = move[q] /\ dialed' = dialed + 1
      BY <1>3, <1>c, <2>3 DEF Replaces
    <3>3. \A n \in Conns : n <= dialed => n <= dialed'
      BY <1>a, <3>2
    <3> QED
      BY <3>1, <3>2, <3>3 DEF LinkOK
  <2> QED
    BY <2>2, <2>3 DEF LinkInv
<1>4. ASSUME NEW p \in Producers, Swaps(p) PROVE LinkInv'
  BY <1>0, <1>4, <1>a DEF Swaps, LinkInv, LinkOK, ProdInv, ListInv, Moves, Free
<1>5. ASSUME NEW p \in Producers, Closes(p) PROVE LinkInv'
  BY <1>0, <1>5, <1>a DEF Closes, LinkInv, LinkOK, ProdInv, Free
<1> QED
  BY LinkSteps, <1>1, <1>2, <1>3, <1>4, <1>5

LEMMA LinkInductive == Spec => [](TypeInv /\ LinkInv)
<1>1. QED
  BY TypeInit, TypeStep, LinkInit, LinkStep, PTL DEF Spec
(* No connection outlives its producer's interest in it, whatever dials,   *)
(* stops and reconnects interleave (producer.go:57-72, 176-270).           *)
THEOREM NoGhostSafe == Spec => []NoGhost
<1>1. TypeInv /\ LinkInv => NoGhost
  <2> SUFFICES ASSUME TypeInv, LinkInv PROVE NoGhost
    OBVIOUS
  <2>0. ProdInv /\ ListInv /\ NodeInv /\ NoConn \notin Conns
    BY TypeParts, StreamsAssumption
  <2>1. \A p \in Producers : conn[p] # NoConn => conn[p] \in Conns
    BY <2>0 DEF ProdInv
  <2>2. \A p \in Producers : ~ Free(p) => move[p].conn \in Conns
    BY <2>0 DEF ListInv, Moves, Free
  <2>3. ASSUME NEW p \in Producers, NEW n \in Conns
        PROVE  <<p, n>> \in open <=>
                 \/ n = conn[p] /\ conn[p] # NoConn
                 \/ n = move[p].conn /\ ~ Free(p)
    <3>1. LinkOK(p)
      BY DEF LinkInv
    <3>2. n # NoConn
      BY <2>0
    <3> QED
      BY <3>1, <3>2 DEF LinkOK, Free
  <2> DEFINE held == {<<p, conn[p]>> : p \in {q \in Producers : conn[q] # NoConn}}
             coming == {<<p, move[p].conn>> : p \in {q \in Producers : ~ Free(q)}}
  <2>4. ASSUME NEW p \in Producers, NEW n \in Conns
        PROVE  <<p, n>> \in open <=> <<p, n>> \in held \cup coming
    <3>1. <<p, n>> \in held <=> n = conn[p] /\ conn[p] # NoConn
      OBVIOUS
    <3>2. <<p, n>> \in coming <=> n = move[p].conn /\ ~ Free(p)
      OBVIOUS
    <3> QED
      BY <2>3, <3>1, <3>2
  <2>5. held \subseteq Producers \X Conns /\ coming \subseteq Producers \X Conns
    BY <2>1, <2>2
  <2>6. open \subseteq Producers \X Conns
    BY <2>0 DEF NodeInv
  <2> HIDE DEF held, coming
  <2>7. open = held \cup coming
    BY <2>4, <2>5, <2>6
  <2> QED
    BY <2>7 DEF held, coming, NoGhost
<1>2. QED
  BY <1>1, LinkInductive, PTL

(* Every step of a stream is a step of SourceLink or changes no link. *)
LEMMA LinkRefines ==
  TypeInv /\ LinkInv /\ [Next]_vars =>
    [Link!Next]_<<[p \in Producers |-> LinkOf(p)], 1 .. dialed>>
<1> SUFFICES ASSUME TypeInv, LinkInv, [Next]_vars
    PROVE [Link!Next]_<<[p \in Producers |-> LinkOf(p)], 1 .. dialed>>
  OBVIOUS
<1> DEFINE link == [p \in Producers |-> LinkOf(p)]
<1>0. ProdInv /\ ListInv /\ NodeInv
  BY TypeParts
<1>a. NoConn \notin Conns /\ (\A n \in Conns : n \in Int) /\ dialed \in Int
  BY <1>0, StreamsAssumption DEF Conns, NodeInv
<1>b. dialed < MaxConn => dialed + 1 \in Conns /\ 1 .. (dialed + 1) = (1 .. dialed) \cup {dialed + 1}
  BY <1>0, StreamsAssumption DEF Conns, NodeInv
<1>c. \A p \in Producers : LinkOK(p)
  BY DEF LinkInv
<1>1. CASE Keeps
  BY <1>1 DEF Keeps, LinkOf
<1>2. ASSUME NEW p \in Producers, Dials(p) \/ Replaces(p)
      PROVE  /\ link' = [link EXCEPT ![p] = @ \cup {dialed + 1}]
             /\ dialed + 1 \in Conns \ (1 .. dialed)
             /\ 1 .. dialed' = (1 .. dialed) \cup {dialed + 1}
  <2>1. link' = [link EXCEPT ![p] = @ \cup {dialed + 1}]
    BY <1>0, <1>2, <1>b DEF Dials, Replaces, LinkOf
  <2> QED
    BY <1>2, <1>a, <1>b, <2>1 DEF Dials, Replaces
<1>3. ASSUME NEW p \in Producers, Dials(p) PROVE Link!Connect(p)
  <2>1. conn[p] = NoConn /\ move[p].conn = NoConn /\ LinkOK(p)
    BY <1>0, <1>3, <1>c DEF Dials, ProdInv, Free
  <2>2. link[p] = {}
    BY <1>a, <2>1 DEF LinkOf, LinkOK
  <2> QED
    BY <1>2, <1>3, <2>2 DEF Link!Connect, Link!OpenLink, LinkOf
<1>4. ASSUME NEW p \in Producers, Replaces(p) PROVE Link!Overlap(p)
  <2>1. conn[p] \in Conns /\ LinkOK(p) /\ move[p].conn = NoConn
    BY <1>0, <1>4, <1>c DEF Replaces, ProdInv, Free
  <2>2. conn[p] < dialed + 1
    BY <1>a, <2>1 DEF LinkOK
  <2>3. link[p] = {conn[p]}
    BY <1>a, <2>1 DEF LinkOf, LinkOK
  <2> QED
    BY <1>2, <1>4, <2>1, <2>2, <2>3 DEF Link!Overlap, Link!OpenLink, LinkOf
<1>5. ASSUME NEW p \in Producers, Swaps(p) PROVE Link!HandOver(p)
  <2>1. /\ conn[p] \in Conns /\ move[p].conn \in Conns
        /\ conn[p] < move[p].conn /\ LinkOK(p)
    BY <1>0, <1>5, <1>c DEF LinkOK, Swaps, Free, ListInv, Moves
  <2>2. conn[p] \in link[p] /\ move[p].conn \in link[p]
    BY <2>1 DEF LinkOf, LinkOK
  <2>3. LinkOf(p)' = {move[p].conn}
    <3>1. \A n \in Conns : <<p, n>> \in open' <=> <<p, n>> \in open /\ n # conn[p]
      BY <1>5 DEF Swaps
    <3>2. conn[p] # move[p].conn
      BY <1>a, <2>1
    <3> QED
      BY <2>1, <3>1, <3>2 DEF LinkOf, LinkOK
  <2>4. \A q \in Producers \ {p} : LinkOf(q)' = LinkOf(q)
    BY <1>5 DEF LinkOf, Swaps
  <2>5. link' = [link EXCEPT ![p] = {move[p].conn}]
    BY <2>3, <2>4
  <2>6. dialed' = dialed
    BY <1>5 DEF Swaps
  <2> QED
    BY <2>1, <2>2, <2>5, <2>6 DEF Link!HandOver, LinkOf
<1>6. ASSUME NEW p \in Producers, Closes(p) PROVE Link!Disconnect(p)
  <2>0. conn[p] \in Conns /\ move[p].conn = NoConn /\ LinkOK(p)
    BY <1>0, <1>6, <1>c DEF Closes, ProdInv, Free
  <2>1. link[p] = {conn[p]}
    BY <1>a, <2>0 DEF LinkOf, LinkOK
  <2>2. LinkOf(p)' = {} /\ \A q \in Producers \ {p} : LinkOf(q)' = LinkOf(q)
    BY <1>6, <1>a, <2>0 DEF LinkOf, LinkOK, Closes
  <2>3. link' = [link EXCEPT ![p] = {}]
    BY <2>2
  <2>4. dialed' = dialed
    BY <1>6 DEF Closes
  <2> QED
    BY <2>0, <2>1, <2>3, <2>4 DEF Link!Disconnect, LinkOf
<1> QED
  BY LinkSteps, <1>1, <1>3, <1>4, <1>5, <1>6 DEF Link!Next

(* Each producer has at most one connection to its source, two while a     *)
(* reconnect hands over, and never uses a stopped one again: the stream    *)
(* implements SourceLink.                                                  *)
THEOREM LinkImplemented == Spec => ImplementsLink
<1>1. Init => Link!Init
  BY StreamsAssumption DEF Init, Link!Init
<1>2. QED
  BY <1>1, LinkInductive, LinkRefines, PTL DEF Spec, ImplementsLink, Link!Spec, LinkOf
-----------------------------------------------------------------------------
(* Who reads from a producer is in its list of receivers.                  *)

(* No two producers share a connection. *)
Apart ==
  \A p, q \in Producers : \A n \in Conns :
    <<p, n>> \in open /\ <<q, n>> \in open => p = q

(* A track somebody reads from, or is about to. *)
Known(t) ==
  \/ \E c \in Consumers : <<t, c>> \in readers
  \/ \E c \in Consumers : pc[c] = "tracked" /\ loc[c].track = t

Feeds(q, t) == t.conn = conn[q] \/ t.conn = move[q].conn

KnownOK(t) ==
  /\ t.conn <= dialed
  /\ \A q \in Producers :
       (Free(q) /\ t.conn = conn[q]) \/ t.conn = move[q].conn => t \in recv[q]

(* A receiver may have lost its connection, but has no other producer's;   *)
(* when a reconnect has given it the new one its media is done with.       *)
ListedOK(p) ==
  \A t \in recv[p] :
    /\ t.conn <= dialed
    /\ \A q \in Producers : Feeds(q, t) => q = p
    /\ t.conn = move[p].conn => t.kind \notin move[p].todo

(* Only a track of an earlier connection is being replaced. *)
MovedOK(p) ==
  move[p].track # NoTrack => ~ Free(p) /\ move[p].track.conn # move[p].conn

SeenInv ==
  /\ \A t \in Tracks : Known(t) => KnownOK(t)
  /\ \A p \in Producers : ListedOK(p) /\ MovedOK(p)

(* Nothing is open and nobody reads. *)
LEMMA SeenInit == Init => Apart /\ SeenInv
  BY DEF Init, Apart, SeenInv, Known, ListedOK, MovedOK, Idle

(* A connection that is dialled is nobody's yet. *)
LEMMA ApartStep == TypeInv /\ LinkInv /\ Apart /\ [Next]_vars => Apart'
<1> SUFFICES ASSUME TypeInv, LinkInv, Apart, [Next]_vars PROVE Apart'
  OBVIOUS
<1>1. NodeInv /\ dialed \in Int /\ NoConn \notin Conns /\ \A n \in Conns : n \in Int
  BY TypeParts, StreamsAssumption DEF NodeInv, Conns
<1>2. ASSUME NEW p \in Producers, Dials(p) \/ Replaces(p) PROVE Apart'
  <2>1. open' = open \cup {<<p, dialed + 1>>}
    BY <1>2 DEF Dials, Replaces
  <2>2. ASSUME NEW q \in Producers, NEW n \in Conns, <<q, n>> \in open PROVE n <= dialed
    BY <2>2, <1>1 DEF LinkInv, LinkOK
  <2>3. \A q \in Producers : dialed + 1 \in Conns => <<q, dialed + 1>> \notin open
    BY <2>2, <1>1
  <2> QED
    BY <2>1, <2>3 DEF Apart
<1>3. CASE open' \subseteq open
  BY <1>3 DEF Apart
<1> QED
  BY <1>2, <1>3, LinkSteps DEF Keeps, Swaps, Closes

(* What belongs to one producer is no other's. *)
LEMMA OneOwner ==
  ASSUME LinkInv, Apart, NEW p \in Producers, NEW q \in Producers, NEW n \in Conns,
         n = conn[p] \/ n = move[p].conn, n = conn[q] \/ n = move[q].conn
  PROVE  p = q
  BY DEF LinkInv, LinkOK, Apart

(* A step that leaves lists and connections alone, and gives nobody a      *)
(* track.                                                                  *)
LEMMA SeenKept ==
  ASSUME SeenInv, UNCHANGED <<conn, recv, move, dialed>>,
         \A t \in Tracks : Known(t)' => Known(t)
  PROVE  SeenInv'
  BY DEF SeenInv, KnownOK, ListedOK, MovedOK, Feeds, Free

(* AddConsumer and RemoveConsumer, but for GetTrack, Dial and StopProducer, *)
(* give nobody a track that was not known.                                  *)
LEMMA QuietSteps ==
  ASSUME TypeInv, NEW c \in Consumers,
         \/ AddConsumer(c) \/ NextMedia(c) \/ SkipProducer(c) \/ GetMedias(c) \/ AddTrack(c)
         \/ AddBackTrack(c) \/ LeavePending(c) \/ LoadPending(c) \/ LockStream(c)
         \/ CheckProducer(c) \/ UnlockStream(c) \/ FailConsumer(c) \/ AttachConsumer(c)
         \/ StartProducer(c) \/ RemoveConsumer(c) \/ DetachConsumer(c)
  PROVE  /\ UNCHANGED <<conn, recv, move, dialed>>
         /\ \A t \in Tracks : Known(t)' => Known(t)
<1>0. LocalInv /\ NodeInv
  BY TypeParts
<1>1. /\ UNCHANGED <<conn, recv, move, dialed>>
      /\ \A d \in Consumers \ {c} : pc'[d] = pc[d] /\ loc'[d] = loc[d]
      /\ pc'[c] # "tracked"
      /\ \/ readers' \subseteq readers
         \/ pc[c] = "tracked" /\ readers' = readers \cup {<<loc[c].track, c>>}
  <2>1. CASE AddConsumer(c) \/ NextMedia(c) \/ SkipProducer(c) \/ LeavePending(c) \/ AddTrack(c)
    BY <1>0, <2>1 DEF AddConsumer, NextMedia, SkipProducer, LeavePending, AddTrack, Visiting,
       Goto, LocalInv, producerVars, connVars, nodeVars
  <2>2. CASE GetMedias(c) \/ AddBackTrack(c)
    BY <1>0, <2>2 DEF GetMedias, AddBackTrack, Goto, LocalInv, producerVars, connVars, nodeVars
  <2>3. CASE LoadPending(c) \/ LockStream(c) \/ CheckProducer(c) \/ UnlockStream(c)
    <3>1. loc[c].then \in {"attach", "gone"}
      BY <1>0, Heads DEF Locals
    <3> QED
      BY <1>0, <2>3, <3>1 DEF LoadPending, LockStream, CheckProducer, UnlockStream,
         Goto, LocalInv, producerVars, connVars, nodeVars
  <2>4. CASE FailConsumer(c) \/ AttachConsumer(c) \/ StartProducer(c) \/ RemoveConsumer(c)
             \/ DetachConsumer(c)
    BY <1>0, <2>4 DEF FailConsumer, AttachConsumer, StartProducer, RemoveConsumer,
       DetachConsumer, Goto, LocalInv, producerVars, connVars, nodeVars
  <2> QED
    BY <2>1, <2>2, <2>3, <2>4
<1>2. ASSUME NEW t \in Tracks, Known(t)' PROVE Known(t)
  BY <1>1, <1>2 DEF Known
<1> QED
  BY <1>1, <1>2

(* Dial, GetTrack and StopProducer. *)
LEMMA SeenSteps ==
  ASSUME TypeInv, LinkInv, Apart, SeenInv, LinkInv', Apart', NEW c \in Consumers,
         Dial(c) \/ GetTrack(c) \/ StopProducer(c)
  PROVE  SeenInv'
<1>0. LocalInv /\ ProdInv /\ ListInv /\ NodeInv /\ NoConn \notin Conns
  BY TypeParts, StreamsAssumption
<1>a. /\ dialed \in Int /\ \A n \in Conns : n \in Int
      /\ \A t \in Tracks : t.conn \in Conns
      /\ dialed < MaxConn => dialed + 1 \in Conns
  BY <1>0, StreamsAssumption DEF NodeInv, Conns, Tracks
<1>1. CASE Dial(c)
  <2> DEFINE p == Prod(c)
  <2>1. p \in Producers
    BY <1>0, <1>1, Heads DEF Dial, Visiting
  <2>2. /\ pc'[c] # "tracked" /\ UNCHANGED <<recv, readers, move>>
        /\ \A d \in Consumers \ {c} : pc'[d] = pc[d] /\ loc'[d] = loc[d]
    BY <1>0, <1>1 DEF Dial, Visiting, Goto, LocalInv, nodeVars
  <2>3. ASSUME NEW t \in Tracks, Known(t)' PROVE Known(t)
    BY <2>2, <2>3 DEF Known
  <2>4. \/ UNCHANGED <<conn, dialed>>
        \/ /\ dialed < MaxConn /\ dialed' = dialed + 1 /\ conn' = [conn EXCEPT ![p] = dialed + 1]
    BY <1>1 DEF Dial, OpenConn, connVars
  <2>5. CASE UNCHANGED <<conn, dialed>>
    BY <2>2, <2>3, <2>5, SeenKept
  <2>6. CASE /\ dialed < MaxConn /\ dialed' = dialed + 1
             /\ conn' = [conn EXCEPT ![p] = dialed + 1]
    <3>1. ASSUME NEW t \in Tracks, t.conn <= dialed, NEW q \in Producers
          PROVE  /\ t.conn <= dialed'
                 /\ t.conn = conn'[q] => t.conn = conn[q]
                 /\ move'[q] = move[q]
      BY <1>0, <1>a, <2>1, <2>2, <2>6, <3>1 DEF ProdInv
    <3>2. \A t \in Tracks : Known(t)' => KnownOK(t)'
      BY <2>2, <2>3, <2>6, <1>a, <3>1 DEF SeenInv, KnownOK, Free
    <3>3. ASSUME NEW q \in Producers PROVE ListedOK(q)' /\ MovedOK(q)'
      <4>1. recv[q] \subseteq Tracks
        BY <1>0 DEF ListInv
      <4> QED
        BY <2>2, <3>1, <4>1 DEF SeenInv, ListedOK, MovedOK, Feeds, Free
    <3> QED
      BY <3>2, <3>3 DEF SeenInv
  <2> QED
    BY <2>4, <2>5, <2>6
<1>2. CASE GetTrack(c)
  <2> DEFINE p == Prod(c)
  <2>1. p \in Producers /\ Kind(c) \in Kinds /\ loc[c].from \in Conns
    BY <1>0, <1>2, Heads DEF GetTrack, LocalInv, LocalsSet, SetAt
  <2>2. /\ Free(p) /\ UNCHANGED <<conn, move, dialed, readers>>
        /\ \A d \in Consumers \ {c} : pc'[d] = pc[d] /\ loc'[d] = loc[d]
    BY <1>0, <1>2 DEF GetTrack, Goto, LocalInv, connVars, nodeVars
  <2>3. \/ pc'[c] # "tracked" /\ UNCHANGED recv
        \/ loc'[c].track \in recv[p] /\ UNCHANGED recv
        \/ /\ state[p] # "none"
           /\ loc'[c].track = [conn |-> conn[p], of |-> loc[c].from, kind |-> Kind(c)]
           /\ recv' = WithReceiver(p, loc'[c].track)
    BY <1>0, <1>2 DEF GetTrack, Goto, LocalInv, Locals
  <2>4. CASE UNCHANGED recv /\ (pc'[c] # "tracked" \/ loc'[c].track \in recv[p])
    <3>1. ASSUME NEW t \in Tracks, Known(t)' PROVE Known(t) \/ t \in recv[p]
      BY <2>2, <2>4, <3>1 DEF Known
    <3>2. \A t \in recv[p] : KnownOK(t)
      BY <2>1 DEF SeenInv, ListedOK, KnownOK, Feeds
    <3> QED
      BY <2>2, <2>4, <3>1, <3>2 DEF SeenInv, KnownOK, ListedOK, MovedOK, Feeds, Free
  <2>5. CASE /\ state[p] # "none"
             /\ loc'[c].track = [conn |-> conn[p], of |-> loc[c].from, kind |-> Kind(c)]
             /\ recv' = WithReceiver(p, loc'[c].track)
    <3> DEFINE new == loc'[c].track
    <3>1. conn[p] \in Conns /\ new \in Tracks /\ new.conn = conn[p] /\ conn[p] <= dialed
      BY <1>0, <2>1, <2>5 DEF ProdInv, Tracks, LinkInv, LinkOK
    <3>2. recv' = [recv EXCEPT ![p] = @ \cup {new}]
      BY <2>5 DEF WithReceiver
    <3> HIDE DEF new, p
    <3>3. ASSUME NEW q \in Producers, Feeds(q, new) PROVE q = p
      BY <2>1, <3>1, <3>3, OneOwner DEF Feeds
    <3>4. new \in recv'[p] /\ \A q \in Producers : recv[q] \subseteq recv'[q]
      BY <1>0, <2>1, <3>2 DEF ListInv
    <3>5. ASSUME NEW t \in Tracks, Known(t)' PROVE KnownOK(t)'
      <4>1. Known(t) \/ t = new
        BY <2>2, <3>5 DEF Known, new
      <4>2. CASE t = new
        BY <2>2, <3>1, <3>3, <3>4, <4>2 DEF KnownOK, Feeds
      <4>3. CASE Known(t)
        BY <2>2, <3>4, <4>3 DEF SeenInv, KnownOK, Free
      <4> QED
        BY <4>1, <4>2, <4>3
    <3>6. ASSUME NEW q \in Producers, NEW t \in recv'[q] PROVE
            /\ t.conn <= dialed
            /\ \A r \in Producers : Feeds(r, t) => r = q
            /\ t.conn = move[q].conn => t.kind \notin move[q].todo
      <4>1. t \in recv[q] \/ (t = new /\ q = p)
        BY <1>0, <2>1, <3>2, <3>6 DEF ListInv
      <4>2. CASE t \in recv[q]
        BY <4>2 DEF SeenInv, ListedOK
      <4>3. CASE t = new /\ q = p
        BY <1>0, <2>2, <3>1, <3>3, <4>3 DEF Free
      <4> QED
        BY <4>1, <4>2, <4>3
    <3> QED
      BY <2>2, <3>5, <3>6 DEF SeenInv, ListedOK, MovedOK, Feeds, Free
  <2> QED
    BY <2>3, <2>4, <2>5
<1>3. CASE StopProducer(c)
  <2> DEFINE p == Head(loc[c].scan)
  <2>1. p \in Producers
    BY <1>0, <1>3, Heads DEF StopProducer, Goto, LocalInv, LocalsSet, SetAt
  <2>2. /\ Free(p) /\ UNCHANGED <<dialed, move>> /\ pc'[c] # "tracked"
        /\ \A d \in Consumers \ {c} : pc'[d] = pc[d] /\ loc'[d] = loc[d]
        /\ readers' \subseteq readers
    <3>1. UNCHANGED readers \/ StopConn(p, conn[p])
      BY <1>3 DEF StopProducer, nodeVars
    <3>2. readers' \subseteq readers
      BY <3>1 DEF StopConn
    <3> QED
      BY <1>0, <1>3, <3>2 DEF StopProducer, Goto, LocalInv
  <2>3. ASSUME NEW t \in Tracks, Known(t)' PROVE Known(t)
    BY <2>2, <2>3 DEF Known
  <2>4. \/ UNCHANGED <<conn, recv>>
        \/ conn' = [conn EXCEPT ![p] = NoConn] /\ recv' = [recv EXCEPT ![p] = {}]
    BY <1>3 DEF StopProducer
  <2>5. CASE UNCHANGED <<conn, recv>>
    BY <2>2, <2>3, <2>5, SeenKept
  <2>6. CASE conn' = [conn EXCEPT ![p] = NoConn] /\ recv' = [recv EXCEPT ![p] = {}]
    <3> HIDE DEF p
    <3>1. /\ conn'[p] = NoConn /\ recv'[p] = {}
          /\ \A q \in Producers \ {p} : conn'[q] = conn[q] /\ recv'[q] = recv[q]
      BY <1>0, <2>1, <2>6 DEF ProdInv, ListInv
    <3>2. move[p].conn = NoConn
      BY <2>2 DEF Free
    <3>3. ASSUME NEW t \in Tracks, Known(t)' PROVE KnownOK(t)'
      <4>1. KnownOK(t) /\ t.conn # NoConn
        BY <1>0, <1>a, <2>3, <3>3 DEF SeenInv
      <4> QED
        BY <2>2, <3>1, <3>2, <4>1 DEF KnownOK, Free
    <3>4. ASSUME NEW q \in Producers PROVE ListedOK(q)' /\ MovedOK(q)'
      <4>1. \A t \in recv'[q] : t \in recv[q] /\ q # p /\ t.conn # NoConn
        BY <1>0, <1>a, <3>1 DEF ListInv
      <4> QED
        BY <2>2, <3>1, <4>1 DEF SeenInv, ListedOK, MovedOK, Feeds, Free
    <3> QED
      BY <3>3, <3>4 DEF SeenInv
  <2> QED
    BY <2>4, <2>5, <2>6
<1> QED
  BY <1>1, <1>2, <1>3

(* A reconnect gives the readers of a track to the track of its new        *)
(* connection, which enters the list in the same step.                     *)
LEMMA SeenMoves ==
  ASSUME TypeInv, LinkInv, Apart, SeenInv, LinkInv', Apart', NEW p \in Producers,
         Reconnect(p) \/ MoveStep(p)
  PROVE  SeenInv'
<1>0. LocalInv /\ ProdInv /\ ListInv /\ NodeInv /\ NoConn \notin Conns
  BY TypeParts, StreamsAssumption
<1>a. /\ dialed \in Int /\ \A n \in Conns : n \in Int
      /\ \A t \in Tracks : t.conn \in Conns
      /\ dialed < MaxConn => dialed + 1 \in Conns
  BY <1>0, StreamsAssumption DEF NodeInv, Conns, Tracks
<1>b. UNCHANGED <<pc, loc>>
  BY DEF Reconnect, MoveStep, MoveTake, MovePut, MoveSkip, MoveBack, MoveEnd
<1>c. ASSUME NEW t \in Tracks, Known(t)', readers' \subseteq readers PROVE Known(t)
  BY <1>b, <1>c DEF Known
<1>1. CASE Reconnect(p)
  <2>1. /\ dialed < MaxConn /\ dialed' = dialed + 1 /\ Free(p)
        /\ UNCHANGED <<conn, recv, readers>>
        /\ move'[p].conn = dialed + 1 /\ move'[p].track = NoTrack
        /\ \A q \in Producers \ {p} : move'[q] = move[q]
    BY <1>0, <1>1 DEF Reconnect, OpenConn, Idle, ListInv, nodeVars
  <2>2. ASSUME NEW t \in Tracks, t.conn <= dialed, NEW q \in Producers
        PROVE  /\ t.conn <= dialed' /\ t.conn # dialed + 1
               /\ t.conn = move'[q].conn => t.conn = move[q].conn /\ move'[q] = move[q]
    BY <1>a, <2>1, <2>2
  <2>3. ASSUME NEW t \in Tracks, Known(t)' PROVE KnownOK(t)'
    <3>1. KnownOK(t)
      BY <1>c, <2>1, <2>3 DEF SeenInv
    <3>2. \A q \in Producers : Free(q)' => Free(q)
      BY <2>1 DEF Free
    <3> QED
      BY <2>1, <2>2, <3>1, <3>2 DEF KnownOK
  <2>4. ASSUME NEW q \in Producers PROVE ListedOK(q)' /\ MovedOK(q)'
    <3>1. recv[q] \subseteq Tracks
      BY <1>0 DEF ListInv
    <3>2. ListedOK(q)'
      BY <2>1, <2>2, <3>1 DEF SeenInv, ListedOK, Feeds
    <3> QED
      BY <2>1, <3>2 DEF SeenInv, MovedOK, Free
  <2> QED
    BY <2>3, <2>4 DEF SeenInv
<1>2. CASE MoveTake(p)
  <2>1. PICK t \in recv[p] :
          /\ t.kind \in move[p].todo
          /\ move' = [move EXCEPT ![p].track = t, ![p].kids = Kids(t)]
    BY <1>2 DEF MoveTake
  <2>2. /\ ~ Free(p) /\ UNCHANGED <<conn, recv, dialed>> /\ readers' \subseteq readers
    BY <1>2 DEF MoveTake, connVars
  <2>3. /\ move'[p].conn = move[p].conn /\ move'[p].todo = move[p].todo /\ move'[p].track = t
        /\ \A q \in Producers \ {p} : move'[q] = move[q]
    BY <1>0, <2>1 DEF ListInv, Moves
  <2>4. t.conn # move[p].conn
    BY <2>1 DEF SeenInv, ListedOK
  <2>5. ASSUME NEW u \in Tracks, Known(u)' PROVE KnownOK(u)'
    <3>1. KnownOK(u)
      BY <1>c, <2>2, <2>5 DEF SeenInv
    <3> QED
      BY <2>2, <2>3, <3>1 DEF KnownOK, Free
  <2>6. ASSUME NEW q \in Producers PROVE ListedOK(q)' /\ MovedOK(q)'
    BY <2>2, <2>3, <2>4 DEF SeenInv, ListedOK, MovedOK, Feeds, Free
  <2> QED
    BY <2>5, <2>6 DEF SeenInv
<1>3. CASE MovePut(p)
  <2> DEFINE t == move[p].track
             new == [conn |-> move[p].conn, of |-> move[p].conn, kind |-> t.kind]
  <2>1. /\ ~ Free(p) /\ t # NoTrack /\ UNCHANGED <<conn, dialed>>
        /\ readers' = {r \in readers : r[1] # new} \cup {<<new, c>> : c \in move[p].kids}
        /\ recv' = [recv EXCEPT ![p] = (@ \ {t}) \cup {new}]
        /\ move' = [move EXCEPT ![p].todo = @ \ {t.kind}, ![p].track = NoTrack, ![p].kids = {}]
    BY <1>3 DEF MovePut, connVars
  <2>2. t \in Tracks /\ move[p].conn \in Conns /\ new \in Tracks
        /\ new.conn = move[p].conn /\ new.kind = t.kind
    BY <1>0, <2>1 DEF ListInv, Moves, Tracks, Free
  <2>3. /\ move'[p].conn = move[p].conn /\ move'[p].todo = move[p].todo \ {t.kind}
        /\ move'[p].track = NoTrack
        /\ \A q \in Producers \ {p} : move'[q] = move[q]
    BY <1>0, <2>1 DEF ListInv, Moves
  <2>4. t.conn # move[p].conn
    BY <2>1 DEF SeenInv, MovedOK
  <2>5. ASSUME NEW u \in Tracks, Known(u)' PROVE Known(u) \/ u = new
    BY <1>b, <2>1, <2>5 DEF Known
  <2> HIDE DEF t, new
  <2>6. /\ recv'[p] = (recv[p] \ {t}) \cup {new}
        /\ \A q \in Producers \ {p} : recv'[q] = recv[q]
    BY <1>0, <2>1 DEF ListInv
  <2>7. \A q \in Producers : move'[q].conn = move[q].conn
    BY <2>3
  <2>8. ASSUME NEW q \in Producers, Feeds(q, new) PROVE q = p
    BY <2>2, <2>8, OneOwner DEF Feeds
  <2>9. move[p].conn <= dialed
    BY <2>2 DEF LinkInv, LinkOK
  <2>10. ASSUME NEW u \in Tracks, Known(u)' PROVE KnownOK(u)'
    <3>1. CASE u = new
      BY <2>1, <2>2, <2>6, <2>7, <2>8, <2>9, <3>1 DEF KnownOK, Feeds
    <3>2. CASE Known(u)
      <4>1. KnownOK(u)
        BY <3>2 DEF SeenInv
      <4>2. ASSUME NEW q \in Producers, (Free(q) /\ u.conn = conn[q]) \/ u.conn = move[q].conn
            PROVE  u \in recv'[q]
        <5>1. u \in recv[q]
          BY <4>1, <4>2 DEF KnownOK
        <5>2. q = p => u # t
          BY <2>1, <2>4, <4>2
        <5> QED
          BY <2>6, <5>1, <5>2
      <4> QED
        BY <2>1, <2>7, <4>1, <4>2 DEF KnownOK, Free
    <3> QED
      BY <2>5, <2>10, <3>1, <3>2
  <2>11. ASSUME NEW q \in Producers, NEW u \in recv'[q]
         PROVE  /\ u.conn <= dialed
                /\ \A r \in Producers : Feeds(r, u) => r = q
                /\ u.conn = move'[q].conn => u.kind \notin move'[q].todo
    <3>1. u \in recv[q] \/ (q = p /\ u = new)
      BY <2>6, <2>11
    <3>2. CASE u \in recv[q]
      BY <2>3, <2>7, <3>2 DEF SeenInv, ListedOK
    <3>3. CASE q = p /\ u = new
      BY <2>2, <2>3, <2>8, <2>9, <3>3
    <3> QED
      BY <3>1, <3>2, <3>3
  <2>12. ASSUME NEW q \in Producers PROVE MovedOK(q)'
    BY <2>3 DEF SeenInv, MovedOK, Free
  <2>13. ASSUME NEW q \in Producers, NEW u \in recv'[q], NEW r \in Producers, Feeds(r, u)'
         PROVE  Feeds(r, u)
    BY <2>1, <2>7, <2>13 DEF Feeds
  <2>14. ASSUME NEW q \in Producers PROVE ListedOK(q)'
    BY <2>1, <2>11, <2>13 DEF ListedOK
  <2> QED
    BY <2>10, <2>12, <2>14 DEF SeenInv
<1>4. CASE MoveSkip(p) \/ MoveBack(p)
  <2>1. PICK k : move' = [move EXCEPT ![p].todo = @ \ {k}]
    BY <1>4 DEF MoveSkip, MoveBack
  <2>2. UNCHANGED <<conn, recv, dialed, readers>>
    BY <1>4 DEF MoveSkip, MoveBack, connVars, nodeVars
  <2>3. \A q \in Producers : /\ move'[q].conn = move[q].conn /\ move'[q].track = move[q].track
                             /\ move'[q].todo \subseteq move[q].todo
    BY <1>0, <2>1 DEF ListInv, Moves
  <2>4. ASSUME NEW u \in Tracks, Known(u)' PROVE KnownOK(u)'
    <3>1. KnownOK(u)
      BY <1>c, <2>2, <2>4 DEF SeenInv
    <3> QED
      BY <2>2, <2>3, <3>1 DEF KnownOK, Free
  <2>5. ASSUME NEW q \in Producers PROVE ListedOK(q)' /\ MovedOK(q)'
    BY <2>2, <2>3 DEF SeenInv, ListedOK, MovedOK, Feeds, Free
  <2> QED
    BY <2>4, <2>5 DEF SeenInv
<1>5. CASE MoveEnd(p)
  <2>1. /\ ~ Free(p) /\ move[p].track = NoTrack /\ UNCHANGED <<recv, dialed>>
        /\ readers' \subseteq readers
        /\ conn' = [conn EXCEPT ![p] = move[p].conn]
        /\ move' = [move EXCEPT ![p] = Idle]
    BY <1>5 DEF MoveEnd, StopConn
  <2>2. /\ conn'[p] = move[p].conn /\ move'[p].conn = NoConn /\ move'[p].track = NoTrack
        /\ \A q \in Producers \ {p} : conn'[q] = conn[q] /\ move'[q] = move[q]
    BY <1>0, <2>1 DEF ProdInv, ListInv, Idle
  <2>3. ASSUME NEW u \in Tracks, Known(u)' PROVE KnownOK(u)'
    <3>1. KnownOK(u) /\ u.conn # NoConn
      BY <1>0, <1>a, <1>c, <2>1, <2>3 DEF SeenInv
    <3> QED
      BY <2>1, <2>2, <3>1 DEF KnownOK, Free
  <2>4. ASSUME NEW q \in Producers PROVE ListedOK(q)' /\ MovedOK(q)'
    <3>1. \A u \in recv[q] : u.conn # NoConn
      BY <1>0, <1>a DEF ListInv
    <3> QED
      BY <2>1, <2>2, <3>1 DEF SeenInv, ListedOK, MovedOK, Feeds, Free
  <2> QED
    BY <2>3, <2>4 DEF SeenInv
<1> QED
  BY <1>1, <1>2, <1>3, <1>4, <1>5 DEF MoveStep

(* Consumers and producers keep everything that is read in the lists. *)
LEMMA SeenStep == TypeInv /\ LinkInv /\ Apart /\ SeenInv /\ [Next]_vars => SeenInv'
<1> SUFFICES ASSUME TypeInv, LinkInv, Apart, SeenInv, [Next]_vars PROVE SeenInv'
  OBVIOUS
<1>1. LinkInv' /\ Apart'
  BY LinkStep, ApartStep
<1>2. ASSUME NEW c \in Consumers, AddConsumer(c) \/ ConsumerStep(c) \/ RemoveConsumer(c)
      PROVE  SeenInv'
  <2>1. CASE Dial(c) \/ GetTrack(c) \/ StopProducer(c)
    BY <1>1, <2>1, SeenSteps
  <2>2. CASE ~ (Dial(c) \/ GetTrack(c) \/ StopProducer(c))
    <3>1. /\ UNCHANGED <<conn, recv, move, dialed>>
          /\ \A t \in Tracks : Known(t)' => Known(t)
      BY <1>2, <2>2, QuietSteps DEF ConsumerStep
    <3> QED
      BY <3>1, SeenKept
  <2> QED
    BY <2>1, <2>2
<1>3. ASSUME NEW p \in Producers, Reconnect(p) \/ MoveStep(p) PROVE SeenInv'
  BY <1>1, <1>3, SeenMoves
<1>4. CASE UNCHANGED <<conn, recv, move, dialed, readers, pc, loc>>
  BY <1>4, SeenKept DEF Known
<1> QED
  BY <1>2, <1>3, <1>4
  DEF Next, SourceEnds, ExitStale, Terminated, vars, producerVars, connVars, nodeVars

(* Of every step all of this holds before and after. *)
LEMMA SeenInductive == Spec => [](TypeInv /\ LinkInv /\ Apart /\ SeenInv)
  BY TypeInit, TypeStep, LinkInit, LinkStep, SeenInit, ApartStep, SeenStep, PTL DEF Spec

(* However late AddTrack follows GetTrack, and whatever stops, dials and   *)
(* reconnects come between, who reads from a producer's connection reads   *)
(* from one of its receivers, where stopProducers looks (add_consumer.go,  *)
(* producer.go:176-270).                                                   *)
THEOREM ReadersSeenSafe == Spec => []ReadersSeen
<1>1. TypeInv /\ SeenInv => ReadersSeen
  <2> SUFFICES ASSUME TypeInv, SeenInv, NEW p \in Producers, NEW r \in readers,
                      Free(p), r[1].conn = conn[p]
               PROVE  r[1] \in recv[p]
    BY DEF ReadersSeen
  <2>1. r[1] \in Tracks /\ r[2] \in Consumers /\ r = <<r[1], r[2]>>
    BY TypeParts DEF NodeInv
  <2> QED
    BY <2>1 DEF SeenInv, Known, KnownOK
<1> QED
  BY <1>1, SeenInductive, PTL
-----------------------------------------------------------------------------
(* What stopProducers finds unread stays without attached readers until it *)
(* is stopped, where sources stay up.                                      *)

(* s.mu is held from the first look at the producers to the last.          *)
Locked == \A d \in Consumers : pc[d] \in {"check", "stop"} => smu = d

Staying == {"start", "attached"}

(* Who reads from the producer that is about to be stopped is still on its *)
(* way into the stream, or out of it.                                      *)
Spared ==
  \A d \in Consumers : pc[d] = "stop" =>
    \A t \in recv[Head(loc[d].scan)] : \A c \in Kids(t) : pc[c] \notin Staying

(* No source has ended, so nothing is reconnected. *)
StayUp == \A p \in Producers : Free(p) /\ \A l \in loops[p] : l.at = "run"

(* Nobody is there yet. *)
LEMMA SparedInit == Init => Locked /\ Spared /\ StayUp
  BY DEF Init, Locked, Spared, StayUp, Free, Idle

(* Whoever looks through the producers took the lock and has not given it  *)
(* back.                                                                   *)
LEMMA LockedStep == TypeInv /\ Locked /\ [Next]_vars => Locked'
<1> SUFFICES ASSUME TypeInv, Locked, [Next]_vars PROVE Locked'
  OBVIOUS
<1>0. LocalInv /\ NodeInv /\ NoOne \notin Consumers
  BY TypeParts, StreamsAssumption
<1>1. ASSUME NEW c \in Consumers, LockStream(c) PROVE Locked'
  BY <1>0, <1>1 DEF LockStream, Goto, LocalInv, Locked
<1>2. ASSUME NEW c \in Consumers, UnlockStream(c) PROVE Locked'
  <2>1. loc[c].then \in {"attach", "gone"}
    BY <1>0, Heads DEF Locals
  <2> QED
    BY <1>0, <1>2, <2>1 DEF UnlockStream, Goto, LocalInv, Locked
<1>3. ASSUME NEW c \in Consumers, CheckProducer(c) \/ StopProducer(c) PROVE Locked'
  BY <1>0, <1>3 DEF CheckProducer, StopProducer, Goto, LocalInv, Locked, streamVars
<1>4. ASSUME NEW c \in Consumers, LoadPending(c) PROVE Locked'
  <2>1. loc[c].then \in {"attach", "gone"}
    BY <1>0, Heads DEF Locals
  <2> QED
    BY <1>0, <1>4, <2>1 DEF LoadPending, Goto, LocalInv, Locked, streamVars
<1>5. ASSUME NEW c \in Consumers,
             \/ AddConsumer(c) \/ NextMedia(c) \/ SkipProducer(c) \/ Dial(c) \/ GetMedias(c)
             \/ GetTrack(c) \/ AddTrack(c) \/ AddBackTrack(c) \/ LeavePending(c)
             \/ FailConsumer(c) \/ AttachConsumer(c) \/ StartProducer(c) \/ RemoveConsumer(c)
             \/ DetachConsumer(c)
      PROVE  Locked'
  <2>1. /\ smu' = smu /\ pc'[c] \notin {"check", "stop"}
        /\ \A d \in Consumers \ {c} : pc'[d] = pc[d]
    BY <1>0, <1>5 DEF AddConsumer, NextMedia, SkipProducer, Dial, GetMedias, GetTrack, AddTrack,
       AddBackTrack, LeavePending, FailConsumer, AttachConsumer, StartProducer, RemoveConsumer,
       DetachConsumer, Visiting, Goto, LocalInv, streamVars
  <2> QED
    BY <2>1 DEF Locked
<1>6. CASE UNCHANGED <<pc, smu>>
  BY <1>6, SMTT(30) DEF Locked
<1> QED
  BY <1>1, <1>2, <1>3, <1>4, <1>5, <1>6
  DEF Next, ConsumerStep, MoveStep, SourceEnds, ExitStale, Reconnect, MoveTake, MovePut,
      MoveSkip, MoveBack, MoveEnd, Terminated, streamVars, vars

(* A worker begins running, and only a source that ends changes that.      *)
LEMMA StayUpStep ==
  ASSUME SourcesEnd = FALSE
  PROVE  TypeInv /\ StayUp /\ [Next]_vars => StayUp'
<1> SUFFICES ASSUME TypeInv, StayUp, [Next]_vars PROVE StayUp'
  OBVIOUS
<1>0. LocalInv /\ ProdInv
  BY TypeParts
<1>1. ASSUME NEW c \in Consumers, StartProducer(c) PROVE StayUp'
  <2>1. Head(loc[c].starts) \in Producers
    BY <1>0, <1>1, Heads DEF StartProducer, LocalInv, LocalsSet, SetAt
  <2>2. move' = move
    BY <1>1 DEF StartProducer
  <2>3. ASSUME NEW p \in Producers, NEW l \in loops'[p] PROVE l.at = "run"
    <3> DEFINE q == Head(loc[c].starts)
               new == [id |-> gen[q] + 1, at |-> "run"]
    <3>1. loops' = loops \/ loops' = [loops EXCEPT ![q] = @ \cup {new}]
      BY <1>1 DEF StartProducer
    <3>2. new.at = "run"
      OBVIOUS
    <3> HIDE DEF q, new
    <3> QED
      BY <1>0, <2>3, <3>1, <3>2 DEF ProdInv, StayUp
  <2> QED
    BY <2>2, <2>3 DEF StayUp, Free
<1>2. ASSUME NEW p \in Producers, ExitStale(p) PROVE StayUp'
  BY <1>0, <1>2 DEF ExitStale, ProdInv, StayUp, Free
<1>3. ASSUME NEW p \in Producers, SourceEnds(p) \/ Reconnect(p) \/ MoveStep(p) PROVE FALSE
  BY <1>3 DEF SourceEnds, Reconnect, MoveStep, MoveTake, MovePut, MoveSkip, MoveBack, MoveEnd,
     StayUp
<1>4. CASE UNCHANGED <<loops, move>>
  BY <1>4 DEF StayUp, Free
<1> QED
  BY <1>1, <1>2, <1>3, <1>4
  DEF Next, ConsumerStep, AddConsumer, NextMedia, SkipProducer, Dial, GetMedias, GetTrack,
      AddTrack, AddBackTrack, LeavePending, LoadPending, LockStream, CheckProducer,
      StopProducer, UnlockStream, FailConsumer, AttachConsumer, RemoveConsumer,
      DetachConsumer, Terminated, producerVars, vars

(* Between the look at a producer and its stop a consumer may become its   *)
(* reader, but none that reads from it attaches: that takes s.mu.          *)
LEMMA SparedStep ==
  TypeInv /\ SeenInv /\ Locked /\ StayUp /\ Spared /\ [Next]_vars /\ StayUp' => Spared'
<1> SUFFICES ASSUME TypeInv, SeenInv, Locked, StayUp, Spared, [Next]_vars, StayUp' PROVE Spared'
  OBVIOUS
<1>0. LocalInv /\ ProdInv /\ ListInv /\ NodeInv /\ NoOne \notin Consumers
  BY TypeParts, StreamsAssumption
<1>a. ASSUME NEW c \in Consumers, NEW d \in Consumers, pc[d] = "stop", c # d
      PROVE  ~ CheckProducer(c) /\ ~ StopProducer(c) /\ ~ AttachConsumer(c)
  BY <1>0, <1>a DEF Locked, CheckProducer, StopProducer, AttachConsumer, Goto
<1>1. ASSUME NEW c \in Consumers, GetTrack(c) PROVE Spared'
  <2> DEFINE p == Prod(c)
  <2>1. p \in Producers
    BY <1>0, <1>1, Heads DEF GetTrack, LocalInv, LocalsSet, SetAt
  <2>2. /\ UNCHANGED readers /\ pc'[c] \notin {"stop"} \cup Staying /\ pc[c] = "matched"
        /\ \A d \in Consumers \ {c} : pc'[d] = pc[d] /\ loc'[d] = loc[d]
    BY <1>0, <1>1 DEF GetTrack, Goto, LocalInv, Staying, nodeVars
  <2> DEFINE new == [conn |-> conn[p], of |-> loc[c].from, kind |-> Kind(c)]
  <2>3. \/ UNCHANGED recv
        \/ new \notin recv[p] /\ recv' = WithReceiver(p, new)
    BY <1>1 DEF GetTrack
  <2>4. ASSUME new \notin recv[p], NEW d \in Consumers PROVE <<new, d>> \notin readers
    <3>1. Free(p) /\ new.conn = conn[p]
      BY <1>1 DEF GetTrack
    <3>2. new \in Tracks => (Known(new) => new \in recv[p])
      BY <2>1, <3>1 DEF SeenInv, KnownOK
    <3> HIDE DEF new
    <3> QED
      BY <1>0, <2>4, <3>2 DEF Known, NodeInv
  <2> HIDE DEF new, p
  <2>5. ASSUME NEW d \in Consumers, pc'[d] = "stop", NEW t \in recv'[Head(loc'[d].scan)],
               NEW k \in Kids(t)'
        PROVE  pc'[k] \notin Staying
    <3>1. d # c /\ pc[d] = "stop" /\ loc'[d] = loc[d]
      BY <2>2, <2>5
    <3>2. Head(loc[d].scan) \in Producers
      BY <1>0, <3>1, Heads DEF LocalInv, LocalsSet, SetAt
    <3>3. k \in Consumers /\ k \in Kids(t)
      BY <2>2, <2>5 DEF Kids
    <3>4. t \in recv[Head(loc[d].scan)]
      BY <1>0, <2>1, <2>3, <2>4, <2>5, <3>1, <3>2, <3>3 DEF ListInv, WithReceiver, Kids
    <3>5. pc[k] \notin Staying
      BY <3>1, <3>3, <3>4 DEF Spared
    <3> QED
      BY <2>2, <3>3, <3>5
  <2> QED
    BY <2>5 DEF Spared
<1>2. ASSUME NEW c \in Consumers, CheckProducer(c) PROVE Spared'
  <2>1. UNCHANGED <<recv, readers>> /\ \A k \in Consumers : pc'[k] \in Staying => pc[k] \in Staying
    BY <1>0, <1>2 DEF CheckProducer, Goto, LocalInv, Staying, producerVars, nodeVars
  <2>2. ASSUME NEW d \in Consumers, pc'[d] = "stop", NEW t \in recv'[Head(loc'[d].scan)],
               NEW k \in Kids(t)'
        PROVE  pc'[k] \notin Staying
    <3>1. d = c
      BY <1>0, <1>2, <1>a, <2>2 DEF CheckProducer, Goto, LocalInv
    <3>2. Unread(Head(loc[c].scan)) /\ loc' = loc
      BY <1>0, <1>2, <2>2, <3>1 DEF CheckProducer, Goto, LocalInv
    <3> QED
      BY <2>1, <2>2, <3>1, <3>2 DEF Unread, Kids
  <2> QED
    BY <2>2 DEF Spared
<1>3. ASSUME NEW c \in Consumers, StopProducer(c) PROVE Spared'
  <2>1. \A d \in Consumers : pc'[d] # "stop"
    BY <1>0, <1>3, <1>a DEF StopProducer, Goto, LocalInv
  <2> QED
    BY <2>1 DEF Spared
<1>4. ASSUME NEW c \in Consumers, AttachConsumer(c) PROVE Spared'
  <2>1. \A d \in Consumers : pc'[d] # "stop"
    BY <1>0, <1>4, <1>a DEF AttachConsumer, Goto, LocalInv
  <2> QED
    BY <2>1 DEF Spared
<1>5. ASSUME NEW c \in Consumers,
             \/ AddConsumer(c) \/ NextMedia(c) \/ SkipProducer(c) \/ Dial(c) \/ GetMedias(c)
             \/ AddTrack(c) \/ AddBackTrack(c) \/ LeavePending(c) \/ LoadPending(c)
             \/ LockStream(c) \/ UnlockStream(c) \/ FailConsumer(c) \/ StartProducer(c)
             \/ RemoveConsumer(c) \/ DetachConsumer(c)
      PROVE  Spared'
  <2>1. loc[c].then \in {"attach", "gone"}
    BY <1>0, Heads DEF Locals
  <2>2. /\ UNCHANGED recv /\ pc'[c] # "stop" /\ (pc'[c] \in Staying => pc[c] \in Staying)
        /\ \A d \in Consumers \ {c} : pc'[d] = pc[d] /\ loc'[d] = loc[d]
    <3>1. CASE \/ AddConsumer(c) \/ NextMedia(c) \/ SkipProducer(c) \/ Dial(c) \/ GetMedias(c)
      BY <1>0, <3>1 DEF AddConsumer, NextMedia, SkipProducer, Dial, GetMedias, Visiting, Goto,
         LocalInv, Staying, producerVars
    <3>2. CASE AddTrack(c) \/ AddBackTrack(c) \/ LeavePending(c) \/ LoadPending(c)
      BY <1>0, <2>1, <3>2 DEF AddTrack, AddBackTrack, LeavePending, LoadPending, Goto,
         LocalInv, Staying, producerVars
    <3>3. CASE LockStream(c) \/ UnlockStream(c) \/ FailConsumer(c) \/ StartProducer(c)
      BY <1>0, <2>1, <3>3 DEF LockStream, UnlockStream, FailConsumer, StartProducer, Goto,
         LocalInv, Staying, producerVars
    <3>4. CASE RemoveConsumer(c) \/ DetachConsumer(c)
      BY <1>0, <3>4 DEF RemoveConsumer, DetachConsumer, Goto, LocalInv, Staying, producerVars
    <3> QED
      BY <1>5, <3>1, <3>2, <3>3, <3>4
  <2>3. \/ readers' \subseteq readers
        \/ pc'[c] \notin Staying /\ readers' = readers \cup {<<loc[c].track, c>>}
    BY <1>0, <1>5 DEF AddConsumer, NextMedia, SkipProducer, Dial, GetMedias, AddTrack,
       AddBackTrack, LeavePending, LoadPending, LockStream, UnlockStream, FailConsumer,
       StartProducer, RemoveConsumer, DetachConsumer, Goto, LocalInv, Staying, nodeVars
  <2>4. ASSUME NEW d \in Consumers, pc'[d] = "stop", NEW t \in recv'[Head(loc'[d].scan)],
               NEW k \in Kids(t)'
        PROVE  pc'[k] \notin Staying
    <3>1. d # c /\ pc[d] = "stop" /\ loc'[d] = loc[d]
      BY <2>2, <2>4
    <3>2. k \in Consumers /\ (k \in Kids(t) \/ (k = c /\ pc'[c] \notin Staying))
      BY <2>3, <2>4 DEF Kids
    <3>3. k \in Kids(t) => pc[k] \notin Staying
      BY <2>2, <2>4, <3>1 DEF Spared
    <3> QED
      BY <2>2, <3>2, <3>3
  <2> QED
    BY <2>4 DEF Spared
<1>6. ASSUME NEW p \in Producers, Reconnect(p) \/ MoveStep(p) PROVE FALSE
  <2>1. dialed < MaxConn => dialed + 1 # NoConn
    BY <1>0, StreamsAssumption DEF NodeInv, Conns
  <2>2. CASE Reconnect(p)
    <3>1. dialed < MaxConn /\ move'[p].conn = dialed + 1
      BY <1>0, <2>2 DEF Reconnect, OpenConn, Idle, ListInv
    <3> QED
      BY <2>1, <3>1 DEF StayUp, Free
  <2>3. CASE MoveStep(p)
    BY <2>3 DEF MoveStep, MoveTake, MovePut, MoveSkip, MoveBack, MoveEnd, StayUp
  <2> QED
    BY <1>6, <2>2, <2>3
<1>7. CASE UNCHANGED <<recv, readers, pc, loc>>
  BY <1>7 DEF Spared, Kids
<1> QED
  BY <1>1, <1>2, <1>3, <1>4, <1>5, <1>6, <1>7
  DEF Next, ConsumerStep, SourceEnds, ExitStale, Terminated, vars, producerVars, nodeVars

(* No producer is stopped under an attached consumer, although its readers *)
(* are looked at without p.mu and well before it is stopped, for any       *)
(* producers and consumers, as long as sources stay up                     *)
(* (add_consumer.go:96, stream.go).                                        *)
THEOREM StopSparesAttachedSafe ==
  ASSUME SourcesEnd = FALSE
  PROVE  Spec => StopSparesAttached
<1> DEFINE Inv == TypeInv /\ LinkInv /\ Apart /\ SeenInv /\ Locked /\ StayUp /\ Spared
           Spares == \A p \in Producers : Stops(p) =>
                       \A t \in recv[p] : \A c \in Kids(t) : pc[c] \notin Staying
<1>1. Init => Inv
  BY TypeInit, LinkInit, SeenInit, SparedInit
<1>2. Inv /\ [Next]_vars => Inv'
  BY TypeStep, LinkStep, ApartStep, SeenStep, LockedStep, StayUpStep, SparedStep
<1>3. Inv /\ [Next]_vars => [Spares]_vars
  <2> SUFFICES ASSUME Inv, [Next]_vars, NEW p \in Producers, Stops(p)
               PROVE  \A t \in recv[p] : \A c \in Kids(t) : pc[c] \notin Staying
    OBVIOUS
  <2>0. LocalInv /\ ProdInv
    BY TypeParts, SMTT(30)
  <2>1. PICK d \in Consumers : StopProducer(d) /\ Head(loc[d].scan) = p
    <3>1. ASSUME NEW c \in Consumers, StopProducer(c) PROVE Head(loc[c].scan) = p
      BY <2>0, <3>1 DEF StopProducer, ProdInv, Stops
    <3>2. ASSUME NEW c \in Consumers,
                 Dial(c) \/ GetTrack(c) \/ AddBackTrack(c) \/ StartProducer(c)
          PROVE  FALSE
      BY <2>0, <3>2 DEF Dial, GetTrack, AddBackTrack, StartProducer, WithTracks, ProdInv, Stops
    <3>3. state' # state
      BY DEF Stops
    <3> QED
      BY <3>1, <3>2, <3>3
      DEF Next, ConsumerStep, MoveStep, AddConsumer, NextMedia, SkipProducer, GetMedias,
          AddTrack, LeavePending, LoadPending, LockStream, CheckProducer, UnlockStream,
          FailConsumer, AttachConsumer, RemoveConsumer, DetachConsumer, SourceEnds, ExitStale,
          Reconnect, MoveTake, MovePut, MoveSkip, MoveBack, MoveEnd, Terminated, producerVars,
          vars
  <2> QED
    BY <2>1 DEF Spared, StopProducer, Goto
<1> HIDE DEF Inv
<1> QED
  BY <1>1, <1>2, <1>3, PTL DEF Spec, StopSparesAttached, Staying
============================================================================
