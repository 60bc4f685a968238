----------------------------- MODULE SourcesProofs -----------------------------
(* Theorems about what has connections of its own.                         *)
(*                                                                         *)
(* RtspServer, for any number of dials and connections and any choice of   *)
(* what a child reads: no child process is left running, and no connection *)
(* feeds two producers.                                                    *)
EXTENDS MCSources, FiniteSetTheorems, SequenceTheorems, TLAPS

(* No child process runs for nobody: each action of execHandle either      *)
(* keeps the child's dial among those that will kill it, or cancels the    *)
(* child's context.                                                        *)
THEOREM NoStrayChildSafe == Spec => []NoStrayChild
<1> DEFINE IInv == ExecTypeOK /\ NoStrayChild
<1>1. Init => IInv
  BY DEF Init, ExecTypeOK, NoStrayChild, InDial
<1>2. IInv /\ [Next]_vars => IInv'
  <2> SUFFICES ASSUME IInv, [Next]_vars PROVE IInv'
    OBVIOUS
  <2> USE DEF ExecTypeOK, NoStrayChild, InDial
  <2>1. ASSUME NEW d \in Dials, Register(d) PROVE IInv'
    BY <2>1 DEF Register, Goto
  <2>2. ASSUME NEW d \in Dials, Launch(d) PROVE IInv'
    BY <2>2 DEF Launch, Goto
  <2>3. ASSUME NEW d \in Dials, LaunchFails(d) PROVE IInv'
    BY <2>3 DEF LaunchFails, Goto
  <2>4. ASSUME NEW d \in Dials, Timeout(d) \/ ChildFailed(d) PROVE IInv'
    BY <2>4 DEF Timeout, ChildFailed, Goto
  <2>5. ASSUME NEW d \in Dials, Receive(d) PROVE IInv'
    BY <2>5 DEF Receive, Goto
  <2>6. ASSUME NEW d \in Dials, Unregister(d) PROVE IInv'
    <3>1. CASE Goto(d, "failing", "failed") /\ Cancel(d)
      BY <2>6, <3>1 DEF Unregister, Goto, Cancel
    <3>2. CASE Goto(d, "taking", "feeding") /\ UNCHANGED cancelled
      BY <2>6, <3>2 DEF Unregister, Goto
    <3> QED BY <2>6, <3>1, <3>2 DEF Unregister
  <2>7. ASSUME NEW d \in Dials, Stop(d) PROVE IInv'
    BY <2>7 DEF Stop, Goto, Cancel
  <2>8. ASSUME NEW d \in Dials, Exit(d) PROVE IInv'
    BY <2>8 DEF Exit, Cancel
  <2>9. CASE UNCHANGED <<dial, child, cancelled>>
    BY <2>9
  <2>10. ASSUME NEW c \in Conns,
                \/ Connect(c) \/ AcceptFails(c) \/ Describe(c) \/ Announce(c)
                \/ Play(c) \/ Teardown(c) \/ Goes(c) \/ EndHandle(c) \/ Leave(c)
         PROVE UNCHANGED <<dial, child, cancelled>>
    BY <2>10 DEF Connect, AcceptFails, Describe, Announce, Play, Teardown, Goes, Add, Find,
                 FindNone, HandOver, EndHandle, Leave, exec
  <2> QED
    BY <2>1, <2>2, <2>3, <2>4, <2>5, <2>6, <2>7, <2>8, <2>9, <2>10
       DEF Next, Returns, vars, exec
<1>3. IInv => NoStrayChild
  OBVIOUS
<1> QED BY <1>1, <1>2, <1>3, PTL DEF Spec
-----------------------------------------------------------------------------
Places ==
  {"none", "open", "adding", "setup", "ended", "found", "passed", "handle", "closed"}

(* The types of what a connection is handed through. *)
HandTypeOK ==
  /\ chan \in [Dials -> Dials \cup {None}]
  /\ fed \in [Dials -> Dials \cup {None}]
  /\ conn \in [Conns -> Places]

Handed == {"passed", "closed"}

(* A connection is in a channel, or was taken out of one, only when the    *)
(* exec handler has passed it on, and it is in one of these places only.   *)
HandedOnce ==
  /\ \A d \in Dials : chan[d] # None => conn[chan[d]] \in Handed
  /\ \A d \in Dials : fed[d] # None => conn[fed[d]] \in Handed
  /\ \A d, e \in Dials : chan[d] # None => chan[d] # fed[e]
  /\ \A d, e \in Dials : chan[d] # None /\ chan[d] = chan[e] => d = e

(* No connection becomes the producer of two dials, also when a second     *)
(* dial of the URL has replaced the first one's channel.                   *)
OneProducer ==
  \A d, e \in Dials : fed[d] # None /\ fed[d] = fed[e] => d = e

HandInv == HandTypeOK /\ HandedOnce /\ OneProducer

(* A connection that the exec handler has not passed on yet may move.      *)
LEMMA ConnMoves ==
  ASSUME HandInv, NEW c \in Conns, NEW to \in Places, conn[c] \notin Handed,
         conn' = [conn EXCEPT ![c] = to], UNCHANGED <<chan, fed>>
  PROVE  HandInv'
BY DEF HandInv, HandTypeOK, HandedOnce, OneProducer, Handed, Places, Conns

(* The dials of one URL take each other's waiters, but never the same      *)
(* connection: HandOver puts one into a channel once, and Receive takes it *)
(* out.                                                                    *)
THEOREM OneProducerSafe == Spec => []OneProducer
<1>1. Init => HandInv
  BY DEF Init, HandInv, HandTypeOK, HandedOnce, OneProducer, Places
<1>2. HandInv /\ [Next]_vars => HandInv'
  <2> SUFFICES ASSUME HandInv, [Next]_vars PROVE HandInv'
    OBVIOUS
  <2>1. ASSUME NEW d \in Dials, Receive(d) PROVE HandInv'
    <3>1. UNCHANGED conn /\ chan[d] # None
      BY <2>1 DEF Receive, server
    <3>2. /\ fed' = [fed EXCEPT ![d] = chan[d]]
          /\ chan' = [chan EXCEPT ![d] = None]
      BY <2>1 DEF Receive
    <3>3. HandTypeOK'
      BY <3>1, <3>2 DEF HandInv, HandTypeOK
    <3>4. HandedOnce'
      BY <3>1, <3>2 DEF HandInv, HandTypeOK, HandedOnce
    <3>5. OneProducer'
      BY <3>1, <3>2 DEF HandInv, HandTypeOK, HandedOnce, OneProducer
    <3> QED BY <3>3, <3>4, <3>5 DEF HandInv
  <2>2. ASSUME NEW d \in Dials, Stop(d) PROVE HandInv'
    <3>1. conn' = [conn EXCEPT ![fed[d]] = "closed"] /\ UNCHANGED <<chan, fed>>
      BY <2>2 DEF Stop
    <3>2. \A c \in Conns : conn'[c] = conn[c] \/ conn'[c] = "closed"
      BY <3>1 DEF HandInv, HandTypeOK
    <3>3. HandTypeOK'
      BY <3>1 DEF HandInv, HandTypeOK, Places
    <3>4. \A e \in Dials : conn'[e] = conn[e] \/ conn'[e] \in Handed
      BY <3>2 DEF Conns, Handed
    <3>5. HandedOnce'
      BY <3>1, <3>4 DEF HandInv, HandTypeOK, HandedOnce, Handed
    <3>6. OneProducer'
      BY <3>1 DEF HandInv, OneProducer
    <3> QED BY <3>3, <3>5, <3>6 DEF HandInv
  <2>3. ASSUME NEW c \in Conns, HandOver(c) PROVE HandInv'
    <3>1. c \in Dials /\ c # None /\ conn[c] = "found" /\ UNCHANGED fed
      BY <2>3, RtspServerAssumption DEF HandOver, At
    <3>2. \A d \in Dials : chan[d] # c /\ fed[d] # c
      BY <3>1 DEF HandInv, HandedOnce, Handed
    <3>3. CASE At(c, "found", "closed") /\ UNCHANGED chan
      <4>1. conn[c] \notin Handed /\ conn' = [conn EXCEPT ![c] = "closed"]
        BY <3>3 DEF At, Handed
      <4> QED BY <3>1, <3>3, <4>1, ConnMoves DEF Places
    <3>4. CASE /\ At(c, "found", "passed") /\ chan[found[c]] = None
               /\ chan' = [chan EXCEPT ![found[c]] = c]
      <4>1. conn' = [conn EXCEPT ![c] = "passed"]
        BY <3>4 DEF At
      <4>2. HandTypeOK'
        BY <3>1, <3>4, <4>1 DEF HandInv, HandTypeOK, Places
      <4>3. \A d \in Dials : chan'[d] = IF d = found[c] THEN c ELSE chan[d]
        BY <3>4 DEF HandInv, HandTypeOK
      <4>4. HandedOnce'
        BY <3>1, <3>2, <4>1, <4>3 DEF HandInv, HandTypeOK, HandedOnce, Handed, Conns
      <4>5. OneProducer'
        BY <3>1 DEF HandInv, OneProducer
      <4> QED BY <4>2, <4>4, <4>5 DEF HandInv
    <3> QED BY <2>3, <3>3, <3>4 DEF HandOver
  <2>4. ASSUME NEW c \in Conns,
               \/ Connect(c) \/ AcceptFails(c) \/ Describe(c) \/ Announce(c) \/ Play(c)
               \/ Teardown(c) \/ Add(c) \/ Find(c) \/ FindNone(c) \/ EndHandle(c)
        PROVE HandInv'
    <3>1. UNCHANGED <<chan, fed>>
      BY <2>4 DEF Connect, AcceptFails, Describe, Announce, Play, Teardown, Add, Find,
                  FindNone, EndHandle, exec
    <3>2. conn[c] \notin Handed /\ \E to \in Places : conn' = [conn EXCEPT ![c] = to]
      BY <2>4 DEF Connect, AcceptFails, Describe, Announce, Play, Teardown, Add, Find,
                  FindNone, EndHandle, At, Handed, Places
    <3> QED BY <3>1, <3>2, ConnMoves
  <2>5. CASE UNCHANGED <<chan, fed, conn>>
    BY <2>5 DEF HandInv, HandTypeOK, HandedOnce, OneProducer
  <2>6. ASSUME NEW d \in Dials,
               \/ Register(d) \/ LaunchFails(d) \/ Launch(d) \/ Timeout(d) \/ ChildFailed(d)
               \/ Unregister(d) \/ Exit(d)
        PROVE UNCHANGED <<chan, fed, conn>>
    BY <2>6 DEF Register, LaunchFails, Launch, Timeout, ChildFailed, Unregister, Exit, server
  <2>7. ASSUME NEW c \in Conns, Leave(c) PROVE UNCHANGED <<chan, fed, conn>>
    BY <2>7 DEF Leave, exec
  <2> QED
    BY <2>1, <2>2, <2>3, <2>4, <2>5, <2>6, <2>7 DEF Next, Returns, Goes, vars, exec, server
<1>3. HandInv => OneProducer
  BY DEF HandInv
<1> QED BY <1>1, <1>2, <1>3, PTL DEF Spec
-----------------------------------------------------------------------------
(* WebrtcClient *)

(* The run's specification, without its fairness. *)
LEMMA SourcesMove ==
  SourcesSpec => SourcesInit /\ [][SourcesNext]_<<part, clientVars, vars, tuyaVars, ringVars,
                                                  webrtcVars, hkVars>>
  BY PTL DEF SourcesSpec

(* What the run does to WebrtcClient. *)
WebrtcMove == W!Init /\ [][W!Next]_webrtcVars

(* The run's other parts leave the WebRTC sources alone.                  *)
LEMMA WebrtcMoves == SourcesSpec => WebrtcMove
<1>1. SourcesInit => W!Init
  BY DEF SourcesInit
<1>2. [SourcesNext]_<<part, clientVars, vars, tuyaVars, ringVars, webrtcVars, hkVars>>
        => [W!Next]_webrtcVars
  BY DEF SourcesNext, webrtcVars
<1> QED
  BY <1>1, <1>2, SourcesMove, PTL DEF WebrtcMove

(* Who answers writes from the reader, the others from the dial. *)
Roles ==
  /\ format \in {"go2rtc", "kinesis", "openipc", "http"}
  /\ described \in BOOLEAN /\ accepted \in BOOLEAN /\ promise \in BOOLEAN
  /\ wReader = "write" => format = "openipc" /\ accepted
  /\ wDial \in {"ws", "pc", "create"} => ice = "none"
  /\ format = "openipc" =>
       wDial \in {"ws", "pc", "wait", "failing", "leaving", "failed", "dialled"}
  /\ ice = "ready" => format = "go2rtc"
  /\ ice = "wait" => format # "go2rtc"
  /\ format = "http" => ice = "none"

(* A promise is kept when the description was written, or the dial is over. *)
PromiseKept ==
  format # "go2rtc" =>
    /\ promise => described \/ W!Leaving \/ W!Returned
    /\ ice = "write" => promise
    /\ wDial \in {"ws", "pc", "create", "offer", "sent"} => ~ promise

(* Until the answer of OpenIPC is written nothing can end the dial but the *)
(* reader, and no candidate is found before its offer.                     *)
AnswerPending ==
  format = "openipc" =>
    /\ ~ accepted => ice = "none"
    /\ wDial \in {"ws", "pc"} => wReader = "none" /\ ~ accepted
    /\ \/ wDial \in {"ws", "pc"} \/ wReader = "write"
       \/ wReader = "read" /\ ~ accepted
       => /\ wDial \in {"ws", "pc", "wait"}
          /\ connState = "open" /\ ~ promise /\ ~ described

(* A goroutine that writes is where it writes. *)
OneWriter ==
  \/ writing = {}
  \/ writing = {Dialer} /\ wDial = "sent" /\ W!Socket
  \/ writing = {Reader} /\ wReader = "write"
  \/ writing = {Ice} /\ ice = "write"

WebrtcInv == Roles /\ PromiseKept /\ AnswerPending /\ OneWriter

(* Nothing is written before the socket is there. *)
LEMMA WebrtcInit == W!Init => WebrtcInv
  BY DEF W!Init, WebrtcInv, Roles, PromiseKept, AnswerPending, OneWriter

(* Whoever takes a step keeps the three in step. *)
LEMMA WebrtcStep == WebrtcInv /\ [W!Next]_webrtcVars => WebrtcInv'
<1> SUFFICES ASSUME WebrtcInv, [W!Next]_webrtcVars PROVE WebrtcInv'
  OBVIOUS
<1> USE DEF WebrtcInv, Roles, PromiseKept, AnswerPending, OneWriter, W!Leaving, W!Returned,
            W!Socket, W!MayWrite
<1>1. CASE W!Dial
  BY <1>1 DEF W!Dial
<1>2. CASE W!PeerConnection
  BY <1>2 DEF W!PeerConnection
<1>3. CASE W!CreateOffer
  BY <1>3 DEF W!CreateOffer
<1>4. CASE W!WriteOffer
  BY <1>4 DEF W!WriteOffer
<1>5. CASE W!SendOffer
  BY <1>5 DEF W!SendOffer
<1>6. CASE W!Answer
  BY <1>6 DEF W!Answer, W!Leave
<1>7. CASE W!StepFails
  BY <1>7 DEF W!StepFails, W!Leave
<1>8. CASE W!AnswerFails \/ W!Wait
  BY <1>8 DEF W!AnswerFails, W!Wait, W!Leave
<1>9. CASE W!DonePromise \/ W!CloseWs
  BY <1>9 DEF W!DonePromise, W!CloseWs
<1>10. CASE W!ReadAnswer
  BY <1>10 DEF W!ReadAnswer, W!Gives
<1>11. CASE W!ReadOffer
  <2>1. wDial = "wait" /\ connState = "open" /\ ~ promise /\ ~ described /\ ice = "none"
    BY <1>11 DEF W!ReadOffer, W!Gives
  <2>2. writing = {}
    BY <1>11, <2>1 DEF W!ReadOffer, W!Gives
  <2>3. Roles' /\ PromiseKept' /\ AnswerPending'
    BY <1>11, <2>1 DEF W!ReadOffer, W!Gives
  <2>4. OneWriter'
    BY <1>11, <2>2 DEF W!ReadOffer
  <2> QED
    BY <2>3, <2>4
<1>12. CASE W!SendAnswer
  <2>1. format = "openipc" /\ accepted /\ wDial = "wait" /\ writing' = writing \ {Reader}
        /\ wReader = "write" /\ wReader' # "write"
    BY <1>12 DEF W!SendAnswer
  <2>2. /\ UNCHANGED <<format, wDial, accepted, ice>>
        /\ \/ described' = TRUE /\ promise' = TRUE
           \/ wReader' = "end" /\ UNCHANGED <<described, promise>>
    BY <1>12 DEF W!SendAnswer
  <2>3. Roles'
    BY <2>1, <2>2
  <2>4. PromiseKept'
    BY <2>1, <2>2
  <2>5. AnswerPending'
    BY <2>1, <2>2
  <2>6. OneWriter'
    BY <2>1, <2>2
  <2> QED
    BY <2>3, <2>4, <2>5, <2>6
<1>13. CASE W!MessageFails \/ W!ReadFails
  BY <1>13 DEF W!MessageFails, W!ReadFails, W!Gives, W!Done
<1>14. CASE W!Break
  BY <1>14 DEF W!Break
<1>15. CASE W!PcConnected \/ W!PcFails
  BY <1>15 DEF W!PcConnected, W!PcFails, W!Done
<1>16. CASE W!Candidate
  BY <1>16 DEF W!Candidate
<1>17. CASE W!WriteCandidate
  BY <1>17 DEF W!WriteCandidate
<1>18. CASE W!SendCandidate
  BY <1>18 DEF W!SendCandidate, W!Done
<1>19. CASE UNCHANGED webrtcVars
  BY <1>19 DEF webrtcVars
<1> QED
  BY <1>1, <1>2, <1>3, <1>4, <1>5, <1>6, <1>7, <1>8, <1>9, <1>10, <1>11, <1>12, <1>13, <1>14,
     <1>15, <1>16, <1>17, <1>18, <1>19
  DEF W!Next, W!DialSteps, W!Runs

(* FiniteSets as WebrtcClient has it. *)
LEMMA SameCardinality ==
  ASSUME NEW X PROVE W!Cardinality(X) = Cardinality(X)
  BY DEF W!Cardinality, Cardinality, W!IsFiniteSet, IsFiniteSet

(* Two goroutines never write to the socket at a time, and no candidate    *)
(* goes before our description to those who need that first, unless the    *)
(* dial is over without one, wherever the dial, the reader and the         *)
(* callback are (internal/webrtc/kinesis.go, openipc.go, client.go).       *)
THEOREM OfferFirstSafe == SourcesSpec => []OfferFirst
<1>1. WebrtcInv => OfferFirst
  <2>1. \A x : Cardinality({x}) = 1
    BY FS_Singleton
  <2>2. Cardinality({}) = 0
    BY FS_EmptySet
  <2>3. WebrtcInv => W!Cardinality(writing) <= 1
    <3>1. WebrtcInv => writing = {} \/ \E x : writing = {x}
      BY DEF WebrtcInv, OneWriter
    <3>2. Cardinality(writing) \in {0, 1} => W!Cardinality(writing) <= 1
      BY SameCardinality
    <3> QED
      BY <2>1, <2>2, <3>1, <3>2
  <2>4. WebrtcInv /\ format # "go2rtc" /\ ice = "write" => described \/ W!Leaving \/ W!Returned
    BY DEF WebrtcInv, PromiseKept
  <2> QED
    BY <2>3, <2>4 DEF OfferFirst, W!OfferFirst
<1> QED
  BY <1>1, WebrtcInit, WebrtcStep, WebrtcMoves, PTL DEF WebrtcMove
-----------------------------------------------------------------------------
(* Rtsp *)

(* What the run does to Rtsp. *)
RtspMove == R!Init /\ [][R!Next]_clientVars

(* The run's other parts leave the RTSP client alone. *)
LEMMA RtspMoves == SourcesSpec => RtspMove
<1>1. SourcesInit => R!Init
  BY DEF SourcesInit
<1>2. [SourcesNext]_<<part, clientVars, vars, tuyaVars, ringVars, webrtcVars, hkVars>>
        => [R!Next]_clientVars
  BY DEF SourcesNext, clientVars
<1> QED
  BY <1>1, <1>2, SourcesMove, PTL DEF RtspMove

(* What a call may have left to do, and what the camera is asked. *)
Steps == R!Media \cup {"close", "dial", "describe"}
Requests == R!Media \cup {"describe", "play", "options"}

(* A list of steps closes and dials only at its beginning, in this order,  *)
(* and describes what was dialled before it sets anything up.              *)
Has(p, x) == \E i \in 1 .. Len(p) : p[i] = x
Asked(p) ==
  /\ p \in Seq(Steps) /\ ~ Has(p, "close") /\ ~ Has(p, "dial")
  /\ \A i \in 2 .. Len(p) : p[i] # "describe"
Shape(p) ==
  /\ p \in Seq(Steps)
  /\ \A i \in 1 .. Len(p) : p[i] = "close" => i = 1
  /\ \A i \in 1 .. Len(p) : p[i] = "dial" => i = 1 \/ (i = 2 /\ p[1] = "close")
  /\ \A i \in 2 .. Len(p) : p[i] = "describe" => p[i - 1] = "dial"

(* What is left when the first step is done. *)
LEMMA TailShape ==
  ASSUME NEW p, Shape(p), p # <<>>
  PROVE  /\ Shape(Tail(p)) /\ Head(p) = p[1] /\ Head(p) \in Steps
         /\ Head(p) # "close" => Asked(Tail(p))
         /\ Head(p) \notin {"close", "dial"} => Asked(p) /\ ~ Has(Tail(p), "describe")
         /\ Tail(p) # <<>> => Tail(p)[Len(Tail(p))] = p[Len(p)]
         /\ Tail(p) = <<>> => p[Len(p)] = Head(p)
         /\ \A x : Has(p, x) => x = Head(p) \/ Has(Tail(p), x)
         /\ \A x : Has(Tail(p), x) => Has(p, x)
<1>1. /\ p \in Seq(Steps) /\ Len(p) \in Nat \ {0}
      /\ Tail(p) \in Seq(Steps) /\ Len(Tail(p)) = Len(p) - 1
      /\ \A i \in 1 .. Len(p) - 1 : Tail(p)[i] = p[i + 1]
      /\ Head(p) = p[1] /\ p[1] \in Steps
  BY EmptySeq, HeadTailProperties, LenProperties, ElementOfSeq DEF Shape
<1>2. Tail(p) # <<>> <=> Len(p) # 1
  BY <1>1, EmptySeq
<1>3. \A x : Has(Tail(p), x) => Has(p, x)
  <2> SUFFICES ASSUME NEW i \in 1 .. Len(p) - 1 PROVE \E j \in 1 .. Len(p) : p[j] = Tail(p)[i]
    BY <1>1 DEF Has
  <2>1. i + 1 \in 1 .. Len(p)
    BY <1>1
  <2> QED
    BY <1>1, <2>1
<1>4. ASSUME NEW x, Has(p, x), x # Head(p) PROVE Has(Tail(p), x)
  <2>1. PICK i \in 1 .. Len(p) : p[i] = x
    BY <1>4 DEF Has
  <2>2. i # 1 /\ i - 1 \in 1 .. Len(p) - 1
    BY <1>1, <1>4, <2>1
  <2>3. Tail(p)[i - 1] = x
    BY <1>1, <2>1, <2>2
  <2> QED
    BY <1>1, <2>2, <2>3 DEF Has
<1>5. ASSUME NEW i \in 1 .. Len(p) - 1
      PROVE  /\ Tail(p)[i] # "close"
             /\ Tail(p)[i] = "dial" => i = 1 /\ Head(p) = "close"
  <2>1. i + 1 \in 1 .. Len(p) /\ i + 1 # 1 /\ Tail(p)[i] = p[i + 1]
    BY <1>1
  <2> QED
    BY <1>1, <2>1 DEF Shape
<1>a. ASSUME NEW i \in 1 .. Len(p) - 1, Tail(p)[i] = "describe"
      PROVE  /\ i # 1 => i - 1 \in 1 .. Len(p) - 1 /\ Tail(p)[i - 1] = "dial" /\ Head(p) = "close"
             /\ i = 1 => Head(p) = "dial"
  <2>1. i + 1 \in 2 .. Len(p) /\ i \in 1 .. Len(p) /\ Tail(p)[i] = p[i + 1] /\ i + 1 - 1 = i
    BY <1>1
  <2>2. p[i] = "dial"
    BY <1>a, <2>1 DEF Shape
  <2>3. i # 1 => i - 1 \in 1 .. Len(p) - 1 /\ Tail(p)[i - 1] = p[i] /\ p[1] = "close"
    BY <1>1, <2>1, <2>2 DEF Shape
  <2> QED
    BY <1>1, <2>2, <2>3
<1>6. Shape(Tail(p)) /\ (Head(p) # "close" => Asked(Tail(p)))
  <2>1. \A i \in 2 .. Len(p) - 1 : i \in 1 .. Len(p) - 1 /\ i # 1
    BY <1>1
  <2> QED
    BY <1>1, <1>5, <1>a, <2>1 DEF Shape, Asked, Has
<1>7. Head(p) \notin {"close", "dial"} => Asked(p) /\ ~ Has(Tail(p), "describe")
  <2>1. ASSUME NEW i \in 2 .. Len(p), Head(p) \notin {"close", "dial"} PROVE p[i] # "describe"
    <3>1. i - 1 \in 1 .. Len(p) - 1 /\ Tail(p)[i - 1] = p[i]
      BY <1>1
    <3> QED
      BY <1>a, <2>1, <3>1
  <2>2. Head(p) \notin {"close", "dial"} => ~ Has(Tail(p), "describe")
    BY <1>1, <1>a DEF Has
  <2> QED
    BY <1>1, <2>1, <2>2 DEF Shape, Asked, Has
<1>8. Tail(p) # <<>> => Tail(p)[Len(Tail(p))] = p[Len(p)]
  <2> SUFFICES ASSUME Tail(p) # <<>> PROVE Tail(p)[Len(p) - 1] = p[Len(p)]
    BY <1>1
  <2>1. Len(p) - 1 \in 1 .. Len(p) - 1 /\ (Len(p) - 1) + 1 = Len(p)
    BY <1>1, <1>2
  <2> QED
    BY <1>1, <2>1
<1> QED
  BY <1>1, <1>2, <1>3, <1>4, <1>6, <1>7, <1>8

(* Steps put in front of others. *)
LEMMA InFront ==
  ASSUME NEW p \in Seq(Steps), Len(p) >= 2, p[1] = "close", p[2] = "dial",
         \A i \in 3 .. Len(p) : p[i] \notin {"close", "dial"},
         \A i \in 4 .. Len(p) : p[i] # "describe",
         NEW q, Asked(q), q # <<>> /\ Len(p) > 2 => Head(q) # "describe"
  PROVE  /\ Shape(p \o q) /\ p \o q # <<>> /\ Head(p \o q) = "close" /\ Has(p \o q, "dial")
         /\ \A x : Has(p, x) => Has(p \o q, x)
         /\ q # <<>> => (p \o q)[Len(p \o q)] = q[Len(q)]
<1>1. /\ q \in Seq(Steps) /\ Len(p) \in Nat /\ Len(q) \in Nat
      /\ p \o q \in Seq(Steps) /\ Len(p \o q) = Len(p) + Len(q)
      /\ \A i \in 1 .. Len(p) + Len(q) : (p \o q)[i] =
           IF i <= Len(p) THEN p[i] ELSE q[i - Len(p)]
  BY ConcatProperties, LenProperties DEF Asked
<1>2. p \o q # <<>> /\ Head(p \o q) = "close" /\ (p \o q)[1] = "close" /\ (p \o q)[2] = "dial"
  BY <1>1, EmptySeq, HeadTailProperties
<1>3. ASSUME NEW i \in 3 .. Len(p) + Len(q) PROVE (p \o q)[i] \notin {"close", "dial"}
  <2>1. CASE i <= Len(p)
    BY <1>1, <2>1
  <2>2. CASE ~ (i <= Len(p))
    <3>1. i - Len(p) \in 1 .. Len(q)
      BY <1>1, <2>2
    <3> QED
      BY <1>1, <2>2, <3>1 DEF Asked, Has
  <2> QED
    BY <2>1, <2>2
<1>4. \A x : Has(p, x) => Has(p \o q, x)
  BY <1>1 DEF Has
<1>5. Has(p \o q, "dial")
  BY <1>1, <1>2 DEF Has
<1>6. q # <<>> => (p \o q)[Len(p \o q)] = q[Len(q)]
  <2> SUFFICES ASSUME q # <<>> PROVE (p \o q)[Len(p) + Len(q)] = q[Len(q)]
    BY <1>1
  <2>1. Len(q) # 0 /\ Len(p) + Len(q) - Len(p) = Len(q)
    BY <1>1, EmptySeq
  <2> QED
    BY <1>1, <2>1
<1>7. Shape(p \o q)
  <2>1. ASSUME NEW i \in 1 .. Len(p) + Len(q)
        PROVE  /\ (p \o q)[i] = "close" => i = 1
               /\ (p \o q)[i] = "dial" => i = 1 \/ i = 2
    <3>1. i = 1 \/ i = 2 \/ i \in 3 .. Len(p) + Len(q)
      BY <1>1
    <3> QED
      BY <1>2, <1>3, <3>1
  <2>2. ASSUME NEW i \in 4 .. Len(p) + Len(q) PROVE (p \o q)[i] # "describe"
    <3>1. CASE i <= Len(p)
      BY <1>1, <3>1
    <3>2. CASE ~ (i <= Len(p))
      <4>1. i - Len(p) \in 1 .. Len(q) /\ (p \o q)[i] = q[i - Len(p)] /\ q # <<>> /\ Head(q) = q[1]
        BY <1>1, <3>2, EmptySeq, HeadTailProperties
      <4>2. CASE i - Len(p) = 1
        BY <1>1, <4>1, <4>2
      <4>3. CASE i - Len(p) # 1
        BY <1>1, <4>1, <4>3 DEF Asked
      <4> QED
        BY <4>2, <4>3
    <3> QED
      BY <3>1, <3>2
  <2>3. ASSUME NEW i \in 2 .. Len(p) + Len(q), (p \o q)[i] = "describe"
        PROVE  (p \o q)[i - 1] = "dial"
    <3>1. i = 2 \/ i = 3 \/ i \in 4 .. Len(p) + Len(q)
      BY <1>1
    <3>2. i = 3 /\ i - 1 = 2
      BY <1>2, <2>2, <2>3, <3>1
    <3> QED
      BY <1>2, <3>2
  <2> QED
    BY <1>1, <1>2, <2>1, <2>3 DEF Shape
<1> QED
  BY <1>2, <1>4, <1>5, <1>6, <1>7

(* The answers c.reader holds, as far as those to a SETUP go. *)
NoMedia(w) == \A i \in 1 .. Len(w) : w[i] \notin R!Media
OneMedia(w, m) ==
  /\ \A i \in 1 .. Len(w) : w[i] \in R!Media => w[i] = m
  /\ \A i, j \in 1 .. Len(w) : w[i] \in R!Media /\ w[j] \in R!Media => i = j

(* What is read, and what is written behind it. *)
LEMMA TailWire ==
  ASSUME NEW w \in Seq(Requests), w # <<>>
  PROVE  /\ Tail(w) \in Seq(Requests) /\ Head(w) \in Requests
         /\ NoMedia(w) => NoMedia(Tail(w)) /\ Head(w) \notin R!Media
         /\ \A m : OneMedia(w, m) =>
              /\ OneMedia(Tail(w), m)
              /\ Head(w) \in R!Media => Head(w) = m /\ NoMedia(Tail(w))
<1>1. /\ Len(w) \in Nat \ {0} /\ Tail(w) \in Seq(Requests) /\ Len(Tail(w)) = Len(w) - 1
      /\ \A i \in 1 .. Len(w) - 1 : Tail(w)[i] = w[i + 1]
      /\ Head(w) = w[1] /\ w[1] \in Requests
  BY EmptySeq, HeadTailProperties, LenProperties, ElementOfSeq
<1>2. \A i \in 1 .. Len(w) - 1 : i + 1 \in 1 .. Len(w) /\ i + 1 # 1
  BY <1>1
<1>3. NoMedia(w) => NoMedia(Tail(w)) /\ Head(w) \notin R!Media
  BY <1>1, <1>2 DEF NoMedia
<1>4. ASSUME NEW m, OneMedia(w, m)
      PROVE  /\ OneMedia(Tail(w), m)
             /\ Head(w) \in R!Media => Head(w) = m /\ NoMedia(Tail(w))
  <2>1. \A i \in 1 .. Len(w) - 1 : w[i + 1] \in R!Media => w[i + 1] = m
    BY <1>2, <1>4 DEF OneMedia
  <2>2. ASSUME NEW i \in 1 .. Len(w) - 1, NEW j \in 1 .. Len(w) - 1,
               w[i + 1] \in R!Media, w[j + 1] \in R!Media
        PROVE  i = j
    <3>1. i + 1 = j + 1
      BY <1>2, <1>4, <2>2 DEF OneMedia
    <3> QED
      BY <3>1
  <2>3. w[1] \in R!Media => w[1] = m /\ \A i \in 1 .. Len(w) - 1 : w[i + 1] \notin R!Media
    BY <1>1, <1>2, <1>4 DEF OneMedia
  <2> QED
    BY <1>1, <2>1, <2>2, <2>3 DEF OneMedia, NoMedia
<1> QED
  BY <1>1, <1>3, <1>4

(* What is written behind others is answered behind them. *)
LEMMA AppendWire ==
  ASSUME NEW w \in Seq(Requests), NEW x \in Requests
  PROVE  /\ Append(w, x) \in Seq(Requests)
         /\ NoMedia(w) => OneMedia(Append(w, x), x)
         /\ x \notin R!Media =>
              /\ NoMedia(w) => NoMedia(Append(w, x))
              /\ \A m : OneMedia(w, m) => OneMedia(Append(w, x), m)
<1>1. /\ Len(w) \in Nat /\ Append(w, x) \in Seq(Requests) /\ Len(Append(w, x)) = Len(w) + 1
      /\ \A i \in 1 .. Len(w) : Append(w, x)[i] = w[i]
      /\ Append(w, x)[Len(w) + 1] = x
      /\ \A i \in 1 .. Len(w) + 1 : i \in 1 .. Len(w) \/ i = Len(w) + 1
  BY AppendProperties, LenProperties
<1>2. NoMedia(w) => OneMedia(Append(w, x), x)
  BY <1>1 DEF NoMedia, OneMedia
<1>3. ASSUME x \notin R!Media, NoMedia(w) PROVE NoMedia(Append(w, x))
  BY <1>1, <1>3 DEF NoMedia
<1>4. ASSUME x \notin R!Media, NEW m, OneMedia(w, m) PROVE OneMedia(Append(w, x), m)
  BY <1>1, <1>4 DEF OneMedia
<1> QED
  BY <1>1, <1>2, <1>3, <1>4
-----------------------------------------------------------------------------
(* The lists hold medias, the steps that are left have their shape. *)
RtspTypeOK ==
  /\ receivers \in Seq(R!Media) /\ senders \in Seq(R!Media)
  /\ wire \in Seq(Requests) /\ Shape(plan)
  /\ setup \subseteq R!Media /\ medias \subseteq R!Media
  /\ channel \in [R!Media -> R!Media]
  /\ backchannel \in BOOLEAN /\ wrote \in BOOLEAN /\ open \in BOOLEAN /\ failed \in BOOLEAN

(* What a call that is under way has left, and who has tracks. *)
CallInv ==
  /\ plan # <<>> => caller \in {"opening", "busy"}
  /\ caller = "busy" => plan # <<>> /\ plan[Len(plan)] \in R!Media
  /\ wrote => plan # <<>> /\ Head(plan) \in {"describe"} \cup setup
  /\ caller \in {"new", "opening", "gone"} => R!Tracks = {}

(* A connection is closed before the next is dialled. *)
DialInv ==
  /\ plan # <<>> /\ Head(plan) = "dial" => ~ open \/ (caller = "opening" /\ ~ backchannel)
  /\ caller \in {"new", "stopped"} => ~ open

(* A track is set up on the connection, unless the call under way will do  *)
(* so.                                                                     *)
SetupInv ==
  ~ failed => \A m \in R!Tracks :
    /\ channel[m] = m
    /\ \/ m \in setup /\ ~ Has(plan, "dial") /\ ~ Has(plan, "describe")
       \/ caller = "busy" /\ Has(plan, m)

(* No answer to another SETUP can come, unless a connection is to be       *)
(* dialled first.                                                          *)
AnswerInv ==
  ~ failed => \/ Has(plan, "dial")
              \/ wrote /\ OneMedia(wire, Head(plan))
              \/ ~ wrote /\ NoMedia(wire)

RtspInv == RtspTypeOK /\ CallInv /\ DialInv /\ SetupInv /\ AnswerInv

(* A Conn that was just made has nothing to do and nothing to set up. *)
LEMMA RtspInit == R!Init => RtspInv
<1> SUFFICES ASSUME R!Init PROVE RtspInv
  OBVIOUS
<1>1. /\ plan = <<>> /\ wire = <<>> /\ receivers = <<>> /\ senders = <<>> /\ caller = "new"
      /\ setup = {} /\ medias = {} /\ wrote = FALSE /\ failed = FALSE /\ open = FALSE
      /\ channel = [m \in R!Media |-> m] /\ backchannel \in BOOLEAN
  BY DEF R!Init
<1>2. \A S : <<>> \in Seq(S)
  BY EmptySeq
<1>3. Len(<<>>) = 0
  BY EmptySeq
<1>4. R!Tracks = {}
  BY <1>1 DEF R!Tracks, R!ToSet
<1>5. RtspTypeOK
  <2>1. Shape(plan)
    BY <1>1, <1>2, <1>3 DEF Shape
  <2>2. receivers \in Seq(R!Media) /\ senders \in Seq(R!Media) /\ wire \in Seq(Requests)
    BY <1>1, <1>2
  <2>3. channel \in [R!Media -> R!Media]
    BY <1>1
  <2> QED
    BY <1>1, <2>1, <2>2, <2>3 DEF RtspTypeOK
<1>6. CallInv /\ DialInv
  BY <1>1, <1>4 DEF CallInv, DialInv
<1>7. SetupInv
  BY <1>4 DEF SetupInv
<1>8. AnswerInv
  BY <1>1, <1>3 DEF AnswerInv, NoMedia
<1> QED
  BY <1>5, <1>6, <1>7, <1>8 DEF RtspInv

(* The steps of Start, Handle, the keepalive and the camera leave the call *)
(* alone, and write no SETUP.                                              *)
LEMMA QuietStep ==
  ASSUME RtspInv,
         UNCHANGED <<open, setup, backchannel, medias, receivers, senders, channel, caller, plan,
                     wrote, failed>>,
         \/ UNCHANGED wire
         \/ wire' = <<>>
         \/ wire # <<>> /\ wire' = Tail(wire)
         \/ \E x \in {"play", "options"} : wire' = Append(wire, x)
  PROVE  RtspInv'
<1>1. R!Tracks' = R!Tracks /\ (R!Media)' = R!Media
  BY DEF R!Tracks
<1>2. wire \in Seq(Requests)
  BY DEF RtspInv, RtspTypeOK
<1>3. /\ wire' \in Seq(Requests)
      /\ NoMedia(wire) => NoMedia(wire')
      /\ \A m : OneMedia(wire, m) => OneMedia(wire', m)
  <2>1. CASE UNCHANGED wire
    BY <1>2, <2>1
  <2>2. CASE wire' = <<>>
    <3>1. Len(<<>>) = 0 /\ <<>> \in Seq(Requests)
      BY EmptySeq
    <3> QED
      BY <2>2, <3>1 DEF NoMedia, OneMedia
  <2>3. CASE wire # <<>> /\ wire' = Tail(wire)
    BY <1>2, <2>3, TailWire
  <2>4. ASSUME NEW x \in {"play", "options"}, wire' = Append(wire, x)
        PROVE  /\ wire' \in Seq(Requests)
               /\ NoMedia(wire) => NoMedia(wire')
               /\ \A m : OneMedia(wire, m) => OneMedia(wire', m)
    <3>1. x \in Requests /\ x \notin R!Media
      BY RtspAssumption DEF Requests, R!Media
    <3> QED
      BY <1>2, <2>4, <3>1, AppendWire
  <2> QED
    BY <2>1, <2>2, <2>3, <2>4
<1>4. AnswerInv'
  BY <1>3 DEF RtspInv, AnswerInv
<1> QED
  BY <1>1, <1>3, <1>4 DEF RtspInv, RtspTypeOK, CallInv, DialInv, SetupInv

(* Reconnect closes, dials, and sets up every track. *)
LEMMA Reconnects ==
  ASSUME RtspTypeOK
  PROVE  /\ R!Reconnect \in Seq(Steps) /\ Len(R!Reconnect) >= 2
         /\ R!Reconnect[1] = "close" /\ R!Reconnect[2] = "dial"
         /\ \A i \in 3 .. Len(R!Reconnect) : R!Reconnect[i] \notin {"close", "dial"}
         /\ \A i \in 4 .. Len(R!Reconnect) : R!Reconnect[i] # "describe"
         /\ \A m \in R!Tracks : Has(R!Reconnect, m)
<1>1. receivers \in Seq(Steps) /\ senders \in Seq(Steps)
      /\ Len(receivers) \in Nat /\ Len(senders) \in Nat
      /\ (\A i \in 1 .. Len(receivers) : receivers[i] \in R!Media)
      /\ (\A i \in 1 .. Len(senders) : senders[i] \in R!Media)
      /\ DOMAIN receivers = 1 .. Len(receivers) /\ DOMAIN senders = 1 .. Len(senders)
  <2>1. receivers \in Seq(R!Media) /\ senders \in Seq(R!Media) /\ R!Media \subseteq Steps
    BY DEF RtspTypeOK, Steps
  <2>2. \A q \in Seq(R!Media) : q \in Seq(Steps) /\ Len(q) \in Nat /\ DOMAIN q = 1 .. Len(q)
                                /\ \A i \in 1 .. Len(q) : q[i] \in R!Media
    BY <2>1, LenProperties, ElementOfSeq
  <2> QED
    BY <2>1, <2>2
<1> DEFINE c == <<"close">> \o R!Redial
<1>a. \A p, q \in Seq(Steps) :
        /\ p \o q \in Seq(Steps) /\ Len(p \o q) = Len(p) + Len(q)
        /\ \A i \in 1 .. Len(p) + Len(q) : (p \o q)[i] = IF i <= Len(p) THEN p[i] ELSE q[i - Len(p)]
  BY ConcatProperties
<1>2. c \in Seq(Steps) /\ Len(c) = 3 /\ c[1] = "close" /\ c[2] = "dial" /\ c[3] = "describe"
  <2>1. <<"close">> \in Seq(Steps) /\ <<"dial", "describe">> \in Seq(Steps)
    BY DEF Steps
  <2>2. /\ Len(<<"close">>) = 1 /\ <<"close">>[1] = "close"
        /\ Len(<<"dial", "describe">>) = 2
        /\ <<"dial", "describe">>[1] = "dial" /\ <<"dial", "describe">>[2] = "describe"
    OBVIOUS
  <2>3. c = <<"close">> \o <<"dial", "describe">>
    BY DEF R!Redial
  <2> HIDE DEF c
  <2>4. /\ c \in Seq(Steps) /\ Len(c) = 1 + 2
        /\ \A i \in 1 .. 1 + 2 : c[i] = IF i <= 1 THEN <<"close">>[i] ELSE <<"dial", "describe">>[i - 1]
    BY <1>a, <2>1, <2>2, <2>3
  <2> QED
    BY <2>2, <2>4
<1> HIDE DEF c
<1> DEFINE d == c \o receivers
<1>3. /\ d \in Seq(Steps) /\ Len(d) = 3 + Len(receivers)
      /\ \A i \in 1 .. 3 + Len(receivers) : d[i] = IF i <= 3 THEN c[i] ELSE receivers[i - 3]
  <2>1. /\ c \o receivers \in Seq(Steps) /\ Len(c \o receivers) = Len(c) + Len(receivers)
        /\ \A i \in 1 .. Len(c) + Len(receivers) : (c \o receivers)[i] =
             IF i <= Len(c) THEN c[i] ELSE receivers[i - Len(c)]
    BY <1>a, <1>1, <1>2
  <2> QED
    BY <1>2, <2>1
<1> HIDE DEF d
<1> DEFINE e == d \o senders
<1>4. /\ e \in Seq(Steps) /\ Len(e) = Len(d) + Len(senders)
      /\ \A i \in 1 .. Len(d) + Len(senders) : e[i] = IF i <= Len(d) THEN d[i] ELSE senders[i - Len(d)]
  BY <1>1, <1>3, ConcatProperties
<1>5. R!Reconnect = e
  BY DEF R!Reconnect, c, d, e
<1> HIDE DEF e
<1>6. e[1] = "close" /\ e[2] = "dial" /\ Len(e) >= 2
  BY <1>1, <1>2, <1>3, <1>4
<1>7. ASSUME NEW i \in 3 .. Len(e)
      PROVE  e[i] \notin {"close", "dial"} /\ (i # 3 => e[i] # "describe")
  <2>1. CASE i = 3
    BY <1>1, <1>2, <1>3, <1>4, <2>1
  <2>2. CASE i # 3 /\ i <= Len(d)
    <3>1. i - 3 \in 1 .. Len(receivers) /\ e[i] = receivers[i - 3]
      BY <1>1, <1>3, <1>4, <2>2
    <3> QED
      BY <1>1, <3>1, RtspAssumption DEF R!Media
  <2>3. CASE ~ (i <= Len(d))
    <3>1. i - Len(d) \in 1 .. Len(senders) /\ e[i] = senders[i - Len(d)]
      BY <1>1, <1>3, <1>4, <2>3
    <3> QED
      BY <1>1, <3>1, RtspAssumption DEF R!Media
  <2> QED
    BY <2>1, <2>2, <2>3
<1>8. ASSUME NEW i \in 1 .. Len(receivers) PROVE Has(e, receivers[i])
  <2>1. i + 3 \in 1 .. Len(e) /\ e[i + 3] = receivers[i]
    <3>1. i + 3 \in 1 .. 3 + Len(receivers) /\ ~ (i + 3 <= 3) /\ i + 3 - 3 = i
      BY <1>1
    <3>2. d[i + 3] = receivers[i]
      BY <1>3, <3>1
    <3>3. i + 3 \in 1 .. Len(d) + Len(senders) /\ i + 3 <= Len(d)
      BY <1>1, <1>3
    <3> QED
      BY <1>4, <3>2, <3>3
  <2> QED
    BY <2>1 DEF Has
<1>9. ASSUME NEW i \in 1 .. Len(senders) PROVE Has(e, senders[i])
  <2>1. i + Len(d) \in 1 .. Len(e) /\ e[i + Len(d)] = senders[i]
    <3>1. /\ i + Len(d) \in 1 .. Len(d) + Len(senders) /\ ~ (i + Len(d) <= Len(d))
          /\ i + Len(d) - Len(d) = i
      BY <1>1, <1>3
    <3> QED
      BY <1>4, <3>1
  <2> QED
    BY <2>1 DEF Has
<1>10. \A m \in R!Tracks : Has(e, m)
  BY <1>1, <1>8, <1>9 DEF R!Tracks, R!ToSet
<1>11. \A i \in 4 .. Len(e) : i \in 3 .. Len(e) /\ i # 3
  BY <1>4
<1> QED
  BY <1>4, <1>5, <1>6, <1>7, <1>10, <1>11

(* A call that fails has nothing left to do. *)
LEMMA FailStep ==
  ASSUME RtspInv, plan # <<>>, R!Fail,
         UNCHANGED <<open, setup, receivers, senders, channel>>,
         wire' \in Seq(Requests), medias' \subseteq R!Media
  PROVE  RtspInv'
<1>1. R!Tracks' = R!Tracks
  BY DEF R!Tracks
<1>2. Shape(<<>>) /\ (R!Media)' = R!Media
  <2>1. <<>> \in Seq(Steps) /\ Len(<<>>) = 0
    BY EmptySeq
  <2> QED
    BY <2>1 DEF Shape
<1>3. /\ plan' = <<>> /\ wrote' = FALSE /\ failed' = TRUE /\ backchannel' = backchannel
      /\ caller' = IF caller = "opening" THEN "gone" ELSE "ready"
  BY DEF R!Fail
<1>4. RtspTypeOK'
  BY <1>2, <1>3 DEF RtspInv, RtspTypeOK
<1>5. CallInv' /\ DialInv'
  BY <1>1, <1>3 DEF RtspInv, CallInv, DialInv
<1>6. SetupInv' /\ AnswerInv'
  BY <1>3 DEF SetupInv, AnswerInv
<1> QED
  BY <1>4, <1>5, <1>6 DEF RtspInv

(* Another try begins with a dial, and then sets up what there is. *)
LEMMA DoFailsStep ==
  ASSUME RtspInv, plan # <<>>, R!DoFails,
         UNCHANGED <<open, setup, medias, receivers, senders, channel>>, wire' \in Seq(Requests)
  PROVE  RtspInv'
<1>1. CASE R!Fail
  BY <1>1, FailStep DEF RtspInv, RtspTypeOK
<1>2. CASE ~ R!Fail
  <2>1. /\ backchannel /\ (caller = "opening" \/ Head(plan) \in R!Media)
        /\ plan' = IF caller = "opening" THEN R!Redial ELSE R!Reconnect \o plan
        /\ backchannel' = FALSE /\ wrote' = FALSE /\ UNCHANGED <<caller, failed>>
    BY <1>2 DEF R!DoFails
  <2>2. R!Tracks' = R!Tracks /\ (R!Media)' = R!Media
    BY DEF R!Tracks
  <2>3. /\ Shape(plan') /\ plan' # <<>> /\ Has(plan', "dial")
        /\ caller = "busy" =>
             /\ plan'[Len(plan')] \in R!Media /\ Head(plan') = "close"
             /\ \A m \in R!Tracks : Has(plan', m)
    <3>1. CASE caller = "opening"
      <4>1. plan' = <<"dial", "describe">>
        BY <2>1, <3>1 DEF R!Redial
      <4>2. <<"dial", "describe">> \in Seq(Steps)
        BY DEF Steps
      <4> QED
        BY <3>1, <4>1, <4>2 DEF Shape, Has
    <3>2. CASE caller # "opening"
      <4>1. Asked(plan) /\ plan' = R!Reconnect \o plan
        <5>1. Head(plan) \notin {"close", "dial"}
          BY <2>1, <3>2, RtspAssumption DEF R!Media
        <5> QED
          BY <2>1, <3>2, <5>1, TailShape DEF RtspInv, RtspTypeOK
      <4>2. RtspTypeOK /\ Head(plan) # "describe"
        BY <2>1, <3>2, RtspAssumption DEF RtspInv, R!Media
      <4>3. /\ Shape(plan') /\ plan' # <<>> /\ Head(plan') = "close" /\ Has(plan', "dial")
            /\ \A x : Has(R!Reconnect, x) => Has(plan', x)
            /\ plan'[Len(plan')] = plan[Len(plan)]
        BY <4>1, <4>2, Reconnects, InFront
      <4> QED
        BY <4>2, <4>3, Reconnects DEF RtspInv, CallInv
    <3> QED
      BY <3>1, <3>2
  <2>4. RtspTypeOK'
    BY <2>1, <2>2, <2>3 DEF RtspInv, RtspTypeOK
  <2>5. CallInv' /\ DialInv'
    BY <2>1, <2>2, <2>3 DEF RtspInv, CallInv, DialInv
  <2>6. SetupInv'
    BY <2>1, <2>2, <2>3 DEF RtspInv, CallInv, SetupInv
  <2>7. AnswerInv'
    BY <2>3 DEF AnswerInv
  <2> QED
    BY <2>4, <2>5, <2>6, <2>7 DEF RtspInv
<1> QED
  BY <1>1, <1>2

(* A step that was answered: the answer to a SETUP is its own, so that the *)
(* last one gives the new track its own channel.                           *)
LEMMA DoneStep ==
  ASSUME RtspInv, plan # <<>>, wrote, wire # <<>>, wire' = Tail(wire),
         Head(plan) \in R!Media => Head(wire) \in R!Media, R!Done(Head(wire)),
         medias' \subseteq R!Media, UNCHANGED <<open, setup, backchannel, failed>>
  PROVE  RtspInv'
<1> DEFINE m == Head(plan)
<1>1. /\ m \in {"describe"} \cup setup /\ setup \subseteq R!Media /\ m \notin {"close", "dial"}
      /\ "describe" \notin R!Media
  BY RtspAssumption DEF RtspInv, CallInv, RtspTypeOK, R!Media
<1>2. /\ Shape(Tail(plan)) /\ Asked(Tail(plan)) /\ Asked(plan) /\ ~ Has(Tail(plan), "describe")
      /\ Tail(plan) # <<>> => Tail(plan)[Len(Tail(plan))] = plan[Len(plan)]
      /\ Tail(plan) = <<>> => plan[Len(plan)] = m
      /\ \A x : Has(plan, x) => x = m \/ Has(Tail(plan), x)
  BY <1>1, TailShape DEF RtspInv, RtspTypeOK
<1>3. plan' = Tail(plan) /\ wrote' = FALSE /\ (R!Media)' = R!Media
      /\ caller' = IF Tail(plan) = <<>> THEN "ready" ELSE caller
  BY DEF R!Done
<1>4. wire' \in Seq(Requests) /\ AnswerInv' /\ (~ failed /\ m \in R!Media => Head(wire) = m)
  <2>1. wire \in Seq(Requests)
    BY DEF RtspInv, RtspTypeOK
  <2>2. ASSUME ~ failed PROVE NoMedia(Tail(wire)) /\ (m \in R!Media => Head(wire) = m)
    <3>1. OneMedia(wire, m)
      BY <1>2, <2>2 DEF RtspInv, AnswerInv, Asked
    <3>2. CASE Head(wire) \in R!Media
      BY <2>1, <3>1, <3>2, TailWire
    <3>3. CASE Head(wire) \notin R!Media
      <4>1. m = "describe"
        BY <1>1, <3>3
      <4>2. NoMedia(wire)
        BY <1>1, <3>1, <4>1 DEF OneMedia, NoMedia
      <4> QED
        BY <1>1, <2>1, <4>1, <4>2, TailWire
    <3> QED
      BY <3>2, <3>3
  <2> QED
    BY <1>3, <2>1, <2>2, TailWire DEF AnswerInv
<1>5. CASE Tail(plan) = <<>> /\ caller = "busy"
  <2>1. m \in R!Media /\ m \in setup /\ Head(wire) \in R!Media
    BY <1>1, <1>2, <1>5 DEF RtspInv, CallInv
  <2>2. /\ \/ receivers' = Append(receivers, m) /\ UNCHANGED senders
           \/ senders' = Append(senders, m) /\ UNCHANGED receivers
        /\ channel' = [channel EXCEPT ![m] = Head(wire)]
    BY <1>3, <1>5 DEF R!Done
  <2>3. \A q \in Seq(R!Media) :
          Append(q, m) \in Seq(R!Media) /\ R!ToSet(Append(q, m)) = R!ToSet(q) \cup {m}
    <3> SUFFICES ASSUME NEW q \in Seq(R!Media)
                 PROVE  Append(q, m) \in Seq(R!Media) /\ R!ToSet(Append(q, m)) = R!ToSet(q) \cup {m}
      OBVIOUS
    <3>1. /\ Append(q, m) \in Seq(R!Media)
          /\ Len(q) \in Nat /\ DOMAIN q = 1 .. Len(q) /\ DOMAIN Append(q, m) = 1 .. Len(q) + 1
          /\ \A i \in 1 .. Len(q) : Append(q, m)[i] = q[i]
          /\ Append(q, m)[Len(q) + 1] = m
      BY <2>1, AppendProperties, LenProperties
    <3> QED
      BY <3>1 DEF R!ToSet
  <2>4. /\ receivers' \in Seq(R!Media) /\ senders' \in Seq(R!Media)
        /\ R!Tracks' = R!Tracks \cup {m}
    BY <2>2, <2>3 DEF RtspInv, RtspTypeOK, R!Tracks
  <2>5. RtspTypeOK'
    BY <1>2, <1>3, <1>4, <2>1, <2>2, <2>4 DEF RtspInv, RtspTypeOK
  <2>6. CallInv' /\ DialInv'
    BY <1>3, <1>5 DEF RtspInv, CallInv, DialInv
  <2>7. SetupInv'
    <3> SUFFICES ASSUME ~ failed, NEW k \in R!Tracks \cup {m}
                 PROVE  channel'[k] = k /\ k \in setup /\ ~ Has(<<>>, "dial") /\ ~ Has(<<>>, "describe")
      BY <1>3, <1>5, <2>4 DEF SetupInv
    <3>1. ~ Has(<<>>, k) /\ ~ Has(<<>>, "dial") /\ ~ Has(<<>>, "describe")
      BY EmptySeq DEF Has
    <3>2. k # m => channel[k] = k /\ k \in setup
      BY <1>2, <1>5, <3>1 DEF RtspInv, SetupInv
    <3>3. k \in R!Media
      BY <2>1, <3>2 DEF RtspInv, RtspTypeOK
    <3> QED
      BY <1>4, <2>1, <2>2, <3>1, <3>2, <3>3 DEF RtspInv, RtspTypeOK
  <2> QED
    BY <1>4, <2>5, <2>6, <2>7 DEF RtspInv
<1>6. CASE ~ (Tail(plan) = <<>> /\ caller = "busy")
  <2>1. UNCHANGED <<receivers, senders, channel>> /\ R!Tracks' = R!Tracks
    BY <1>3, <1>6 DEF R!Done, R!added, R!Tracks
  <2>2. RtspTypeOK'
    BY <1>2, <1>3, <1>4, <2>1 DEF RtspInv, RtspTypeOK
  <2>3. CallInv'
    BY <1>2, <1>3, <1>6, <2>1 DEF RtspInv, CallInv
  <2>4. DialInv'
    <3>1. plan' # <<>> => Head(plan') # "dial"
      <4>1. Tail(plan) # <<>> => Head(Tail(plan)) = Tail(plan)[1] /\ 1 \in 1 .. Len(Tail(plan))
        BY <1>2, EmptySeq, HeadTailProperties, LenProperties DEF Asked
      <4> QED
        BY <1>2, <1>3, <4>1 DEF Asked, Has
    <3> QED
      BY <1>3, <3>1 DEF RtspInv, CallInv, DialInv
  <2>5. SetupInv'
    <3> SUFFICES ASSUME ~ failed, NEW k \in R!Tracks
                 PROVE  /\ channel[k] = k
                        /\ \/ k \in setup /\ ~ Has(Tail(plan), "dial") /\ ~ Has(Tail(plan), "describe")
                           \/ caller' = "busy" /\ Has(Tail(plan), k)
      BY <1>3, <2>1 DEF SetupInv
    <3>1. ~ Has(Tail(plan), "dial") /\ caller \notin {"new", "opening", "gone"}
          /\ caller \in {"opening", "busy"}
      BY <1>2 DEF Asked, RtspInv, CallInv
    <3>2. caller' = "busy"
      BY <1>3, <1>6, <3>1
    <3>3. channel[k] = k /\ (k \in setup \/ Has(plan, k))
      BY DEF RtspInv, SetupInv
    <3>4. k \in R!Media
      BY <3>3, <1>1, RtspAssumption DEF RtspInv, RtspTypeOK, R!Tracks, R!ToSet
    <3>5. k = m => k \in setup
      BY <1>1, <3>4
    <3> QED
      BY <1>2, <3>1, <3>2, <3>3, <3>5
  <2> QED
    BY <1>4, <2>2, <2>3, <2>4, <2>5 DEF RtspInv
<1> QED
  BY <1>5, <1>6

(* Closing, dialling, writing a request. *)
LEMMA WriteSteps ==
  ASSUME RtspInv, R!CloseStep \/ R!DialStep \/ R!Write PROVE RtspInv'
<1>1. UNCHANGED <<receivers, senders, channel, caller, failed, backchannel, medias>>
      /\ R!Tracks' = R!Tracks /\ (R!Media)' = R!Media
  BY DEF R!CloseStep, R!DialStep, R!Write, R!added, R!conf, R!Tracks
<1>2. \A x \in {"close", "dial"} : R!Step(x) =>
        /\ plan # <<>> /\ Head(plan) = x /\ x \notin R!Media /\ Shape(Tail(plan))
        /\ x = "dial" => Asked(Tail(plan))
        /\ caller = "busy" => Tail(plan) # <<>> /\ Tail(plan)[Len(Tail(plan))] \in R!Media
        /\ \A k : k # x /\ Has(plan, k) => Has(Tail(plan), k)
        /\ wrote = FALSE
  BY TailShape, RtspAssumption
  DEF R!Step, RtspInv, RtspTypeOK, CallInv, R!Media
<1>3. \A k \in R!Tracks : k \in R!Media /\ k \notin {"close", "dial"}
  BY RtspAssumption DEF RtspInv, RtspTypeOK, R!Tracks, R!ToSet, R!Media
<1>4. CASE R!CloseStep
  <2>1. R!Step("close") /\ open' = FALSE /\ plan' = Tail(plan) /\ UNCHANGED <<wire, setup, wrote>>
    BY <1>4 DEF R!CloseStep
  <2>2. RtspTypeOK' /\ CallInv' /\ DialInv'
    BY <1>1, <1>2, <2>1 DEF RtspInv, RtspTypeOK, CallInv, DialInv
  <2>3. \A x : Has(Tail(plan), x) => Has(plan, x)
    BY <1>2, <2>1, TailShape DEF RtspInv, RtspTypeOK
  <2>4. SetupInv'
    BY <1>1, <1>2, <1>3, <2>1, <2>3 DEF RtspInv, SetupInv
  <2>5. AnswerInv'
    BY <1>1, <1>2, <2>1 DEF RtspInv, AnswerInv
  <2> QED
    BY <2>2, <2>4, <2>5 DEF RtspInv
<1>5. CASE R!DialStep
  <2>1. R!Step("dial") /\ open' = TRUE /\ plan' = Tail(plan) /\ wire' = <<>> /\ setup' = {}
        /\ UNCHANGED wrote
    BY <1>5 DEF R!DialStep
  <2>2. <<>> \in Seq(Requests) /\ Len(<<>>) = 0
    BY EmptySeq
  <2>3. RtspTypeOK'
    BY <1>1, <1>2, <2>1, <2>2 DEF RtspInv, RtspTypeOK
  <2>4. plan' # <<>> => Head(plan') # "dial"
    <3>1. Tail(plan) # <<>> => Head(Tail(plan)) = Tail(plan)[1] /\ 1 \in 1 .. Len(Tail(plan))
      BY <1>2, <2>1, EmptySeq, HeadTailProperties, LenProperties DEF Asked
    <3> QED
      BY <1>2, <2>1, <3>1 DEF Asked, Has
  <2>5. CallInv' /\ DialInv'
    BY <1>1, <1>2, <2>1, <2>4 DEF RtspInv, CallInv, DialInv
  <2>6. SetupInv'
    <3> SUFFICES ASSUME ~ failed, NEW k \in R!Tracks
                 PROVE  channel[k] = k /\ caller = "busy" /\ Has(Tail(plan), k)
      BY <1>1, <2>1 DEF SetupInv
    <3>1. Has(plan, "dial")
      <4>1. plan[1] = "dial" /\ 1 \in 1 .. Len(plan)
        BY <1>2, <2>1, EmptySeq, HeadTailProperties, LenProperties, TailShape
        DEF RtspInv, RtspTypeOK, Shape
      <4> QED
        BY <4>1 DEF Has
    <3> QED
      BY <1>2, <1>3, <2>1, <3>1 DEF RtspInv, SetupInv
  <2>7. AnswerInv'
    BY <1>2, <2>1, <2>2 DEF AnswerInv, NoMedia
  <2> QED
    BY <2>3, <2>5, <2>6, <2>7 DEF RtspInv
<1>6. CASE R!Write
  <2> DEFINE m == Head(plan)
  <2>1. /\ plan # <<>> /\ m \in {"describe"} \cup medias /\ ~ wrote
        /\ wrote' = TRUE /\ setup' = setup \cup ({m} \cap R!Media) /\ UNCHANGED <<open, plan>>
        /\ wire' = Append(wire, m) \/ wire' = wire
    BY <1>6 DEF R!Write, R!Asks, R!Send
  <2>2. m \in Requests /\ m \notin {"close", "dial"} /\ medias \subseteq R!Media
    BY <2>1, RtspAssumption DEF Requests, RtspInv, RtspTypeOK, R!Media
  <2>3. ~ Has(plan, "dial")
    BY <2>1, <2>2, TailShape DEF Asked, RtspInv, RtspTypeOK
  <2>4. /\ wire' \in Seq(Requests)
        /\ NoMedia(wire) => OneMedia(wire', m)
    <3>1. wire \in Seq(Requests)
      BY DEF RtspInv, RtspTypeOK
    <3>2. NoMedia(wire) => OneMedia(wire, m)
      BY DEF NoMedia, OneMedia
    <3> QED
      BY <2>1, <2>2, <3>1, <3>2, AppendWire
  <2>5. RtspTypeOK' /\ CallInv' /\ DialInv'
    BY <1>1, <2>1, <2>2, <2>4 DEF RtspInv, RtspTypeOK, CallInv, DialInv
  <2>6. SetupInv'
    BY <1>1, <2>1 DEF RtspInv, SetupInv
  <2>7. AnswerInv'
    BY <1>1, <2>1, <2>3, <2>4 DEF RtspInv, AnswerInv
  <2> QED
    BY <2>5, <2>6, <2>7 DEF RtspInv
<1> QED
  BY <1>4, <1>5, <1>6

(* What comes of an answer, or of none. *)
LEMMA ReadSteps ==
  ASSUME RtspInv,
         \/ R!DialFails \/ R!WrongMedia \/ R!ReadOK \/ R!ReadForeign \/ R!ReadUnauthorized
         \/ R!ReadMoved \/ R!ReadRefused \/ R!ReadTimeout
  PROVE  RtspInv'
<1>1. wire \in Seq(Requests) /\ medias \subseteq R!Media
  BY DEF RtspInv, RtspTypeOK
<1>2. R!Answered => plan # <<>> /\ wrote /\ wire # <<>> /\ wire' = Tail(wire) /\ wire' \in Seq(Requests)
  BY <1>1, TailWire DEF R!Answered, R!Asks
<1>3. CASE R!DialFails \/ R!WrongMedia
  <2>1. /\ plan # <<>> /\ (R!Fail \/ R!DoFails)
        /\ UNCHANGED <<wire, open, setup, medias, receivers, senders, channel>>
    BY <1>3 DEF R!DialFails, R!WrongMedia, R!Step, R!Asks, R!tcp, R!added
  <2> QED
    BY <1>1, <2>1, FailStep, DoFailsStep
<1>4. CASE R!ReadForeign
  <2>1. R!Answered /\ R!Fail /\ UNCHANGED <<open, setup, medias, receivers, senders, channel>>
    BY <1>4 DEF R!ReadForeign, R!added
  <2> QED
    BY <1>1, <1>2, <2>1, FailStep
<1>5. CASE R!ReadRefused
  <2>1. R!Answered /\ R!DoFails /\ UNCHANGED <<open, setup, medias, receivers, senders, channel>>
    BY <1>5 DEF R!ReadRefused, R!Own, R!added
  <2> QED
    BY <1>2, <2>1, DoFailsStep
<1>6. CASE R!ReadTimeout
  <2>1. /\ plan # <<>> /\ R!DoFails
        /\ UNCHANGED <<wire, open, setup, medias, receivers, senders, channel>>
    BY <1>6 DEF R!ReadTimeout, R!Asks, R!tcp, R!added
  <2> QED
    BY <1>1, <2>1, DoFailsStep
<1>7. CASE R!ReadOK
  <2>1. /\ R!Answered /\ (Head(plan) \in R!Media => Head(wire) \in R!Media) /\ R!Done(Head(wire))
        /\ UNCHANGED <<open, setup, backchannel, failed>>
    BY <1>7 DEF R!ReadOK
  <2>2. medias' \subseteq R!Media
    BY <1>1, <1>7 DEF R!ReadOK, R!Describe, R!Sdp, R!Media
  <2> QED
    BY <1>2, <2>1, <2>2, DoneStep
<1>8. CASE R!ReadUnauthorized \/ R!ReadMoved
  <2>1. /\ R!Own /\ wrote' = FALSE
        /\ plan' = plan \/ (R!Step("describe") /\ plan' = <<"close", "dial">> \o plan)
        /\ UNCHANGED <<open, setup, backchannel, medias, receivers, senders, channel, caller, failed>>
        /\ R!Tracks' = R!Tracks /\ (R!Media)' = R!Media
    BY <1>8 DEF R!ReadUnauthorized, R!ReadMoved, R!conf, R!added, R!Tracks
  <2>2. R!Answered /\ Head(wire) = Head(plan)
    BY <2>1 DEF R!Own
  <2>3. /\ Head(plan) \in {"describe"} \cup R!Media /\ Head(plan) \notin {"close", "dial"}
        /\ Asked(plan)
    <3>1. Head(plan) \in {"describe"} \cup R!Media
      BY <2>2 DEF R!Answered, R!Asks
    <3>2. Head(plan) \notin {"close", "dial"}
      BY <3>1, RtspAssumption DEF R!Media
    <3> QED
      BY <1>2, <2>2, <3>1, <3>2, TailShape DEF RtspInv, RtspTypeOK
  <2>4. ~ failed => NoMedia(wire')
    <3> SUFFICES ASSUME ~ failed PROVE NoMedia(Tail(wire))
      BY <1>2, <2>2
    <3>1. OneMedia(wire, Head(plan))
      BY <1>2, <2>2, <2>3 DEF RtspInv, AnswerInv, Asked
    <3>2. CASE Head(wire) \in R!Media
      BY <1>1, <1>2, <2>2, <3>1, <3>2, TailWire
    <3>3. CASE Head(wire) \notin R!Media
      BY <1>1, <1>2, <2>2, <3>1, <3>3, TailWire DEF OneMedia, NoMedia
    <3> QED
      BY <3>2, <3>3
  <2>5. CASE plan' = plan
    <3>1. RtspTypeOK' /\ CallInv' /\ DialInv' /\ SetupInv'
      BY <1>2, <2>1, <2>2, <2>5 DEF RtspInv, RtspTypeOK, CallInv, DialInv, SetupInv
    <3>2. AnswerInv'
      BY <2>1, <2>4 DEF AnswerInv
    <3> QED
      BY <3>1, <3>2 DEF RtspInv
  <2>6. CASE plan' # plan /\ R!Step("describe") /\ plan' = <<"close", "dial">> \o plan
    <3>1. /\ Shape(plan') /\ plan' # <<>> /\ Head(plan') = "close" /\ Has(plan', "dial")
          /\ plan'[Len(plan')] = plan[Len(plan)]
      <4>1. /\ <<"close", "dial">> \in Seq(Steps) /\ Len(<<"close", "dial">>) = 2
            /\ <<"close", "dial">>[1] = "close" /\ <<"close", "dial">>[2] = "dial"
        BY DEF Steps
      <4> DEFINE p == <<"close", "dial">>
      <4>2. /\ p \in Seq(Steps) /\ Len(p) >= 2 /\ p[1] = "close" /\ p[2] = "dial" /\ ~ (Len(p) > 2)
            /\ \A i \in 3 .. Len(p) : p[i] \notin {"close", "dial"}
            /\ \A i \in 4 .. Len(p) : p[i] # "describe"
        BY <4>1
      <4>3. plan' = p \o plan
        BY <2>6
      <4> HIDE DEF p
      <4> QED
        BY <1>2, <2>2, <2>3, <4>2, <4>3, InFront
    <3>2. \A x : Has(plan, x) => Has(plan', x)
      <4>1. /\ <<"close", "dial">> \in Seq(Steps) /\ Len(<<"close", "dial">>) = 2
            /\ plan \in Seq(Steps)
        BY DEF Steps, RtspInv, RtspTypeOK, Shape
      <4>2. /\ Len(plan) \in Nat /\ Len(plan') = 2 + Len(plan)
            /\ \A i \in 1 .. 2 + Len(plan) : plan'[i] =
                 IF i <= 2 THEN <<"close", "dial">>[i] ELSE plan[i - 2]
        BY <2>6, <4>1, ConcatProperties, LenProperties
      <4> SUFFICES ASSUME NEW i \in 1 .. Len(plan) PROVE Has(plan', plan[i])
        BY DEF Has
      <4>3. i + 2 \in 1 .. 2 + Len(plan) /\ ~ (i + 2 <= 2) /\ i + 2 - 2 = i
        BY <4>2
      <4>4. plan'[i + 2] = plan[i]
        BY <4>2, <4>3
      <4> QED
        BY <4>2, <4>3, <4>4 DEF Has
    <3>3. RtspTypeOK' /\ CallInv' /\ DialInv'
      BY <1>2, <2>1, <2>2, <3>1 DEF RtspInv, RtspTypeOK, CallInv, DialInv
    <3>4. SetupInv'
      <4> SUFFICES ASSUME ~ failed, NEW k \in R!Tracks
                   PROVE  channel[k] = k /\ caller = "busy" /\ Has(plan', k)
        BY <2>1 DEF SetupInv
      <4>1. Has(plan, "describe")
        <5>1. plan # <<>> => plan[1] = Head(plan) /\ 1 \in 1 .. Len(plan)
          BY EmptySeq, HeadTailProperties, LenProperties DEF RtspInv, RtspTypeOK, Shape
        <5> QED
          BY <2>6, <5>1 DEF R!Step, Has
      <4> QED
        BY <3>2, <4>1 DEF RtspInv, SetupInv
    <3>5. AnswerInv'
      BY <3>1 DEF AnswerInv
    <3> QED
      BY <3>3, <3>4, <3>5 DEF RtspInv
  <2> QED
    BY <2>1, <2>5, <2>6
<1> QED
  BY <1>3, <1>4, <1>5, <1>6, <1>7, <1>8

(* A track that is added while the session plays is set up behind all the  *)
(* others on a new connection; before that, on the one there is.           *)
LEMMA CallSteps ==
  ASSUME RtspInv,
         R!Open \/ R!Stop \/ R!Close \/ \E m \in R!Media : R!AddMedia(m)
  PROVE  RtspInv'
<1>1. /\ UNCHANGED <<wire, setup, backchannel, medias, receivers, senders, channel, wrote, failed>>
      /\ R!Tracks' = R!Tracks /\ (R!Media)' = R!Media
  BY DEF R!Open, R!Stop, R!Close, R!AddMedia, R!conf, R!added, R!tcp, R!Tracks
<1>2. /\ plan # <<>> => caller \in {"opening", "busy"}
      /\ wrote => plan # <<>>
      /\ caller # "busy" /\ ~ failed =>
           \A m \in R!Tracks : m \in setup /\ channel[m] = m /\ ~ Has(plan, "dial") /\ ~ Has(plan, "describe")
  BY DEF RtspInv, CallInv, SetupInv
<1>3. CASE R!Open
  <2>1. /\ caller = "new" /\ caller' = "opening" /\ plan' = <<"dial", "describe">>
        /\ UNCHANGED open
    BY <1>3 DEF R!Open, R!Redial, R!tcp
  <2>2. <<"dial", "describe">> \in Seq(Steps)
    BY DEF Steps
  <2>3. Shape(plan') /\ Has(plan', "dial")
    BY <2>1, <2>2 DEF Shape, Has
  <2>4. plan = <<>> /\ wrote = FALSE /\ open = FALSE /\ R!Tracks = {}
    BY <1>2, <2>1 DEF RtspInv, RtspTypeOK, CallInv, DialInv
  <2>5. RtspTypeOK'
    BY <1>1, <2>1, <2>3 DEF RtspInv, RtspTypeOK
  <2>6. CallInv' /\ DialInv'
    BY <1>1, <2>1, <2>4 DEF CallInv, DialInv
  <2>7. SetupInv' /\ AnswerInv'
    BY <1>1, <2>3, <2>4 DEF SetupInv, AnswerInv
  <2> QED
    BY <2>5, <2>6, <2>7 DEF RtspInv
<1>4. CASE R!Stop \/ R!Close
  <2>1. /\ caller \in {"ready", "stopping"} /\ caller' \in {"stopping", "stopped"} /\ UNCHANGED plan
        /\ open' \in {open, FALSE} /\ (caller' = "stopped" => open' = FALSE)
    BY <1>4 DEF R!Stop, R!Close, R!tcp
  <2>2. RtspTypeOK' /\ CallInv' /\ DialInv'
    BY <1>1, <2>1 DEF RtspInv, RtspTypeOK, CallInv, DialInv
  <2>3. SetupInv' /\ AnswerInv'
    BY <1>1, <1>2, <2>1 DEF RtspInv, SetupInv, AnswerInv
  <2> QED
    BY <2>2, <2>3 DEF RtspInv
<1>5. ASSUME NEW m \in R!Media, R!AddMedia(m) PROVE RtspInv'
  <2>1. /\ caller = "ready" /\ caller' = "busy" /\ UNCHANGED open
        /\ plan' = (IF state = "PLAY" THEN R!Reconnect ELSE <<>>) \o <<m>>
    BY <1>5 DEF R!AddMedia, R!tcp
  <2>2. /\ plan = <<>> /\ wrote = FALSE
        /\ ~ failed => NoMedia(wire)
    BY <1>2, <2>1, EmptySeq DEF RtspInv, RtspTypeOK, CallInv, AnswerInv, Has
  <2>3. /\ Asked(<<m>>) /\ Len(<<m>>) = 1 /\ <<m>>[1] = m /\ <<m>> # <<>>
        /\ Head(<<m>>) = m /\ m \notin {"close", "dial", "describe"}
    <3>1. m \in Steps /\ m \notin {"close", "dial", "describe"}
      BY RtspAssumption DEF Steps, R!Media
    <3>2. <<m>> \in Seq(Steps)
      BY <3>1
    <3> QED
      BY <3>1, <3>2 DEF Asked, Has
  <2>4. CASE state = "PLAY"
    <3>1. plan' = R!Reconnect \o <<m>>
      BY <2>1, <2>4
    <3>2. RtspTypeOK
      BY DEF RtspInv
    <3>3. /\ Shape(plan') /\ plan' # <<>> /\ Head(plan') = "close" /\ Has(plan', "dial")
          /\ \A k \in R!Tracks : Has(plan', k)
          /\ plan'[Len(plan')] = m
      BY <2>3, <3>1, <3>2, Reconnects, InFront
    <3>4. RtspTypeOK'
      BY <1>1, <2>1, <3>3 DEF RtspInv, RtspTypeOK
    <3>5. CallInv' /\ DialInv'
      BY <1>1, <2>1, <2>2, <3>3 DEF CallInv, DialInv
    <3>6. SetupInv' /\ AnswerInv'
      BY <1>1, <1>2, <2>1, <3>3 DEF SetupInv, AnswerInv
    <3> QED
      BY <3>4, <3>5, <3>6 DEF RtspInv
  <2>5. CASE state # "PLAY"
    <3>1. plan' = <<m>>
      BY <2>1, <2>5, <2>3, ConcatEmptySeq DEF Asked
    <3>2. Shape(plan') /\ ~ Has(plan', "dial") /\ ~ Has(plan', "describe")
      BY <2>3, <3>1 DEF Shape, Asked, Has
    <3>3. RtspTypeOK'
      BY <1>1, <2>1, <3>2 DEF RtspInv, RtspTypeOK
    <3>4. CallInv' /\ DialInv'
      BY <1>1, <2>1, <2>2, <2>3, <3>1 DEF CallInv, DialInv
    <3>5. SetupInv' /\ AnswerInv'
      BY <1>1, <1>2, <2>1, <2>2, <3>2 DEF SetupInv, AnswerInv
    <3> QED
      BY <3>3, <3>4, <3>5 DEF RtspInv
  <2> QED
    BY <2>4, <2>5
<1> QED
  BY <1>3, <1>4, <1>5

(* Caller, Start, keepalive and network keep the invariant. *)
LEMMA RtspStep == RtspInv /\ [R!Next]_clientVars => RtspInv'
<1> SUFFICES ASSUME RtspInv, [R!Next]_clientVars PROVE RtspInv'
  OBVIOUS
<1>1. CASE R!CloseStep \/ R!DialStep \/ R!Write
  BY <1>1, WriteSteps
<1>2. CASE \/ R!DialFails \/ R!WrongMedia \/ R!ReadOK \/ R!ReadForeign \/ R!ReadUnauthorized
           \/ R!ReadMoved \/ R!ReadRefused \/ R!ReadTimeout
  BY <1>2, ReadSteps
<1>3. CASE R!Open \/ R!Stop \/ R!Close \/ \E m \in R!Media : R!AddMedia(m)
  BY <1>3, CallSteps
<1>4. CASE \/ R!Play \/ R!Return \/ R!Loop \/ R!Handle \/ R!HandleFails \/ R!Go \/ R!Keepalive
           \/ R!Drop \/ UNCHANGED clientVars
  <2>1. /\ UNCHANGED <<open, setup, backchannel, medias, receivers, senders, channel, caller, plan,
                       wrote, failed>>
        /\ \/ UNCHANGED wire
           \/ wire' = <<>>
           \/ wire # <<>> /\ wire' = Tail(wire)
           \/ \E x \in {"play", "options"} : wire' = Append(wire, x)
    BY <1>4 DEF R!Play, R!Return, R!Loop, R!Handle, R!HandleFails, R!Go, R!Keepalive, R!Drop,
                R!Send, R!tcp, R!conf, R!added, R!call, R!loop, clientVars
  <2> QED
    BY <2>1, QuietStep
<1> QED
  BY <1>1, <1>2, <1>3, <1>4 DEF R!Next, R!Call, R!Switch, R!Reading

(* Of every step the invariant holds before and after. *)
LEMMA RtspSafe == SourcesSpec => []RtspInv
  BY RtspInit, RtspStep, RtspMoves, PTL DEF RtspMove

(* Through redirects, reconnects and second tries a connection is closed   *)
(* before the next is dialled, but for the second try of rtspHandler, and  *)
(* the last one is closed when the Conn is stopped (pkg/rtsp/client.go,    *)
(* producer.go).                                                           *)
THEOREM OneConnectionSafe == SourcesSpec => OneConnection
<1> DEFINE Once == /\ R!DialStep /\ open => caller = "opening" /\ ~ backchannel
                   /\ caller' = "stopped" => ~ open'
<1>1. RtspInv /\ RtspInv' => Once
  BY DEF RtspInv, DialInv, R!DialStep, R!Step
<1>2. RtspInv /\ RtspInv' => [Once]_(R!vars)
  BY <1>1
<1> QED
  BY <1>2, RtspSafe, PTL DEF OneConnection, R!OneConnection

(* PLAY is written only on a connection on which every track was set up,   *)
(* with the channel that the answer to its own SETUP gave, whatever was    *)
(* refused, late or lost, unless a call has failed before                  *)
(* (pkg/rtsp/producer.go, Reconnect and GetTrack).                         *)
THEOREM PlaysAllTracksSafe == SourcesSpec => PlaysAllTracks
<1> DEFINE Plays == R!Play /\ ~ failed => R!Whole
<1>1. RtspInv => Plays
  BY DEF RtspInv, SetupInv, R!Play, R!Unlocked, R!Whole
<1>2. RtspInv => [Plays]_(R!vars)
  BY <1>1
<1> QED
  BY <1>2, RtspSafe, PTL DEF PlaysAllTracks, R!PlaysAllTracks
-----------------------------------------------------------------------------
(* HomeKit *)

(* What the run does to HomeKit. *)
HomeKitMove == K!Init /\ [][K!Next]_hkVars

(* The run's other parts leave the HomeKit camera alone. *)
LEMMA HomeKitMoves == SourcesSpec => HomeKitMove
<1>1. SourcesInit => K!Init
  BY DEF SourcesInit
<1>2. [SourcesNext]_<<part, clientVars, vars, tuyaVars, ringVars, webrtcVars, hkVars>>
        => [K!Next]_hkVars
  BY DEF SourcesNext, hkVars
<1> QED
  BY <1>1, <1>2, SourcesMove, PTL DEF HomeKitMove

(* Who has put a Consumer into s.conns: controllers about to add it to the *)
(* stream, goroutines that hold it there, and those that have taken it out *)
(* of the stream and not yet of s.conns.                                   *)
Adding(k) == {p \in Phones : kAt[p] = "add" /\ want[p] = k}
Holding(k) == {i \in 1 .. MaxStarts : run[k][i] \in {"wait", "remove"}}
Letting(k) == {i \in 1 .. MaxStarts : run[k][i] = "conn"}

KTypeOK ==
  /\ kAt \in [Phones -> {"off", "idle", "conn", "add", "walk", "close"}]
  /\ consumer \in Consumers \cup {None}
  /\ want \in [Phones -> Consumers \cup {None}]
  /\ conns \in [Consumers -> Int] /\ playedBy \in [Consumers -> Int]
  /\ run \in [Consumers -> [1 .. MaxStarts -> {"none", "wait", "remove", "conn"}]]
  /\ \A p \in Phones : kAt[p] \in {"conn", "add"} => want[p] \in Consumers

CountsOf(k) ==
  /\ IsFiniteSet(Adding(k)) /\ IsFiniteSet(Holding(k)) /\ IsFiniteSet(Letting(k))
  /\ playedBy[k] = Cardinality(Holding(k))
  /\ playedBy[k] + Cardinality(Letting(k)) + Cardinality(Adding(k)) <= conns[k]

HomeKitInv == KTypeOK /\ \A k \in Consumers : CountsOf(k)

(* Nobody has put a Consumer anywhere. *)
LEMMA HomeKitInit == K!Init => HomeKitInv
<1> SUFFICES ASSUME K!Init PROVE HomeKitInv
  OBVIOUS
<1>1. KTypeOK
  BY DEF K!Init, KTypeOK
<1>2. ASSUME NEW k \in Consumers PROVE CountsOf(k)
  <2>1. Adding(k) = {} /\ Holding(k) = {} /\ Letting(k) = {}
    BY DEF K!Init, Adding, Holding, Letting
  <2>2. playedBy[k] = 0 /\ conns[k] = 0
    BY DEF K!Init
  <2> QED
    BY <2>1, <2>2, FS_EmptySet DEF CountsOf
<1> QED
  BY <1>1, <1>2 DEF HomeKitInv

(* What nobody moves is still counted. *)
LEMMA StillCounted ==
  ASSUME NEW k, CountsOf(k), UNCHANGED <<Adding(k), Holding(k), Letting(k)>>,
         playedBy'[k] = playedBy[k], conns'[k] = conns[k]
  PROVE  CountsOf(k)'
  BY DEF CountsOf

(* A step that puts nothing in and takes nothing out: whoever adds a       *)
(* Consumer goes on adding it.                                             *)
LEMMA HomeKitQuiet ==
  ASSUME HomeKitInv, KTypeOK', UNCHANGED <<conns, playedBy>>,
         \A p \in Phones : (kAt'[p] = "add" <=> kAt[p] = "add")
                            /\ (kAt[p] = "add" => want'[p] = want[p]),
         \A k \in Consumers, i \in 1 .. MaxStarts :
           /\ run'[k][i] \in {"wait", "remove"} <=> run[k][i] \in {"wait", "remove"}
           /\ run'[k][i] = "conn" <=> run[k][i] = "conn"
  PROVE  HomeKitInv'
<1>1. ASSUME NEW k \in Consumers PROVE CountsOf(k)'
  <2>1. Adding(k)' = Adding(k) /\ Holding(k)' = Holding(k) /\ Letting(k)' = Letting(k)
    BY DEF Adding, Holding, Letting
  <2> QED
    BY <2>1, StillCounted DEF HomeKitInv
<1> QED
  BY <1>1 DEF HomeKitInv

(* AddConn: the controller has put its Consumer into s.conns. *)
LEMMA AddConnStep ==
  ASSUME HomeKitInv, NEW p \in Phones, K!AddConn(p) PROVE HomeKitInv'
<1> DEFINE m == want[p]
<1>1. m \in Consumers /\ KTypeOK'
  BY DEF HomeKitInv, KTypeOK, K!AddConn, K!Goto
<1>2. ASSUME NEW k \in Consumers PROVE CountsOf(k)'
  <2>1. UNCHANGED <<Holding(k), Letting(k)>> /\ playedBy'[k] = playedBy[k]
    BY DEF K!AddConn, Holding, Letting
  <2>2. CASE k = m
    <3>1. Adding(k)' = Adding(k) \cup {p} /\ p \notin Adding(k)
      BY <2>2 DEF HomeKitInv, KTypeOK, K!AddConn, K!Goto, Adding
    <3>2. conns'[k] = conns[k] + 1
      BY <2>2 DEF HomeKitInv, KTypeOK, K!AddConn
    <3>3. IsFiniteSet(Adding(k)') /\ Cardinality(Adding(k)') = Cardinality(Adding(k)) + 1
      BY <3>1, FS_AddElement DEF HomeKitInv, CountsOf
    <3>4. /\ Cardinality(Adding(k)) \in Nat /\ Cardinality(Holding(k)) \in Nat
          /\ Cardinality(Letting(k)) \in Nat /\ conns[k] \in Int
      BY FS_CardinalityType DEF HomeKitInv, CountsOf, KTypeOK
    <3> QED
      BY <2>1, <3>2, <3>3, <3>4 DEF HomeKitInv, CountsOf
  <2>3. CASE k # m
    <3>1. Adding(k)' = Adding(k) /\ conns'[k] = conns[k]
      BY <2>3 DEF HomeKitInv, KTypeOK, K!AddConn, K!Goto, Adding
    <3> QED
      BY <2>1, <3>1, StillCounted DEF HomeKitInv
  <2> QED
    BY <2>2, <2>3
<1> QED
  BY <1>1, <1>2 DEF HomeKitInv

(* AddConsumer: it is in the stream, with the goroutine that will take it  *)
(* out, or it stays in s.conns alone.                                      *)
LEMMA AddConsumerStep ==
  ASSUME HomeKitInv, NEW p \in Phones, K!AddConsumer(p) PROVE HomeKitInv'
<1> DEFINE m == want[p]
           Adds(i) == /\ run[m][i] = "none" /\ run' = [run EXCEPT ![m][i] = "wait"]
                      /\ playedBy' = [playedBy EXCEPT ![m] = @ + 1]
<1>1. /\ m \in Consumers /\ kAt[p] = "add" /\ kAt' = [kAt EXCEPT ![p] = "idle"]
      /\ UNCHANGED <<consumer, want, conns>>
      /\ (\E i \in 1 .. MaxStarts : Adds(i)) \/ UNCHANGED <<playedBy, run>>
  BY DEF HomeKitInv, KTypeOK, K!AddConsumer, K!Goto
<1>2. KTypeOK'
  <2>1. ASSUME NEW i \in 1 .. MaxStarts, Adds(i)
        PROVE  /\ run' \in [Consumers -> [1 .. MaxStarts -> {"none", "wait", "remove", "conn"}]]
               /\ playedBy' \in [Consumers -> Int]
    <3>1. run' \in [Consumers -> [1 .. MaxStarts -> {"none", "wait", "remove", "conn"}]]
      BY <2>1 DEF HomeKitInv, KTypeOK
    <3>2. playedBy' \in [Consumers -> Int]
      <4>1. playedBy \in [Consumers -> Int]
        BY DEF HomeKitInv, KTypeOK
      <4>2. playedBy' = [playedBy EXCEPT ![m] = playedBy[m] + 1]
        BY <2>1
      <4> QED
        BY <1>1, <4>1, <4>2
    <3> QED
      BY <3>1, <3>2
  <2>2. /\ run' \in [Consumers -> [1 .. MaxStarts -> {"none", "wait", "remove", "conn"}]]
        /\ playedBy' \in [Consumers -> Int]
    <3>1. CASE UNCHANGED <<playedBy, run>>
      BY <3>1 DEF HomeKitInv, KTypeOK
    <3> QED
      BY <1>1, <2>1, <3>1
  <2>3. kAt' \in [Phones -> {"off", "idle", "conn", "add", "walk", "close"}]
        /\ \A q \in Phones : kAt'[q] \in {"conn", "add"} => want[q] \in Consumers
    BY <1>1 DEF HomeKitInv, KTypeOK
  <2> QED
    BY <1>1, <2>2, <2>3 DEF HomeKitInv, KTypeOK
<1>3. ASSUME NEW k \in Consumers PROVE CountsOf(k)'
  <2>1. CASE k # m
    <3>1. UNCHANGED <<Adding(k), Holding(k), Letting(k)>>
      BY <1>1, <2>1 DEF HomeKitInv, KTypeOK, Adding, Holding, Letting
    <3>2. playedBy'[k] = playedBy[k] /\ conns'[k] = conns[k]
      BY <1>1, <2>1 DEF HomeKitInv, KTypeOK
    <3> QED
      BY <3>1, <3>2, StillCounted DEF HomeKitInv
  <2>2. CASE k = m
    <3>1. Adding(k)' = Adding(k) \ {p} /\ p \in Adding(k)
      BY <1>1, <2>2 DEF HomeKitInv, KTypeOK, Adding
    <3>2. IsFiniteSet(Adding(k)') /\ Cardinality(Adding(k)') = Cardinality(Adding(k)) - 1
      BY <3>1, FS_RemoveElement DEF HomeKitInv, CountsOf
    <3>3. /\ Cardinality(Adding(k)) \in Nat /\ Cardinality(Holding(k)) \in Nat
          /\ Cardinality(Letting(k)) \in Nat /\ conns[k] \in Int
      BY FS_CardinalityType DEF HomeKitInv, CountsOf, KTypeOK
    <3>4. Letting(k)' = Letting(k)
      <4>1. ASSUME NEW i \in 1 .. MaxStarts, Adds(i) PROVE Letting(k)' = Letting(k)
        BY <2>2, <4>1 DEF HomeKitInv, KTypeOK, Letting
      <4>2. CASE UNCHANGED <<playedBy, run>>
        BY <4>2 DEF Letting
      <4> QED
        BY <1>1, <4>1, <4>2
    <3>5. CASE UNCHANGED <<playedBy, run>>
      <4>1. Holding(k)' = Holding(k)
        BY <3>5 DEF Holding
      <4> QED
        BY <1>1, <3>2, <3>3, <3>4, <3>5, <4>1 DEF HomeKitInv, CountsOf
    <3>6. ASSUME NEW i \in 1 .. MaxStarts, Adds(i) PROVE CountsOf(k)'
      <4>1. Holding(k)' = Holding(k) \cup {i} /\ i \notin Holding(k)
        BY <2>2, <3>6 DEF HomeKitInv, KTypeOK, Holding
      <4>2. /\ IsFiniteSet(Holding(k)')
            /\ Cardinality(Holding(k)') = Cardinality(Holding(k)) + 1
        BY <4>1, FS_AddElement DEF HomeKitInv, CountsOf
      <4>3. playedBy'[k] = playedBy[k] + 1
        BY <2>2, <3>6 DEF HomeKitInv, KTypeOK
      <4> QED
        BY <1>1, <3>2, <3>3, <3>4, <4>2, <4>3 DEF HomeKitInv, CountsOf
    <3> QED
      BY <1>1, <3>5, <3>6
  <2> QED
    BY <2>1, <2>2
<1> QED
  BY <1>2, <1>3 DEF HomeKitInv

(* RemoveConsumer: a goroutine that held the Consumer in the stream takes  *)
(* it out.                                                                 *)
LEMMA RemoveConsumerStep ==
  ASSUME HomeKitInv, NEW m \in Consumers, NEW i \in 1 .. MaxStarts, K!RemoveConsumer(m, i)
  PROVE  HomeKitInv'
<1>1. /\ run[m][i] = "remove" /\ run' = [run EXCEPT ![m][i] = "conn"]
      /\ playedBy' = [playedBy EXCEPT ![m] = @ - 1]
      /\ UNCHANGED <<kAt, want, consumer, conns>>
  BY DEF K!RemoveConsumer, K!Step
<1>2. KTypeOK'
  BY <1>1 DEF HomeKitInv, KTypeOK
<1>3. ASSUME NEW k \in Consumers PROVE CountsOf(k)'
  <2>1. Adding(k)' = Adding(k) /\ conns'[k] = conns[k]
    BY <1>1 DEF Adding
  <2>2. CASE k # m
    <3>1. UNCHANGED <<Holding(k), Letting(k)>> /\ playedBy'[k] = playedBy[k]
      BY <1>1, <2>2 DEF HomeKitInv, KTypeOK, Holding, Letting
    <3> QED
      BY <2>1, <3>1, StillCounted DEF HomeKitInv
  <2>3. CASE k = m
    <3>1. /\ Holding(k)' = Holding(k) \ {i} /\ i \in Holding(k)
          /\ Letting(k)' = Letting(k) \cup {i} /\ i \notin Letting(k)
      BY <1>1, <2>3 DEF HomeKitInv, KTypeOK, Holding, Letting
    <3>2. IsFiniteSet(Holding(k)') /\ Cardinality(Holding(k)') = Cardinality(Holding(k)) - 1
      BY <3>1, FS_RemoveElement DEF HomeKitInv, CountsOf
    <3>3. IsFiniteSet(Letting(k)') /\ Cardinality(Letting(k)') = Cardinality(Letting(k)) + 1
      BY <3>1, FS_AddElement DEF HomeKitInv, CountsOf
    <3>4. playedBy'[k] = playedBy[k] - 1
      BY <1>1, <2>3 DEF HomeKitInv, KTypeOK
    <3>5. /\ Cardinality(Adding(k)) \in Nat /\ Cardinality(Holding(k)) \in Nat
          /\ Cardinality(Letting(k)) \in Nat /\ conns[k] \in Int
      BY FS_CardinalityType DEF HomeKitInv, CountsOf, KTypeOK
    <3> QED
      BY <2>1, <3>2, <3>3, <3>4, <3>5 DEF HomeKitInv, CountsOf
  <2> QED
    BY <2>2, <2>3
<1> QED
  BY <1>2, <1>3 DEF HomeKitInv

(* DelConn: and then out of s.conns. *)
LEMMA DelConnStep ==
  ASSUME HomeKitInv, NEW m \in Consumers, NEW i \in 1 .. MaxStarts, K!DelConn(m, i)
  PROVE  HomeKitInv'
<1>1. /\ run[m][i] = "conn" /\ run' = [run EXCEPT ![m][i] = "none"]
      /\ conns' = [conns EXCEPT ![m] = @ - 1]
      /\ UNCHANGED <<kAt, want, consumer, playedBy>>
  BY DEF K!DelConn, K!Step
<1>2. KTypeOK'
  BY <1>1 DEF HomeKitInv, KTypeOK
<1>3. ASSUME NEW k \in Consumers PROVE CountsOf(k)'
  <2>1. Adding(k)' = Adding(k) /\ Holding(k)' = Holding(k) /\ playedBy'[k] = playedBy[k]
    BY <1>1 DEF HomeKitInv, KTypeOK, Adding, Holding
  <2>2. CASE k # m
    <3>1. Letting(k)' = Letting(k) /\ conns'[k] = conns[k]
      BY <1>1, <2>2 DEF HomeKitInv, KTypeOK, Letting
    <3> QED
      BY <2>1, <3>1, StillCounted DEF HomeKitInv
  <2>3. CASE k = m
    <3>1. Letting(k)' = Letting(k) \ {i} /\ i \in Letting(k)
      BY <1>1, <2>3 DEF HomeKitInv, KTypeOK, Letting
    <3>2. IsFiniteSet(Letting(k)') /\ Cardinality(Letting(k)') = Cardinality(Letting(k)) - 1
      BY <3>1, FS_RemoveElement DEF HomeKitInv, CountsOf
    <3>3. conns'[k] = conns[k] - 1
      BY <1>1, <2>3 DEF HomeKitInv, KTypeOK
    <3>4. /\ Cardinality(Adding(k)) \in Nat /\ Cardinality(Holding(k)) \in Nat
          /\ Cardinality(Letting(k)) \in Nat /\ conns[k] \in Int
      BY FS_CardinalityType DEF HomeKitInv, CountsOf, KTypeOK
    <3> QED
      BY <2>1, <3>2, <3>3, <3>4 DEF HomeKitInv, CountsOf
  <2> QED
    BY <2>2, <2>3
<1> QED
  BY <1>2, <1>3 DEF HomeKitInv

(* Four actions move what is counted, the others are quiet. *)
LEMMA HomeKitStep == HomeKitInv /\ [K!Next]_hkVars => HomeKitInv'
<1> SUFFICES ASSUME HomeKitInv, [K!Next]_hkVars PROVE HomeKitInv'
  OBVIOUS
<1>1. ASSUME NEW p \in Phones, K!Connect(p) PROVE HomeKitInv'
  BY <1>1, HomeKitQuiet DEF HomeKitInv, KTypeOK, K!Connect, K!Goto
<1>2. ASSUME NEW p \in Phones, K!Disconnect(p) PROVE HomeKitInv'
  BY <1>2, HomeKitQuiet DEF HomeKitInv, KTypeOK, K!Disconnect
<1>3. ASSUME NEW p \in Phones, K!Leave(p) PROVE HomeKitInv'
  BY <1>3, HomeKitQuiet DEF HomeKitInv, KTypeOK, K!Leave, K!Goto, K!Moved
<1>4. ASSUME NEW p \in Phones, K!SetupEndpoints(p) PROVE HomeKitInv'
  BY <1>4, HomeKitQuiet DEF HomeKitInv, KTypeOK, K!SetupEndpoints, K!Asks
<1>5. ASSUME NEW p \in Phones, K!SetConfig(p) PROVE HomeKitInv'
  <2>1. /\ kAt[p] = "idle" /\ kAt' = [kAt EXCEPT ![p] = "conn"] /\ want[p] # None
        /\ UNCHANGED <<want, consumer, conns, playedBy, run>>
    BY <1>5, Zenon DEF K!SetConfig, K!Asks, K!Goto
  <2>2. KTypeOK'
    BY <2>1 DEF HomeKitInv, KTypeOK
  <2>3. \A q \in Phones : kAt'[q] = "add" <=> kAt[q] = "add"
    BY <2>1 DEF HomeKitInv, KTypeOK
  <2> QED
    BY <2>1, <2>2, <2>3, HomeKitQuiet
<1>6. ASSUME NEW p \in Phones, K!End(p) PROVE HomeKitInv'
  BY <1>6, HomeKitQuiet DEF HomeKitInv, KTypeOK, K!End, K!Asks, K!Goto
<1>7. ASSUME NEW p \in Phones, K!Found(p) PROVE HomeKitInv'
  BY <1>7, HomeKitQuiet DEF HomeKitInv, KTypeOK, K!Found, K!Goto
<1>8. ASSUME NEW p \in Phones, K!NotFound(p) PROVE HomeKitInv'
  BY <1>8, HomeKitQuiet DEF HomeKitInv, KTypeOK, K!NotFound, K!Goto
<1>9. ASSUME NEW p \in Phones, K!StopEnds(p) PROVE HomeKitInv'
  BY <1>9, HomeKitQuiet DEF HomeKitInv, KTypeOK, K!StopEnds, K!Goto
<1>10. ASSUME NEW k \in Consumers, K!Packet(k) \/ K!Drained(k) \/ K!Expire(k)
       PROVE  HomeKitInv'
  BY <1>10, HomeKitQuiet DEF HomeKitInv, KTypeOK, K!Packet, K!Drained, K!Expire
<1>11. ASSUME NEW k \in Consumers, NEW i \in 1 .. MaxStarts, K!WriteTo(k, i)
       PROVE  HomeKitInv'
  BY <1>11, HomeKitQuiet DEF HomeKitInv, KTypeOK, K!WriteTo, K!Step
<1>12. CASE UNCHANGED hkVars
  BY <1>12, HomeKitQuiet DEF HomeKitInv, KTypeOK, hkVars
<1> QED
  BY <1>1, <1>2, <1>3, <1>4, <1>5, <1>6, <1>7, <1>8, <1>9, <1>10, <1>11, <1>12,
     AddConnStep, AddConsumerStep, RemoveConsumerStep, DelConnStep
  DEF K!Next, K!Handles, K!Writes

(* A session that plays is one that an End finds: however controllers set  *)
(* up, start, replace and end sessions, and whatever cannot be added, its  *)
(* Consumer is in s.conns at least as often as it is in the stream, and it *)
(* leaves the stream no more often than it came                            *)
(* (internal/homekit/server.go, AddConn and DelConn).                      *)
THEOREM FindableSafe == SourcesSpec => []K!Findable
<1>1. HomeKitInv => K!Findable
  <2> SUFFICES ASSUME HomeKitInv, NEW k \in Consumers
               PROVE  0 <= playedBy[k] /\ playedBy[k] <= conns[k]
    BY DEF K!Findable
  <2>1. /\ Cardinality(Adding(k)) \in Nat /\ Cardinality(Holding(k)) \in Nat
        /\ Cardinality(Letting(k)) \in Nat /\ conns[k] \in Int
    BY FS_CardinalityType DEF HomeKitInv, CountsOf, KTypeOK
  <2> QED
    BY <2>1 DEF HomeKitInv, CountsOf
<1> QED
  BY <1>1, HomeKitInit, HomeKitStep, HomeKitMoves, PTL DEF HomeKitMove
=============================================================================
