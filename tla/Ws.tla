----------------------------------- MODULE Ws -----------------------------------
(* The WebSocket of the API (internal/api/ws): apiWS reads messages and    *)
(* runs the handler of each in a goroutine of its own; the Transport       *)
(* serialises writes, keeps a context, and runs the OnClose functions when *)
(* the connection ends.  The handlers are those of MSE, MP4 and MJPEG      *)
(* (internal/mp4/ws.go), which add a consumer that OnClose removes, and    *)
(* that of WebRTC (internal/webrtc), which answers an offer.               *)
(*                                                                         *)
(* The browser's ICE candidates come in messages of their own, and their   *)
(* handlers may run before that of the offer is through.  Our candidates   *)
(* come in callbacks of the PeerConnection, which wait for the answer with *)
(* the core.Waiter sendAnswer: module Waiter is instantiated for it.       *)
(*                                                                         *)
(* err is one variable of apiWS and its handlers, without a mutex: each    *)
(* assigns it, tests it and, if a handler, uses it.  A handler that uses a *)
(* nil err ends the process.  Transport's methods run under t.mx or t.wrmx *)
(* and are one action each.  A client sends one offer.                     *)
EXTENDS Naturals, Sequences, FiniteSets, SequencesExt

CONSTANTS
  Players,    (* messages that ask for a consumer                          *)
  Remote,     (* messages with a candidate of the browser                  *)
  Local,      (* candidates of the PeerConnection                          *)
  Offer,      (* the message with the WebRTC offer                         *)
  Sent, Defer,(* its two calls of sendAnswer.Done                          *)
  Nil, NoError, Nobody

VARIABLES
  gone,       (* the client has closed the connection                      *)
  reader,     (* where apiWS is                                            *)
  next,       (* the message it has read, or Nobody                        *)
  err,        (* apiWS's err: nil, of the reader or of a handler           *)
  at,         (* where the handler of each message is                      *)
  result,     (* what it returns                                           *)
  consumers,  (* those of the stream that a Player added                   *)
  closed,     (* t.closed                                                  *)
  onClose,    (* t.onClose: whose consumers it removes                     *)
  waiting,    (* ctx["candidate"]                                          *)
  conn,       (* ctx["webrtc"] is set                                      *)
  given,      (* the candidates given to AddCandidate                      *)
  wire,       (* what has been written to the client                       *)
  local,      (* where the callback of each local candidate is             *)
  crash,      (* the process has ended                                     *)
  aState, aWg, aErr, aMu, aPc, aVal   (* sendAnswer                        *)

loop == <<gone, reader, next, err>>
work == <<at, result, consumers>>
trans == <<closed, onClose, waiting, conn, given>>
answer == <<aState, aWg, aErr, aMu, aPc, aVal>>
vars == <<loop, work, trans, wire, local, crash, answer>>

A == INSTANCE Waiter WITH Threads <- Local \cup {Sent, Defer}, Errors <- {Nil},
       state <- aState, wg <- aWg, err <- aErr, mu <- aMu, pc <- aPc, val <- aVal

Messages == Players \cup Remote \cup {Offer}

Init ==
  /\ gone = FALSE /\ reader = "read" /\ next = Nobody /\ err = "nil"
  /\ at = [h \in Messages |-> "new"] /\ result = [h \in Messages |-> "nil"] /\ consumers = {}
  /\ closed = FALSE /\ onClose = {} /\ waiting = <<>> /\ conn = FALSE /\ given = <<>>
  /\ wire = {} /\ local = [l \in Local |-> "none"] /\ crash = FALSE
  /\ A!WaiterInit
-----------------------------------------------------------------------------
(* apiWS. *)

Read(h) ==
  /\ reader = "read" /\ ~gone /\ at[h] = "new"
  /\ reader' = "test" /\ next' = h /\ err' = "nil"
  /\ UNCHANGED <<gone, work, trans, wire, local, crash, answer>>

ReadFails ==
  /\ reader = "read" /\ gone
  /\ reader' = "test" /\ next' = Nobody /\ err' = "read"
  /\ UNCHANGED <<gone, work, trans, wire, local, crash, answer>>

(* A handler may have assigned err in between. *)
TestRead ==
  /\ reader = "test" /\ next' = Nobody
  /\ IF err = "nil"
     THEN /\ reader' = "read" /\ UNCHANGED gone
          /\ at' = IF next = Nobody THEN at ELSE [at EXCEPT ![next] = "run"]
     ELSE reader' = "close" /\ gone' = TRUE /\ UNCHANGED at
  /\ UNCHANGED <<err, result, consumers, trans, wire, local, crash, answer>>

(* tr.Close *)
Close ==
  /\ reader = "close" /\ reader' = "end" /\ closed' = TRUE
  /\ consumers' = consumers \ onClose
  /\ UNCHANGED <<gone, next, err, at, result, onClose, waiting, conn, given, wire, local, crash, answer>>

ClientGoes ==
  /\ ~gone /\ gone' = TRUE
  /\ UNCHANGED <<reader, next, err, work, trans, wire, local, crash, answer>>

Goto(h, from, to) == at[h] = from /\ at' = [at EXCEPT ![h] = to]
Tell(message) == wire' = IF gone THEN wire ELSE wire \cup {message}

(* The goroutine of a handler, when it has returned. *)
Assign(h) ==
  /\ Goto(h, "returned", "assigned") /\ err' = result[h]
  /\ UNCHANGED <<gone, reader, next, result, consumers, trans, wire, local, crash, answer>>

Test(h) ==
  /\ Goto(h, "assigned", IF err = "nil" THEN "end" ELSE "report")
  /\ UNCHANGED <<loop, result, consumers, trans, wire, local, crash, answer>>

Report(h) ==
  /\ Goto(h, "report", "end")
  /\ IF err = "nil" THEN crash' = TRUE /\ UNCHANGED wire
                    ELSE Tell("error") /\ UNCHANGED crash
  /\ UNCHANGED <<loop, result, consumers, trans, local, answer>>

Fails(h, from, to) == Goto(h, from, to) /\ result' = [result EXCEPT ![h] = "handler"]
-----------------------------------------------------------------------------
(* handlerWSMSE, handlerWSMP4 and the WebSocket handler of MJPEG.  The     *)
(* type is written when the consumer is added.                             *)
AddConsumer(p) ==
  /\ \/ /\ Goto(p, "run", "added") /\ UNCHANGED result
        /\ consumers' = consumers \cup {p} /\ Tell("type")
     \/ Fails(p, "run", "returned") /\ UNCHANGED <<consumers, wire>>
  /\ UNCHANGED <<loop, trans, local, crash, answer>>

(* tr.OnClose, which runs the function at once on a closed transport. *)
OnClose(p) ==
  /\ Goto(p, "added", "returned")
  /\ IF closed THEN consumers' = consumers \ {p} /\ UNCHANGED onClose
               ELSE onClose' = onClose \cup {p} /\ UNCHANGED consumers
  /\ UNCHANGED <<loop, result, closed, waiting, conn, given, wire, local, crash, answer>>
-----------------------------------------------------------------------------
(* asyncHandler, asyncCandidates and candidateHandler. *)

Candidate(r) ==
  /\ Goto(r, "run", "returned")
  /\ IF conn THEN given' = Append(given, r) /\ UNCHANGED waiting
             ELSE waiting' = Append(waiting, r) /\ UNCHANGED given
  /\ UNCHANGED <<loop, result, consumers, closed, onClose, conn, wire, local, crash, answer>>

(* SetOffer and AddConsumer; GetAnswer: each may fail. *)
SetOffer ==
  /\ \/ Goto(Offer, "run", "offered") /\ UNCHANGED result
     \/ Fails(Offer, "run", "leave")
  /\ UNCHANGED <<loop, consumers, trans, wire, local, crash, answer>>

GetAnswer ==
  /\ \/ Goto(Offer, "offered", "answered") /\ UNCHANGED result
     \/ Fails(Offer, "offered", "leave")
  /\ UNCHANGED <<loop, consumers, trans, wire, local, crash, answer>>

TellAnswer ==
  /\ Goto(Offer, "answered", "told") /\ Tell("answer")
  /\ UNCHANGED <<loop, result, consumers, trans, local, crash, answer>>

(* sendAnswer.Done, in its two steps, at the end and when the answer is    *)
(* written. *)
DoneSent ==
  /\ \/ Goto(Offer, "told", "done") /\ A!Done(Sent)
     \/ Goto(Offer, "done", "candidates") /\ A!FinishDone(Sent)
  /\ UNCHANGED <<loop, result, consumers, trans, wire, local, crash>>

DoneDeferred ==
  /\ \/ Goto(Offer, "leave", "leaving") /\ A!Done(Defer)
     \/ Goto(Offer, "leaving", "returned") /\ A!FinishDone(Defer)
  /\ UNCHANGED <<loop, result, consumers, trans, wire, local, crash>>

(* Mutant of AsyncCandidates: those that came before are not processed. *)
AsyncCandidatesAfter ==
  /\ Goto(Offer, "candidates", "leave") /\ conn' = TRUE /\ waiting' = <<>>
  /\ UNCHANGED <<loop, result, consumers, closed, onClose, given, wire, local, crash, answer>>
AsyncCandidates ==
  /\ Goto(Offer, "candidates", "leave") /\ conn' = TRUE
  /\ given' = given \o waiting /\ waiting' = <<>>
  /\ UNCHANGED <<loop, result, consumers, closed, onClose, wire, local, crash, answer>>

(* The callback of a local candidate: the PeerConnection gathers from      *)
(* within GetAnswer on, also when that fails in the end.                   *)
Gathering == at[Offer] \notin {"new", "run"}
At(l, from, to) == local[l] = from /\ local' = [local EXCEPT ![l] = to]

WaitAnswer(l) ==
  /\ Gathering /\ At(l, "none", "wait") /\ A!Wait(l)
  /\ UNCHANGED <<loop, work, trans, wire, crash>>

Waited(l) ==
  /\ local[l] = "wait"
  /\ \/ A!Wake(l) /\ aPc[l] # aPc'[l] /\ UNCHANGED local
     \/ A!ReturnWait(l) /\ aPc[l] # aPc'[l] /\ At(l, "wait", "write")
  /\ UNCHANGED <<loop, work, trans, wire, crash>>

TellCandidate(l) ==
  /\ At(l, "write", "end") /\ Tell(l)
  /\ UNCHANGED <<loop, work, trans, crash, answer>>
-----------------------------------------------------------------------------
Loop == ReadFails \/ TestRead \/ Close
Handle ==
  \/ \E h \in Messages : Assign(h) \/ Test(h) \/ Report(h)
  \/ \E p \in Players : AddConsumer(p) \/ OnClose(p)
  \/ \E r \in Remote : Candidate(r)
  \/ SetOffer \/ GetAnswer \/ TellAnswer \/ DoneSent \/ DoneDeferred \/ AsyncCandidates
Callback(l) == WaitAnswer(l) \/ Waited(l) \/ TellCandidate(l)

Next ==
  /\ ~crash
  /\ \/ Loop \/ Handle \/ ClientGoes
     \/ \E h \in Messages : Read(h)
     \/ \E l \in Local : Callback(l)

Spec == Init /\ [][Next]_vars
-----------------------------------------------------------------------------
(* Our candidates reach the browser after the answer, in whatever order    *)
(* callbacks and handler run; without it only when the offer has failed.   *)
AnswerFirst ==
  \A l \in Local \cap (wire' \ wire) : "answer" \in wire \/ result[Offer] = "handler"

(* No candidate of the browser is lost, doubled or given out of turn,      *)
(* whether its handler ran before that of the offer or after: "process     *)
(* candidates that receive before this moment", "collect candidate and     *)
(* process it later".                                                      *)
CandidatesKept ==
  LET all == given \o waiting IN
  /\ ToSet(all) = {r \in Remote : at[r] \notin {"new", "run"}}
  /\ Len(all) = Cardinality(ToSet(all))
  /\ conn => waiting = <<>>

(* So both sides hear of the other's candidates in their turn. *)
Signalling == [][AnswerFirst /\ CandidatesKept']_vars

(* When the connection is closed, every consumer added over it is removed, *)
(* also one whose handler was late, and whatever the race for err made     *)
(* apiWS do, unless it ended the process.                                  *)
ConsumersGone ==
  \A p \in Players : []<>(gone => p \notin consumers \/ crash)

=============================================================================
