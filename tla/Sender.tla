-------------------------------- MODULE Sender --------------------------------
(***************************************************************************)
(* core.Sender (pkg/core/track.go): the bounded queue between the          *)
(* goroutine that reads a source and one track of a consumer.  Input puts  *)
(* a packet into the channel or drops it, a goroutine that Start creates   *)
(* takes the packets to the consumer's handler, Close ends that goroutine  *)
(* when the channel is empty, Wait waits for its end.                      *)
(*                                                                         *)
(* Input, Start and the first half of Close run under s.mu and are one     *)
(* action each; the goroutine and Wait take no mutex.  The second half of  *)
(* Close, which leaves the receiver, is in Node; it may come before or     *)
(* after any Input, as here.  Packets are numbered as Input is called.     *)
(***************************************************************************)
EXTENDS Naturals, Sequences

CONSTANTS
  Starters,    (* goroutines that call Start                               *)
  Waiters,     (* goroutines that call Wait                                *)
  QueueSize,   (* cap(buf): 64, 128 or 4096                                *)
  MaxInputs    (* bound: calls of Input                                    *)

ASSUME SenderAssumption == QueueSize \in Nat \ {0} /\ MaxInputs \in Nat

VARIABLES
  field,    (* s.buf # nil                                                 *)
  closed,   (* the channel is closed                                       *)
  queue,    (* what it holds                                               *)
  sent,     (* the calls of Input                                          *)
  packets,  (* s.Packets                                                   *)
  drops,    (* s.Drops                                                     *)
  done,     (* s.done: nil, open or closed                                 *)
  worker,   (* for each Start, the goroutine it created                    *)
  hand,     (* the packet each goroutine has taken to s.Output, or 0       *)
  got,      (* the packets the handler is through with                     *)
  waiter,   (* where each goroutine that calls Wait is                     *)
  panic     (* a closed channel was written to or closed                   *)

senderVars == <<field, closed, queue, sent, packets, drops, done, worker, hand, got, waiter, panic>>

SenderInit ==
  /\ field = TRUE
  /\ closed = FALSE
  /\ queue = <<>>
  /\ sent = 0
  /\ packets = 0
  /\ drops = 0
  /\ done = "nil"
  /\ worker = [t \in Starters |-> "none"]
  /\ hand = [t \in Starters |-> 0]
  /\ got = <<>>
  /\ waiter = [w \in Waiters |-> "new"]
  /\ panic = FALSE
-----------------------------------------------------------------------------
(* Input: the select has a default, so a full and a nil channel drop. *)
Input ==
  /\ sent < MaxInputs
  /\ sent' = sent + 1
  /\ IF field /\ ~ closed /\ Len(queue) < QueueSize
     THEN queue' = Append(queue, sent + 1) /\ packets' = packets + 1 /\ UNCHANGED drops
     ELSE drops' = drops + 1 /\ UNCHANGED <<queue, packets>>
  /\ panic' = (panic \/ (field /\ closed))
  /\ UNCHANGED <<field, closed, done, worker, hand, got, waiter>>

(* Start, which returns at once on a closed or a started sender. *)
Start(t) ==
  /\ worker[t] = "none"
  /\ field /\ done = "nil"
  /\ done' = "open"
  /\ worker' = [worker EXCEPT ![t] = "run"]
  /\ UNCHANGED <<field, closed, queue, sent, packets, drops, hand, got, waiter, panic>>

(* "for packet := range buf { s.Output(packet) }" *)
Take(t) ==
  /\ worker[t] = "run" /\ hand[t] = 0 /\ queue # <<>>
  /\ hand' = [hand EXCEPT ![t] = Head(queue)]
  /\ queue' = Tail(queue)
  /\ UNCHANGED <<field, closed, sent, packets, drops, done, worker, got, waiter, panic>>

Output(t) ==
  /\ hand[t] # 0
  /\ got' = Append(got, hand[t])
  /\ hand' = [hand EXCEPT ![t] = 0]
  /\ UNCHANGED <<field, closed, queue, sent, packets, drops, done, worker, waiter, panic>>

(* Mutant of Exit: the goroutine ends as soon as the channel is closed. *)
ExitAtOnce(t) ==
  /\ worker[t] = "run" /\ hand[t] = 0
  /\ closed
  /\ worker' = [worker EXCEPT ![t] = "end"]
  /\ done' = "closed"
  /\ UNCHANGED <<field, closed, queue, sent, packets, drops, hand, got, waiter, panic>>

(* The loop ends when the channel is closed and empty; close(s.done). *)
Exit(t) ==
  /\ worker[t] = "run" /\ hand[t] = 0
  /\ closed /\ queue = <<>>
  /\ worker' = [worker EXCEPT ![t] = "end"]
  /\ panic' = (panic \/ done = "closed")
  /\ done' = "closed"
  /\ UNCHANGED <<field, closed, queue, sent, packets, drops, hand, got, waiter>>

(* Mutant of Close: s.buf is not cleared. *)
CloseKeepsField ==
  /\ field
  /\ closed' = TRUE
  /\ panic' = (panic \/ closed)
  /\ UNCHANGED <<field, queue, sent, packets, drops, done, worker, hand, got, waiter>>

(* Close, under s.mu; a second one finds s.buf nil. *)
Close ==
  /\ field
  /\ closed' = TRUE
  /\ panic' = (panic \/ closed)
  /\ field' = FALSE
  /\ UNCHANGED <<queue, sent, packets, drops, done, worker, hand, got, waiter>>

(* Wait, which returns at once when the sender was never started. *)
BeginWait(w) ==
  /\ waiter[w] = "new"
  /\ waiter' = [waiter EXCEPT ![w] = IF done = "nil" THEN "skipped" ELSE "wait"]
  /\ UNCHANGED <<field, closed, queue, sent, packets, drops, done, worker, hand, got, panic>>

EndWait(w) ==
  /\ waiter[w] = "wait" /\ done = "closed"
  /\ waiter' = [waiter EXCEPT ![w] = "returned"]
  /\ UNCHANGED <<field, closed, queue, sent, packets, drops, done, worker, hand, got, panic>>

(* No packet comes any more, or the sender is closed and drained. *)
SenderQuiet ==
  /\ sent = MaxInputs
  /\ \A t \in Starters : worker[t] = "run" => hand[t] = 0 /\ queue = <<>>
  /\ UNCHANGED senderVars

Work(t) == Take(t) \/ Output(t) \/ Exit(t)

SenderNext ==
  \/ Input \/ Close
  \/ \E t \in Starters : Start(t) \/ Work(t)
  \/ \E w \in Waiters : BeginWait(w) \/ EndWait(w)
  \/ SenderQuiet

SenderSpec == SenderInit /\ [][SenderNext]_senderVars
-----------------------------------------------------------------------------
(* The types of Sender's fields and of the goroutines' places. *)
SenderTypeOK ==
  /\ field \in BOOLEAN /\ closed \in BOOLEAN /\ panic \in BOOLEAN
  /\ queue \in Seq(1 .. MaxInputs) /\ Len(queue) <= QueueSize
  /\ sent \in 0 .. MaxInputs /\ packets \in Nat /\ drops \in Nat
  /\ done \in {"nil", "open", "closed"}
  /\ worker \in [Starters -> {"none", "run", "end"}]
  /\ hand \in [Starters -> 0 .. MaxInputs]
  /\ got \in Seq(1 .. MaxInputs)
  /\ waiter \in [Waiters -> {"new", "wait", "skipped", "returned"}]

(* No goroutine writes to a closed channel or closes one twice ("write to  *)
(* closed chan - panic", track.go:101), in whatever order Input, Start and *)
(* several Close calls come.                                               *)
NoPanic == ~ panic

(* The packets that were accepted and are not with the handler any more,   *)
(* are with it, or are queued; the consumer never gets an older packet     *)
(* after a newer one.                                                      *)
InOrder ==
  /\ \A i \in 1 .. Len(got) : \A t \in Starters : hand[t] # 0 => got[i] < hand[t]
  /\ \A i \in 1 .. Len(queue) : \A t \in Starters : hand[t] < queue[i]
  /\ \A i \in 1 .. Len(got) : \A j \in 1 .. Len(queue) : got[i] < queue[j]
  /\ \A i, j \in 1 .. Len(got) : i < j => got[i] < got[j]
  /\ \A i, j \in 1 .. Len(queue) : i < j => queue[i] < queue[j]

Holding == IF \E t \in Starters : hand[t] # 0 THEN 1 ELSE 0

(* Every packet is counted once, as accepted or as dropped, and what was   *)
(* accepted is handled, with the handler or queued: Close loses nothing    *)
(* (track_test.go:41-43 reads the second packet after Close).              *)
Accounted ==
  /\ packets + drops = sent
  /\ packets = Len(got) + Holding + Len(queue)

(* When Wait returns, everything that was accepted has been handled and    *)
(* nothing will be accepted any more.                                      *)
WaitMeansDrained ==
  \A w \in Waiters :
    waiter[w] = "returned" => ~ field /\ packets = Len(got)

=============================================================================
