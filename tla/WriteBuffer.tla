----------------------------- MODULE WriteBuffer -----------------------------
(***************************************************************************)
(* core.WriteBuffer (pkg/core/writebuffer.go): what an MP4, FLV, MPEG-TS   *)
(* or JPEG consumer writes into.  Until the consumer's WriteTo is called   *)
(* the data is kept; WriteTo flushes it to the client's writer, directs    *)
(* the further writes there, and blocks until a write fails or the         *)
(* consumer is stopped.                                                    *)
(*                                                                         *)
(* Writes come from the goroutines of the consumer's senders, Close from   *)
(* whoever stops the consumer.  Write and Reset run under w.mu and are one *)
(* action each; Close looks at w.Writer before it takes the mutex.  Data   *)
(* is numbered in the order in which the mutex is taken.                   *)
(***************************************************************************)
EXTENDS Naturals, Sequences

CONSTANTS
  Closers,       (* goroutines that stop the consumer                      *)
  MaxWrites      (* bound: writes offered                                  *)

VARIABLES
  writer,   (* w.Writer: the bytes.Buffer or the client                    *)
  buf,      (* what the bytes.Buffer holds                                 *)
  out,      (* what the client got                                         *)
  written,  (* the number of writes that returned no error                 *)
  offered,  (* the number of writes                                        *)
  bufErr,   (* w.err # nil                                                 *)
  bufState, (* w.state                                                     *)
  bufWg,    (* the counter of w.wg                                         *)
  closable, (* the client's writer is an io.Closer                         *)
  shut,     (* the client's writer is closed                               *)
  reader,   (* where the goroutine that calls WriteTo is                   *)
  closer    (* where each goroutine that calls Close is                    *)

bufferVars == <<writer, buf, out, written, offered, bufErr, bufState, bufWg, closable, shut, reader, closer>>

BufferInit ==
  /\ writer = "buffer"
  /\ buf = <<>>
  /\ out = <<>>
  /\ written = 0
  /\ offered = 0
  /\ bufErr = FALSE
  /\ bufState = "none"
  /\ bufWg = 0
  /\ closable \in BOOLEAN
  /\ shut = FALSE
  /\ reader = "new"
  /\ closer = [c \in Closers |-> "new"]
-----------------------------------------------------------------------------
(* w.add() and w.done(): the WaitGroup is entered and left once.           *)
StateAdded == IF bufState = "none" THEN "start" ELSE bufState
CountAdded == IF bufState = "none" THEN bufWg + 1 ELSE bufWg
StateDone(st) == IF st = "start" THEN "end" ELSE st

CountDone(st, n) == IF st = "start" THEN n - 1 ELSE n

(* Mutant of Fail: a failed write does not release WriteTo. *)
FailSilently ==
  /\ bufErr' = TRUE
  /\ UNCHANGED <<bufState, bufWg>>

(* A write to the client failed: w.err = err, w.done(). *)
Fail ==
  /\ bufErr' = TRUE
  /\ bufState' = StateDone(bufState)
  /\ bufWg' = CountDone(bufState, bufWg)

(* Write(p).  A write to the client may fail at any time, and always does  *)
(* once the client's writer is closed.                                     *)
Write ==
  /\ offered < MaxWrites
  /\ offered' = offered + 1
  /\ \/ /\ bufErr
        /\ UNCHANGED <<buf, out, written, bufErr, bufState, bufWg>>
     \/ /\ ~ bufErr /\ writer = "buffer"
        /\ written' = written + 1
        /\ buf' = Append(buf, offered + 1)
        /\ UNCHANGED <<out, bufErr, bufState, bufWg>>
     \/ /\ ~ bufErr /\ writer = "client" /\ ~ shut
        /\ written' = written + 1
        /\ out' = Append(out, offered + 1)
        /\ UNCHANGED <<buf, bufErr, bufState, bufWg>>
     \/ /\ ~ bufErr /\ writer = "client"
        /\ Fail
        /\ UNCHANGED <<buf, out, written>>
  /\ UNCHANGED <<writer, closable, shut, reader, closer>>

(* Mutant of Reset: what was written before is not flushed. *)
ResetUnflushed ==
  /\ writer' = "client"
  /\ bufState' = StateAdded /\ bufWg' = CountAdded
  /\ buf' = <<>>
  /\ UNCHANGED <<out, bufErr>>

(* Reset(wr): flush, which may fail after a part of the data, and switch.  *)
Reset ==
  /\ writer' = "client"
  /\ \/ /\ out' = out \o buf /\ buf' = <<>>
        /\ bufState' = StateAdded /\ bufWg' = CountAdded
        /\ UNCHANGED bufErr
     \/ /\ writer = "buffer" /\ buf # <<>>
        /\ \E n \in 0 .. Len(buf) - 1 :
             /\ out' = out \o SubSeq(buf, 1, n)
             /\ buf' = SubSeq(buf, n + 1, Len(buf))
        /\ bufErr' = TRUE
        /\ bufState' = StateDone(StateAdded) /\ bufWg' = CountDone(StateAdded, CountAdded)

(* WriteTo(wr), up to w.wg.Wait(). *)
WriteTo ==
  /\ reader = "new"
  /\ reader' = "wait"
  /\ Reset
  /\ UNCHANGED <<written, offered, closable, shut, closer>>

(* w.wg.Wait() returns. *)
Return ==
  /\ reader = "wait" /\ bufWg = 0
  /\ reader' = "returned"
  /\ UNCHANGED <<writer, buf, out, written, offered, bufErr, bufState, bufWg, closable, shut, closer>>

(* Close(): a writer that can be closed is, and that is all ... *)
CloseWriter(c) ==
  /\ closer[c] = "new"
  /\ IF writer = "client" /\ closable
     THEN shut' = TRUE /\ closer' = [closer EXCEPT ![c] = "closed"]
     ELSE UNCHANGED shut /\ closer' = [closer EXCEPT ![c] = "lock"]
  /\ UNCHANGED <<writer, buf, out, written, offered, bufErr, bufState, bufWg, closable, reader>>

(* ... otherwise WriteTo is released. *)
CloseBuffer(c) ==
  /\ closer[c] = "lock"
  /\ closer' = [closer EXCEPT ![c] = "closed"]
  /\ bufState' = StateDone(bufState)
  /\ bufWg' = CountDone(bufState, bufWg)
  /\ UNCHANGED <<writer, buf, out, written, offered, bufErr, closable, shut, reader>>

(* The consumer is stopped, or no packet comes any more. *)
BufferQuiet ==
  /\ offered = MaxWrites /\ reader # "new"
  /\ \A c \in Closers : closer[c] = "closed"
  /\ UNCHANGED bufferVars

BufferNext ==
  \/ Write \/ WriteTo \/ Return
  \/ \E c \in Closers : CloseWriter(c) \/ CloseBuffer(c)
  \/ BufferQuiet

BufferSpec == BufferInit /\ [][BufferNext]_bufferVars

(* A goroutine whose WaitGroup is free returns; nobody is forced to write, *)
(* to call WriteTo or to stop the consumer.                                *)
BufferFairSpec == BufferSpec /\ WF_bufferVars(Return)
-----------------------------------------------------------------------------
(* The types of WriteBuffer's fields, of the client and of the callers. *)
BufferTypeOK ==
  /\ writer \in {"buffer", "client"}
  /\ buf \in Seq(Nat) /\ out \in Seq(Nat)
  /\ offered \in Nat /\ written \in 0 .. offered
  /\ bufErr \in BOOLEAN /\ closable \in BOOLEAN /\ shut \in BOOLEAN
  /\ bufState \in {"none", "start", "end"}
  /\ bufWg \in Nat
  /\ reader \in {"new", "wait", "returned"}
  /\ closer \in [Closers -> {"new", "lock", "closed"}]

(* The WaitGroup is entered at most once and left at most once, so that    *)
(* neither two failures nor two Close calls can make it panic.             *)
CountedOnce == bufWg = IF bufState = "start" THEN 1 ELSE 0

(* The client gets what was written, from its beginning, in order and      *)
(* without a gap, also when the writer is switched between two writes      *)
(* ("Reset will flush current buffer data to new writer and starts to      *)
(* Write to new io.Writer", writebuffer.go:12).                            *)
NothingLost ==
  /\ out \o buf = [i \in 1 .. written |-> i]
  /\ ~ bufErr /\ writer = "client" => buf = <<>>

(* WriteTo returns only after a write failed or Close was called ("WriteTo *)
(* will be locked until Write fails or Close will be called",              *)
(* writebuffer.go:13).                                                     *)
LockedUntilEnd ==
  reader = "returned" => bufErr \/ \E c \in Closers : closer[c] = "closed"

(* A failed write releases WriteTo, whatever is closed meanwhile. *)
FailReleases == []<>(bufErr => reader = "returned")

=============================================================================
