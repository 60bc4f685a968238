------------------------------- MODULE Waiter -------------------------------
(***************************************************************************)
(* core.Waiter (pkg/core/waiter.go): a sync.WaitGroup that starts itself   *)
(* on the first Wait, finishes on the last Done and remembers the error of *)
(* that Done.  It is what Producer.Start blocks on in the WebRTC, Tuya,    *)
(* Ring and Wyoming clients, and what orders an SDP answer before its ICE  *)
(* candidates.                                                             *)
(*                                                                         *)
(* Every method but the blocking part of Wait runs under w.mu, so it is    *)
(* one action, except Done: its WaitGroup.Done() releases goroutines that  *)
(* wait without the mutex, so Done is two actions, before and after it.    *)
(***************************************************************************)
EXTENDS Integers

CONSTANTS
  Threads,   (* goroutines; each makes one call                            *)
  Errors,    (* what a Done may be called with                             *)
  NoError    (* the nil error a Waiter holds before its last Done          *)

VARIABLES
  state,     (* w.state: calls outstanding, -1 once finished               *)
  wg,        (* the counter of the embedded sync.WaitGroup                 *)
  err,       (* w.err                                                      *)
  mu,        (* who is inside the two-step critical section of Done        *)
  pc,        (* where each thread is                                       *)
  val        (* the argument of a Done, then the result of a Wait          *)

waiterVars == <<state, wg, err, mu, pc, val>>

Finished == -1

Goto(t, from, to) == pc[t] = from /\ pc' = [pc EXCEPT ![t] = to]

WaiterInit ==
  /\ state = 0
  /\ wg = 0
  /\ err = NoError
  /\ mu = {}
  /\ pc = [t \in Threads |-> "new"]
  /\ val = [t \in Threads |-> NoError]
-----------------------------------------------------------------------------
(* Add(1): counted only while the waiter is not finished. *)
Add(t) ==
  /\ mu = {}
  /\ Goto(t, "new", "end")
  /\ state' = IF state >= 0 THEN state + 1 ELSE state
  /\ wg' = IF state >= 0 THEN wg + 1 ELSE wg
  /\ UNCHANGED <<err, mu, val>>

(* Mutant of EnterWait: the first Wait adds nothing. *)
EnterWaitWithoutAdd(t, from) ==
  /\ mu = {}
  /\ Goto(t, from, IF state < 0 THEN "late" ELSE "blocked")
  /\ UNCHANGED <<state, wg, err, mu, val>>

(* The locked half of Wait: the first Wait adds the one it will wait for. *)
EnterWait(t, from) ==
  /\ mu = {}
  /\ Goto(t, from, IF state < 0 THEN "late" ELSE "blocked")
  /\ state' = IF state = 0 THEN 1 ELSE state
  /\ wg' = IF state = 0 THEN wg + 1 ELSE wg
  /\ UNCHANGED <<err, mu, val>>

Wait(t) == EnterWait(t, "new")

(* sync.WaitGroup.Wait returns when the counter is zero. *)
Wake(t) ==
  /\ wg = 0
  /\ \/ Goto(t, "blocked", "woken")
     \/ Goto(t, "late", "lateWoken")
  /\ UNCHANGED <<state, wg, err, mu, val>>

(* return w.err, read without the mutex. *)
ReturnWait(t) ==
  /\ \/ Goto(t, "woken", "returned")
     \/ Goto(t, "lateWoken", "lateReturned")
  /\ val' = [val EXCEPT ![t] = err]
  /\ UNCHANGED <<state, wg, err, mu>>

(* Mutant of Done: the last Done does not reach the WaitGroup. *)
DoneKeepsLast(t) ==
  /\ mu = {}
  /\ Goto(t, "new", "doneLocked")
  /\ mu' = {t}
  /\ \E e \in Errors : val' = [val EXCEPT ![t] = e]
  /\ state' = IF state > 0 THEN state - 1 ELSE state
  /\ wg' = IF state > 1 THEN wg - 1 ELSE wg
  /\ UNCHANGED err

(* Done(e), up to and with WaitGroup.Done(). *)
Done(t) ==
  /\ mu = {}
  /\ Goto(t, "new", "doneLocked")
  /\ mu' = {t}
  /\ \E e \in Errors : val' = [val EXCEPT ![t] = e]
  /\ state' = IF state > 0 THEN state - 1 ELSE state
  /\ wg' = IF state > 0 THEN wg - 1 ELSE wg
  /\ UNCHANGED err

(* The rest of Done: the last one finishes the waiter. *)
FinishDone(t) ==
  /\ Goto(t, "doneLocked", "end")
  /\ mu' = {}
  /\ state' = IF state = 0 THEN Finished ELSE state
  /\ err' = IF state = 0 THEN val[t] ELSE err
  /\ UNCHANGED <<wg, val>>

(* WaitChan: a nil channel, which never delivers, once finished; otherwise *)
(* a goroutine that calls Wait later.                                      *)
WaitChan(t) ==
  /\ mu = {}
  /\ Goto(t, "new", IF state >= 0 THEN "spawned" ELSE "nilChan")
  /\ UNCHANGED <<state, wg, err, mu, val>>

WaitSpawned(t) == EnterWait(t, "spawned")

(* Every thread has returned, or waits for something nobody will do. *)
WaiterQuiet ==
  /\ \A t \in Threads : pc[t] \in {"end", "returned", "lateReturned", "nilChan", "blocked"}
  /\ UNCHANGED waiterVars

Steps(t) ==
  \/ Wake(t)
  \/ ReturnWait(t)
  \/ FinishDone(t)
  \/ WaitSpawned(t)

WaiterNext ==
  \/ \E t \in Threads : Add(t) \/ Wait(t) \/ Done(t) \/ WaitChan(t) \/ Steps(t)
  \/ WaiterQuiet

WaiterSpec == WaiterInit /\ [][WaiterNext]_waiterVars

(* A goroutine inside a call is scheduled; nobody is forced to make a call. *)
WaiterFairSpec == WaiterSpec /\ \A t \in Threads : WF_waiterVars(Steps(t))
-----------------------------------------------------------------------------
Places ==
  {"new", "blocked", "late", "woken", "lateWoken", "returned", "lateReturned",
   "doneLocked", "spawned", "nilChan", "end"}

(* The types of the variables (core.Waiter's fields and the threads). *)
WaiterTypeOK ==
  /\ state \in Nat \cup {Finished}
  /\ wg \in Int
  /\ err \in Errors \cup {NoError}
  /\ mu \in SUBSET Threads
  /\ pc \in [Threads -> Places]
  /\ val \in [Threads -> Errors \cup {NoError}]

(* The WaitGroup counter follows w.state and never goes below zero: an     *)
(* extra Done, or an Add after the finish, would make sync.WaitGroup panic *)
(* ("safe Done after finish", waiter.go:10).                               *)
CounterInStep == wg = (IF state > 0 THEN state ELSE 0)

(* A Wait gets past the WaitGroup only when the last Done has been called: *)
(* the waiter is finished, or the finishing Done is between its two steps. *)
NoEarlyReturn ==
  (\E t \in Threads : pc[t] \in {"woken", "returned"}) =>
    \/ state = Finished
    \/ state = 0 /\ mu # {}

(* Once finished, no call changes the state or the error any more ("block  *)
(* waiter for any operations after last done", waiter.go:48).              *)
FinishIsFinal == [][state = Finished => state' = Finished /\ err' = err /\ wg' = wg]_waiterVars

(* When the last Done has been called, every goroutine blocked in Wait is  *)
(* released.                                                               *)
FinishReleases ==
  []<>(state = Finished => \A t \in Threads : pc[t] \notin {"blocked", "late", "spawned"})
=============================================================================
