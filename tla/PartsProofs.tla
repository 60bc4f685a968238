------------------------------ MODULE PartsProofs ------------------------------
(* Proofs about the parts of MCParts, for any number of goroutines,        *)
(* callers, handlers, tabs, packets and frames.  First core.Waiter,        *)
(* core.Sender and core.WriteBuffer, which MCParts extends.  Then the REST *)
(* client of Ring, the sessions of the CCTV map, the Wyoming satellite,    *)
(* the WebSocket with WebRTC's signalling, and a session of the HLS        *)
(* server, which it instantiates: each of these sections shows first that  *)
(* the run's specification moves the part as its own Init and Next say.    *)
EXTENDS MCParts, ListProofs, FiniteSetTheorems, TLAPS

(* Done holds w.mu between its two steps, and nobody else does. *)
MutexHeld == \A t \in Threads : pc[t] = "doneLocked" <=> mu = {t}

(* A goroutine is blocked only on a waiter that has been started. *)
BlockedOnStarted ==
  (\E t \in Threads : pc[t] = "blocked") => state # 0 \/ mu # {}

WaiterInv == WaiterTypeOK /\ CounterInStep /\ NoEarlyReturn /\ MutexHeld /\ BlockedOnStarted

(* Every critical section leaves the counter and the program counters well *)
(* formed.                                                                 *)
LEMMA WaiterInitial == WaiterInit => WaiterInv
  BY DEF WaiterInit, WaiterInv, WaiterTypeOK, CounterInStep, NoEarlyReturn, MutexHeld, BlockedOnStarted,
      Places, Finished

(* No step of any goroutine breaks the invariant. *)
LEMMA WaiterStep == WaiterInv /\ [WaiterNext]_waiterVars => WaiterInv'
<1> SUFFICES ASSUME WaiterInv, [WaiterNext]_waiterVars PROVE WaiterInv'
  OBVIOUS
<1> USE DEF WaiterInv, WaiterTypeOK, CounterInStep, NoEarlyReturn, MutexHeld, BlockedOnStarted,
        Places, Finished, Goto
<1>1. ASSUME NEW t \in Threads, Add(t) PROVE WaiterInv'
  BY <1>1 DEF Add
<1>2. ASSUME NEW t \in Threads, NEW from \in {"new", "spawned"}, EnterWait(t, from)
      PROVE WaiterInv'
  BY <1>2 DEF EnterWait
<1>3. ASSUME NEW t \in Threads, Wake(t) PROVE WaiterInv'
  BY <1>3 DEF Wake
<1>4. ASSUME NEW t \in Threads, ReturnWait(t) PROVE WaiterInv'
  BY <1>4 DEF ReturnWait
<1>5. ASSUME NEW t \in Threads, Done(t) PROVE WaiterInv'
  BY <1>5 DEF Done
<1>6. ASSUME NEW t \in Threads, FinishDone(t) PROVE WaiterInv'
  BY <1>6 DEF FinishDone
<1>7. ASSUME NEW t \in Threads, WaitChan(t) PROVE WaiterInv'
  BY <1>7 DEF WaitChan
<1>8. CASE UNCHANGED waiterVars
  BY <1>8 DEF waiterVars
<1> QED
  BY <1>1, <1>2, <1>3, <1>4, <1>5, <1>6, <1>7, <1>8
  DEF WaiterNext, Steps, Wait, WaitSpawned, WaiterQuiet

(* The invariant holds in every reachable state. *)
LEMMA WaiterInductive == WaiterSpec => []WaiterInv
<1>1. QED
  BY WaiterInitial, WaiterStep, PTL DEF WaiterSpec

(* The WaitGroup counter never goes below zero and never grows after the   *)
(* finish, however many Add and Done calls race (waiter.go:18-57).         *)
THEOREM CounterSafe == WaiterSpec => []CounterInStep
<1>1. WaiterInv => CounterInStep
  BY DEF WaiterInv
<1>2. QED
  BY <1>1, WaiterInductive, PTL

(* No Wait returns before the last Done has been called (waiter.go:36).    *)
THEOREM NoEarlyReturnSafe == WaiterSpec => []NoEarlyReturn
<1>1. WaiterInv => NoEarlyReturn
  BY DEF WaiterInv
<1>2. QED
  BY <1>1, WaiterInductive, PTL

(* After the last Done no call changes the waiter (waiter.go:48-54).       *)
THEOREM FinishFinal == WaiterSpec => FinishIsFinal
<1>1. WaiterInv /\ [WaiterNext]_waiterVars => [state = Finished => state' = Finished /\ err' = err /\ wg' = wg]_waiterVars
  <2> SUFFICES ASSUME WaiterInv, [WaiterNext]_waiterVars, state = Finished
               PROVE  state' = Finished /\ err' = err /\ wg' = wg
    OBVIOUS
  <2> QED
    BY DEF WaiterInv, WaiterTypeOK, WaiterNext, Steps, Wait, WaitSpawned, WaiterQuiet, waiterVars, Finished, Add,
           EnterWait, Wake, ReturnWait, Done, FinishDone, WaitChan, Goto
<1>2. QED
  BY <1>1, WaiterInductive, PTL DEF WaiterSpec, FinishIsFinal
-----------------------------------------------------------------------------
Packets == 1 .. MaxInputs

(* Sequences: what Append and Tail do to the elements. *)
LEMMA AppendAt ==
  ASSUME NEW E, NEW s \in Seq(E), NEW e \in E
  PROVE  /\ Append(s, e) \in Seq(E) /\ Len(s) \in Nat /\ Len(Append(s, e)) = Len(s) + 1
         /\ \A i \in 1 .. Len(s) : Append(s, e)[i] = s[i] /\ s[i] \in E
         /\ Append(s, e)[Len(s) + 1] = e
  BY AppendProperties, LenProperties

LEMMA TailAt ==
  ASSUME NEW E, NEW s \in Seq(E), s # <<>>
  PROVE  /\ Tail(s) \in Seq(E) /\ Len(s) \in Nat \ {0} /\ Len(Tail(s)) = Len(s) - 1
         /\ \A i \in 1 .. Len(s) - 1 : Tail(s)[i] = s[i + 1]
         /\ Head(s) = s[1] /\ Head(s) \in E
         /\ \A i \in 1 .. Len(s) : s[i] \in E
<1>1. Len(s) \in Nat \ {0}
  BY LenProperties, EmptySeq
<1> QED
  BY <1>1, HeadTailProperties, LenProperties

(* The field and the channel change together, and the sender is started    *)
(* at most once.                                                           *)
Channel == ~ panic /\ (field <=> ~ closed)

Thread ==
  /\ \A t, u \in Starters : worker[t] # "none" /\ worker[u] # "none" => t = u
  /\ done = "nil" <=> \A t \in Starters : worker[t] = "none"
  /\ done = "closed" <=> \E t \in Starters : worker[t] = "end"
  /\ \A t \in Starters : hand[t] # 0 => worker[t] = "run"
  /\ \A t \in Starters : worker[t] = "end" => closed /\ queue = <<>>
  /\ \A w \in Waiters : waiter[w] = "returned" => done = "closed"

(* Only what was sent is on its way. *)
AllSent ==
  /\ \A i \in 1 .. Len(queue) : queue[i] <= sent
  /\ \A i \in 1 .. Len(got) : got[i] <= sent
  /\ \A t \in Starters : hand[t] <= sent

SenderInv == SenderTypeOK /\ Channel /\ Thread /\ AllSent /\ InOrder /\ Accounted

LEMMA SenderInitial == SenderInit => SenderInv
<1> SUFFICES ASSUME SenderInit PROVE SenderInv
  OBVIOUS
<1> USE SenderAssumption DEF SenderInit
<1>1. <<>> \in Seq(Packets) /\ Len(<<>>) = 0
  BY EmptySeq
<1>2. SenderTypeOK
  <2>1. queue \in Seq(Packets) /\ got \in Seq(Packets) /\ Len(queue) <= QueueSize
    BY <1>1
  <2>2. /\ worker \in [Starters -> {"none", "run", "end"}]
        /\ hand \in [Starters -> 0 .. MaxInputs]
        /\ waiter \in [Waiters -> {"new", "wait", "skipped", "returned"}]
    OBVIOUS
  <2>3. sent \in 0 .. MaxInputs /\ packets \in Nat /\ drops \in Nat
    OBVIOUS
  <2> QED
    BY <2>1, <2>2, <2>3 DEF SenderTypeOK, Packets
<1>3. Channel /\ Thread
  BY DEF Channel, Thread
<1>4. AllSent /\ InOrder
  BY <1>1 DEF AllSent, InOrder
<1>5. Accounted
  BY <1>1 DEF Accounted, Holding
<1> QED
  BY <1>2, <1>3, <1>4, <1>5 DEF SenderInv

(* Input puts the number after all others at the end of the queue. *)
LEMMA InputKeeps == SenderInv /\ Input => SenderInv'
<1> SUFFICES ASSUME SenderInv, Input PROVE SenderInv'
  OBVIOUS
<1> USE SenderAssumption
<1>0. /\ SenderTypeOK /\ Channel /\ Thread /\ AllSent /\ InOrder /\ Accounted
      /\ UNCHANGED <<field, closed, done, worker, hand, got, waiter>> /\ panic' = FALSE
      /\ sent' = sent + 1 /\ sent < MaxInputs
  <2>1. panic' = FALSE
    <3>1. panic = FALSE /\ ~ (field /\ closed)
      BY DEF SenderInv, Channel, SenderTypeOK
    <3> QED
      BY <3>1 DEF Input
  <2> QED
    BY <2>1 DEF SenderInv, Input
<1>1. /\ queue \in Seq(Packets) /\ got \in Seq(Packets) /\ sent \in Nat /\ sent + 1 \in Packets
      /\ Len(queue) \in Nat /\ Len(got) \in Nat
      /\ \A i \in 1 .. Len(queue) : queue[i] \in Nat
      /\ \A i \in 1 .. Len(got) : got[i] \in Nat
      /\ \A t \in Starters : hand[t] \in Nat
      /\ packets \in Nat /\ drops \in Nat /\ Holding \in Nat /\ Holding' = Holding
  BY <1>0, LenProperties DEF SenderTypeOK, Packets, Holding
<1>2. Channel' /\ sent' \in 0 .. MaxInputs
  BY <1>0, <1>1 DEF Channel
<1>3. CASE queue' = Append(queue, sent + 1) /\ packets' = packets + 1 /\ UNCHANGED drops
           /\ Len(queue) < QueueSize /\ field
  <2>1. /\ queue' \in Seq(Packets) /\ Len(queue') = Len(queue) + 1
        /\ \A i \in 1 .. Len(queue) : queue'[i] = queue[i]
        /\ queue'[Len(queue) + 1] = sent + 1
    BY <1>1, <1>3, AppendAt
  <2>a. packets' = packets + 1 /\ drops' = drops /\ Len(queue) < QueueSize
    BY <1>3
  <2>2. SenderTypeOK'
    <3>1. Len(queue') <= QueueSize /\ packets' \in Nat
      BY <1>1, <2>1, <2>a
    <3>2. queue' \in Seq(1 .. MaxInputs)
      BY <2>1 DEF Packets
    <3> QED
      BY <1>0, <1>2, <2>a, <3>1, <3>2 DEF SenderTypeOK
  <2>4. Thread'
    <3>1. \A t \in Starters : worker[t] # "end"
      BY <1>0, <1>3 DEF Thread, Channel
    <3> QED
      BY <1>0, <3>1 DEF Thread
  <2>5. \A i \in 1 .. Len(queue') : \/ i \in 1 .. Len(queue) /\ queue'[i] = queue[i]
                                    \/ i = Len(queue) + 1 /\ queue'[i] = sent + 1
    BY <1>1, <2>1
  <2>6. AllSent'
    <3>1. /\ \A i \in 1 .. Len(queue') : queue'[i] <= sent + 1
          /\ \A i \in 1 .. Len(got) : got[i] <= sent + 1
          /\ \A t \in Starters : hand[t] <= sent + 1
      BY <1>0, <1>1, <2>5 DEF AllSent
    <3> QED
      BY <1>0, <3>1 DEF AllSent
  <2>7. InOrder'
    <3>0. /\ \A i \in 1 .. Len(queue) : queue[i] <= sent
          /\ \A i \in 1 .. Len(got) : got[i] <= sent
          /\ \A t \in Starters : hand[t] <= sent
      BY <1>0 DEF AllSent
    <3>1. \A i, j \in 1 .. Len(queue') : i < j => queue'[i] < queue'[j]
      <4>1. \A i, j \in 1 .. Len(queue) : i < j => queue[i] < queue[j]
        BY <1>0 DEF InOrder
      <4>2. ASSUME NEW i \in 1 .. Len(queue'), NEW j \in 1 .. Len(queue'), i < j
            PROVE  queue'[i] < queue'[j]
        <5>1. Len(queue) \in Nat /\ Len(queue') = Len(queue) + 1 /\ i \in 1 .. Len(queue)
          BY ONLY <1>1, <2>1, <4>2
        <5>2. queue'[i] = queue[i]
          BY <2>1, <5>1
        <5>3. CASE j \in 1 .. Len(queue) /\ queue'[j] = queue[j]
          BY <4>1, <4>2, <5>1, <5>2, <5>3
        <5>4. CASE queue'[j] = sent + 1
          <6>1. queue[i] <= sent /\ queue[i] \in Nat /\ sent \in Nat
            BY <1>1, <3>0, <5>1
          <6> QED
            BY ONLY <5>2, <5>4, <6>1
        <5> QED
          BY <2>5, <5>3, <5>4
      <4> QED
        BY ONLY <4>2
    <3>2. \A i \in 1 .. Len(queue') : \A t \in Starters : hand[t] < queue'[i]
      <4>1. \A i \in 1 .. Len(queue) : \A t \in Starters : hand[t] < queue[i]
        BY <1>0 DEF InOrder
      <4>2. ASSUME NEW i \in 1 .. Len(queue'), NEW t \in Starters
            PROVE  hand[t] < queue'[i]
        <5>1. CASE i \in 1 .. Len(queue) /\ queue'[i] = queue[i]
          BY <4>1, <5>1
        <5>2. CASE queue'[i] = sent + 1
          <6>1. hand[t] <= sent /\ hand[t] \in Nat /\ sent \in Nat
            BY <1>1, <3>0
          <6> QED
            BY ONLY <5>2, <6>1
        <5> QED
          BY <2>5, <5>1, <5>2
      <4> QED
        BY ONLY <4>2
    <3>3. \A i \in 1 .. Len(got) : \A j \in 1 .. Len(queue') : got[i] < queue'[j]
      <4>1. \A i \in 1 .. Len(got) : \A j \in 1 .. Len(queue) : got[i] < queue[j]
        BY <1>0 DEF InOrder
      <4>2. ASSUME NEW i \in 1 .. Len(got), NEW j \in 1 .. Len(queue')
            PROVE  got[i] < queue'[j]
        <5>1. CASE j \in 1 .. Len(queue) /\ queue'[j] = queue[j]
          BY <4>1, <5>1
        <5>2. CASE queue'[j] = sent + 1
          <6>1. got[i] <= sent /\ got[i] \in Nat /\ sent \in Nat
            BY <1>1, <3>0
          <6> QED
            BY ONLY <5>2, <6>1
        <5> QED
          BY <2>5, <5>1, <5>2
      <4> QED
        BY ONLY <4>2
    <3> QED
      BY <1>0, <3>1, <3>2, <3>3 DEF InOrder
  <2>8. Accounted'
    <3>1. packets + drops = sent /\ packets = Len(got) + Holding + Len(queue)
      BY <1>0 DEF Accounted
    <3>2. packets' + drops' = sent' /\ packets' = Len(got') + Holding' + Len(queue')
      BY <1>0, <1>1, <2>1, <2>a, <3>1
    <3> QED
      BY <3>2 DEF Accounted
  <2> QED
    BY <1>2, <2>2, <2>4, <2>6, <2>7, <2>8 DEF SenderInv
<1>4. CASE drops' = drops + 1 /\ UNCHANGED <<queue, packets>>
  <2>1. SenderTypeOK'
    <3>1. drops' \in Nat
      BY <1>1, <1>4
    <3> QED
      BY <1>0, <1>2, <1>4, <3>1 DEF SenderTypeOK
  <2>4. Thread' /\ InOrder'
    BY <1>0, <1>4 DEF Thread, InOrder
  <2>2. AllSent'
    BY <1>0, <1>1, <1>4 DEF AllSent
  <2>3. Accounted'
    BY <1>0, <1>1, <1>4, SMTT(30) DEF Accounted
  <2> QED
    BY <1>2, <2>1, <2>2, <2>3, <2>4 DEF SenderInv
<1> QED
  BY <1>3, <1>4 DEF Input

(* The goroutine takes the oldest packet to the handler. *)
LEMMA TakeKeeps == \A t \in Starters : SenderInv /\ Take(t) => SenderInv'
<1> SUFFICES ASSUME NEW t \in Starters, SenderInv, Take(t) PROVE SenderInv'
  OBVIOUS
<1> USE SenderAssumption DEF SenderInv, Take
<1>0. /\ queue \in Seq(Packets) /\ got \in Seq(Packets) /\ Len(got) \in Nat /\ queue # <<>>
      /\ hand \in [Starters -> 0 .. MaxInputs] /\ worker[t] = "run" /\ hand[t] = 0
      /\ \A i \in 1 .. Len(got) : got[i] \in Packets
  BY LenProperties DEF SenderTypeOK, Packets
<1>1. /\ queue' \in Seq(Packets) /\ Len(queue) \in Nat \ {0} /\ Len(queue') = Len(queue) - 1
      /\ \A i \in 1 .. Len(queue) - 1 : queue'[i] = queue[i + 1]
      /\ \A i \in 1 .. Len(queue) : queue[i] \in Packets
      /\ hand' = [hand EXCEPT ![t] = queue[1]] /\ queue[1] \in Packets
  BY <1>0, TailAt
<1>2. \A u \in Starters : u # t => hand[u] = 0 /\ hand'[u] = 0
  BY <1>0, <1>1 DEF Thread
<1>3. /\ hand'[t] = queue[1] /\ queue[1] # 0
      /\ \A i \in 1 .. Len(queue') : i + 1 \in 1 .. Len(queue) /\ queue'[i] = queue[i + 1]
  BY <1>0, <1>1 DEF Packets
<1>4. SenderTypeOK'
  BY <1>0, <1>1 DEF SenderTypeOK, Packets
<1>5. Channel'
  BY DEF Channel
<1>6. Thread'
  BY <1>0, <1>1, <1>2 DEF Thread
<1>7. AllSent'
  BY <1>1, <1>2, <1>3 DEF AllSent, SenderTypeOK, Packets
<1>8. InOrder'
  <2>1. \A i \in 1 .. Len(got') : \A u \in Starters : hand'[u] # 0 => got'[i] < hand'[u]
    BY <1>0, <1>1, <1>2, <1>3 DEF InOrder
  <2>2. \A i \in 1 .. Len(queue') : \A u \in Starters : hand'[u] < queue'[i]
    BY <1>0, <1>1, <1>2, <1>3 DEF InOrder, Packets
  <2>3. \A i \in 1 .. Len(got') : \A j \in 1 .. Len(queue') : got'[i] < queue'[j]
    BY <1>0, <1>1, <1>3 DEF InOrder
  <2>4. \A i, j \in 1 .. Len(queue') : i < j => queue'[i] < queue'[j]
    BY <1>1, <1>3 DEF InOrder
  <2> QED
    BY <2>1, <2>2, <2>3, <2>4 DEF InOrder
<1>9. Accounted'
  <2>1. Holding = 0 /\ Holding' = 1
    BY <1>0, <1>2, <1>3 DEF Holding
  <2> QED
    BY <1>0, <1>1, <2>1 DEF Accounted, SenderTypeOK
<1> QED
  BY <1>4, <1>5, <1>6, <1>7, <1>8, <1>9

(* The handler is through with a packet newer than those before it. *)
LEMMA OutputKeeps == \A t \in Starters : SenderInv /\ Output(t) => SenderInv'
<1> SUFFICES ASSUME NEW t \in Starters, SenderInv, Output(t) PROVE SenderInv'
  OBVIOUS
<1> USE SenderAssumption DEF SenderInv, Output
<1>0. /\ queue \in Seq(Packets) /\ got \in Seq(Packets) /\ Len(queue) \in Nat
      /\ hand \in [Starters -> 0 .. MaxInputs] /\ hand[t] \in Packets /\ worker[t] = "run"
      /\ \A i \in 1 .. Len(queue) : queue[i] \in Packets
  BY LenProperties DEF SenderTypeOK, Packets, Thread
<1>1. /\ got' \in Seq(Packets) /\ Len(got) \in Nat /\ Len(got') = Len(got) + 1
      /\ \A i \in 1 .. Len(got) : got'[i] = got[i] /\ got[i] \in Packets
      /\ got'[Len(got) + 1] = hand[t]
  BY <1>0, AppendAt
<1>2. \A u \in Starters : hand'[u] = 0 /\ (u # t => hand[u] = 0)
  BY <1>0 DEF Thread
<1>3. \A i \in 1 .. Len(got') : \/ i \in 1 .. Len(got) /\ got'[i] = got[i]
                                \/ i = Len(got) + 1 /\ got'[i] = hand[t]
  BY <1>1
<1>4. SenderTypeOK'
  BY <1>0, <1>1 DEF SenderTypeOK, Packets
<1>5. Channel'
  BY DEF Channel
<1>6. Thread'
  BY <1>0, <1>2 DEF Thread
<1>7. AllSent'
  BY <1>0, <1>1, <1>2, <1>3 DEF AllSent, SenderTypeOK, Packets
<1>8. InOrder'
  <2>1. \A i \in 1 .. Len(got') : \A u \in Starters : hand'[u] # 0 => got'[i] < hand'[u]
    BY <1>2
  <2>2. \A i \in 1 .. Len(queue') : \A u \in Starters : hand'[u] < queue'[i]
    BY <1>0, <1>2 DEF Packets
  <2>3. \A i \in 1 .. Len(got') : \A j \in 1 .. Len(queue') : got'[i] < queue'[j]
    BY <1>0, <1>1, <1>3 DEF InOrder
  <2>4. \A i, j \in 1 .. Len(got') : i < j => got'[i] < got'[j]
    BY <1>0, <1>1, <1>3 DEF InOrder, Packets
  <2> QED
    BY <2>1, <2>2, <2>3, <2>4 DEF InOrder
<1>9. Accounted'
  <2>1. Holding = 1 /\ Holding' = 0
    BY <1>0, <1>2 DEF Holding, Packets
  <2> QED
    BY <1>0, <1>1, <2>1 DEF Accounted, SenderTypeOK
<1> QED
  BY <1>4, <1>5, <1>6, <1>7, <1>8, <1>9

(* The other steps leave the packets alone. *)
LEMMA SenderStep == SenderInv /\ [SenderNext]_senderVars => SenderInv'
<1> SUFFICES ASSUME SenderInv, [SenderNext]_senderVars PROVE SenderInv'
  OBVIOUS
<1>a. ASSUME UNCHANGED <<queue, sent, packets, drops, hand, got>>, SenderTypeOK', Channel', Thread'
      PROVE  SenderInv'
  BY <1>a DEF SenderInv, AllSent, InOrder, Accounted, Holding
<1>1. CASE Close
  <2>1. SenderTypeOK' /\ Channel' /\ Thread'
    BY <1>1 DEF Close, SenderInv, SenderTypeOK, Channel, Thread
  <2> QED
    BY <1>1, <1>a, <2>1 DEF Close
<1>2. ASSUME NEW t \in Starters, Start(t) PROVE SenderInv'
  <2>1. SenderTypeOK' /\ Channel'
    BY <1>2 DEF Start, SenderInv, SenderTypeOK, Channel
  <2>2. Thread'
    BY <1>2 DEF Start, SenderInv, SenderTypeOK, Thread
  <2> QED
    BY <1>2, <1>a, <2>1, <2>2 DEF Start
<1>3. ASSUME NEW t \in Starters, Exit(t) PROVE SenderInv'
  <2>1. SenderTypeOK'
    BY <1>3 DEF Exit, SenderInv, SenderTypeOK
  <2>2. done # "closed"
    BY <1>3 DEF Exit, SenderInv, Thread
  <2>3. Channel'
    BY <1>3, <2>2 DEF Exit, SenderInv, Channel
  <2>4. Thread'
    BY <1>3 DEF Exit, SenderInv, SenderTypeOK, Thread
  <2> QED
    BY <1>3, <1>a, <2>1, <2>3, <2>4 DEF Exit
<1>4. ASSUME NEW w \in Waiters, BeginWait(w) \/ EndWait(w) PROVE SenderInv'
  <2>1. SenderTypeOK' /\ Channel'
    <3>1. waiter' \in [Waiters -> {"new", "wait", "skipped", "returned"}]
      BY <1>4 DEF BeginWait, EndWait, SenderInv, SenderTypeOK
    <3> QED
      BY <1>4, <3>1 DEF BeginWait, EndWait, SenderInv, SenderTypeOK, Channel
  <2>2. Thread'
    BY <1>4 DEF BeginWait, EndWait, SenderInv, SenderTypeOK, Thread
  <2> QED
    BY <1>4, <1>a, <2>1, <2>2 DEF BeginWait, EndWait
<1>5. CASE UNCHANGED senderVars
  BY <1>5, <1>a DEF senderVars, SenderInv, SenderTypeOK, Channel, Thread
<1> QED
  BY <1>1, <1>2, <1>3, <1>4, <1>5, InputKeeps, TakeKeeps, OutputKeeps DEF SenderNext, Work, SenderQuiet

(* The invariant holds in every reachable state. *)
LEMMA SenderInductive == SenderSpec => []SenderInv
  BY SenderInitial, SenderStep, PTL DEF SenderSpec

(* No send on a closed channel and no second close of one, whoever calls   *)
(* Input, Start and Close (track.go:99-110, 133-149, 167-177).             *)
THEOREM NoPanicSafe == SenderSpec => []NoPanic
<1>1. SenderInv => NoPanic
  BY DEF SenderInv, Channel, NoPanic
<1>2. QED
  BY <1>1, SenderInductive, PTL

(* The consumer gets the packets in the order of the source                *)
(* (track.go:99-113, 143-148).                                             *)
THEOREM InOrderSafe == SenderSpec => []InOrder
<1>1. SenderInv => InOrder
  BY DEF SenderInv
<1>2. QED
  BY <1>1, SenderInductive, PTL

(* When Wait returns, the handler has had every accepted packet            *)
(* (track.go:143-155).                                                     *)
THEOREM WaitDrained == SenderSpec => []WaitMeansDrained
<1>1. SenderInv => WaitMeansDrained
  <2> SUFFICES ASSUME SenderInv, NEW w \in Waiters, waiter[w] = "returned"
               PROVE  ~ field /\ packets = Len(got)
    BY DEF WaitMeansDrained
  <2>1. PICK t \in Starters : worker[t] = "end"
    BY DEF SenderInv, Thread
  <2>2. closed /\ queue = <<>> /\ \A u \in Starters : hand[u] = 0
    BY <2>1 DEF SenderInv, Thread
  <2>3. Len(queue) = 0 /\ Len(got) \in Nat
    BY <2>2, EmptySeq, LenProperties DEF SenderInv, SenderTypeOK
  <2> QED
    BY <2>2, <2>3 DEF SenderInv, Channel, Accounted, Holding
<1>2. QED
  BY <1>1, SenderInductive, PTL
-----------------------------------------------------------------------------
Closed == \E c \in Closers : closer[c] = "closed"

(* Sequences: appending at the end of the second part, and joining the two *)
(* halves of a sequence.                                                   *)
LEMMA AppendAfter ==
  ASSUME NEW E, NEW s \in Seq(E), NEW t \in Seq(E), NEW e \in E
  PROVE  s \o Append(t, e) = Append(s \o t, e)
<1>1. /\ Append(t, e) = t \o <<e>>
      /\ s \o t \in Seq(E)
      /\ <<e>> \in Seq(E)
  BY AppendIsConcat, ConcatProperties
<1>2. Append(s \o t, e) = (s \o t) \o <<e>>
  BY <1>1, AppendIsConcat, SMTT(30)
<1> QED
  BY <1>1, <1>2, ConcatAssociative

LEMMA SplitAt ==
  ASSUME NEW E, NEW s \in Seq(E), NEW num \in 0 .. Len(s)
  PROVE  /\ SubSeq(s, 1, num) \in Seq(E) /\ SubSeq(s, num + 1, Len(s)) \in Seq(E)
         /\ SubSeq(s, 1, num) \o SubSeq(s, num + 1, Len(s)) = s
<1>1. /\ Len(s) \in Nat /\ 1 \in 1 .. Len(s) + 1 /\ num \in 1 - 1 .. Len(s)
      /\ Len(s) \in num .. Len(s)
  BY LenProperties
<1>2. SubSeq(s, 1, num) \o SubSeq(s, num + 1, Len(s)) = SubSeq(s, 1, Len(s))
  BY <1>1, ConcatAdjacentSubSeq
<1>3. SubSeq(s, 1, Len(s)) = s
  BY SubSeqFull
<1>4. /\ \A i \in 1 .. num : i \in 1 .. Len(s)
      /\ \A i \in num + 1 .. Len(s) : i \in 1 .. Len(s)
  BY <1>1
<1>5. SubSeq(s, 1, num) \in Seq(E) /\ SubSeq(s, num + 1, Len(s)) \in Seq(E)
  BY <1>1, <1>4, SubSeqProperties
<1> QED
  BY <1>2, <1>3, <1>5

(* Who has ended the WaitGroup, and what WriteTo is waiting for. *)
Ends ==
  /\ bufState = "end" => bufErr \/ Closed
  /\ reader # "new" => bufState # "none"
  /\ reader = "returned" => bufState = "end"

(* The client is only written to, and only fails, after the switch. *)
Switched ==
  /\ writer = "buffer" => out = <<>> /\ ~ bufErr
  /\ reader = "new" <=> writer = "buffer"

Numbers(num) == [i \in 1 .. num |-> i]

(* Every write so far was accepted, as long as none failed. *)
Offered == ~ bufErr => offered = written

BufferInv == BufferTypeOK /\ CountedOnce /\ Ends /\ Switched /\ Offered

(* The counters and the switch: what a step changes, without the data. *)
LEMMA BufferInitial == BufferInit => BufferInv
<1>1. <<>> \in Seq(Nat)
  BY EmptySeq
<1>2. ASSUME BufferInit PROVE BufferTypeOK
  <2>1. buf \in Seq(Nat) /\ out \in Seq(Nat)
    BY <1>1, <1>2 DEF BufferInit
  <2>2. offered \in Nat /\ written \in 0 .. offered /\ bufWg \in Nat
    BY <1>2 DEF BufferInit
  <2> QED
    BY <1>2, <2>1, <2>2 DEF BufferInit, BufferTypeOK
<1>3. BufferInit => CountedOnce /\ Ends /\ Switched /\ Offered
  BY DEF BufferInit, CountedOnce, Ends, Switched, Offered
<1>4. QED
  BY <1>2, <1>3 DEF BufferInv

(* Every step of the writers, of WriteTo and of Close keeps the invariant. *)
LEMMA BufferStep == BufferInv /\ [BufferNext]_bufferVars => BufferInv'
<1> SUFFICES ASSUME BufferInv, [BufferNext]_bufferVars PROVE BufferInv'
  OBVIOUS
<1> USE DEF BufferInv, BufferTypeOK, CountedOnce, Ends, Switched, Offered, Closed
<1>1. CASE Write
  <2>1. buf' \in Seq(Nat) /\ out' \in Seq(Nat)
    <3>1. offered + 1 \in Nat
      BY <1>1 DEF Write
    <3>2. /\ Append(buf, offered + 1) \in Seq(Nat)
          /\ Append(out, offered + 1) \in Seq(Nat)
      BY <3>1, AppendProperties
    <3> QED
      BY <1>1, <3>2 DEF Write, Fail
  <2>2. /\ offered' \in Nat /\ written' \in 0 .. offered'
        /\ UNCHANGED <<writer, closable, shut, reader, closer>>
    BY <1>1 DEF Write
  <2>3. CASE UNCHANGED <<bufErr, bufState, bufWg>> /\ (bufErr \/ written' = written + 1)
    <3>1. Switched' /\ Offered'
      BY <1>1, <2>2, <2>3 DEF Write
    <3> QED
      BY <2>1, <2>2, <2>3, <3>1
  <2>4. CASE writer = "client" /\ Fail
    BY <2>1, <2>2, <2>4 DEF Fail, StateDone, CountDone
  <2> QED
    BY <1>1, <2>3, <2>4 DEF Write
<1>2. CASE WriteTo
  <2>1. buf' \in Seq(Nat) /\ out' \in Seq(Nat)
    <3>1. \A num \in 0 .. Len(buf) - 1 : num \in 0 .. Len(buf)
      BY LenProperties
    <3>2. \A num \in 0 .. Len(buf) - 1 :
            /\ SubSeq(buf, 1, num) \in Seq(Nat)
            /\ SubSeq(buf, num + 1, Len(buf)) \in Seq(Nat)
      BY <3>1, SplitAt
    <3>3. ASSUME NEW t \in Seq(Nat) PROVE out \o t \in Seq(Nat)
      BY ConcatProperties
    <3> QED
      BY <1>2, <3>2, <3>3, EmptySeq DEF WriteTo, Reset
  <2>2. /\ reader = "new" /\ reader' = "wait" /\ writer' = "client"
        /\ UNCHANGED <<written, offered, closable, shut, closer>>
    BY <1>2 DEF WriteTo, Reset
  <2>3. CASE bufState' = StateAdded /\ bufWg' = CountAdded /\ UNCHANGED bufErr
    BY <2>1, <2>2, <2>3 DEF StateAdded, CountAdded
  <2>4. CASE bufErr' = TRUE /\ bufState' = StateDone(StateAdded)
             /\ bufWg' = CountDone(StateAdded, CountAdded)
    BY <2>1, <2>2, <2>4 DEF StateAdded, CountAdded, StateDone, CountDone
  <2> QED
    BY <1>2, <2>3, <2>4 DEF WriteTo, Reset
<1>3. CASE Return
  BY <1>3 DEF Return
<1>4. ASSUME NEW c \in Closers, CloseWriter(c) PROVE BufferInv'
  BY <1>4 DEF CloseWriter
<1>5. ASSUME NEW c \in Closers, CloseBuffer(c) PROVE BufferInv'
  BY <1>5 DEF CloseBuffer, StateDone, CountDone
<1>6. CASE UNCHANGED bufferVars
  BY <1>6 DEF bufferVars
<1> QED
  BY <1>1, <1>2, <1>3, <1>4, <1>5, <1>6 DEF BufferNext, BufferQuiet

(* The invariant holds in every reachable state. *)
LEMMA BufferInductive == BufferSpec => []BufferInv
  BY BufferInitial, BufferStep, PTL DEF BufferSpec

(* Neither two failures nor two Close calls leave the WaitGroup twice      *)
(* (writebuffer.go:75-87).                                                 *)
THEOREM CountSafe == BufferSpec => []CountedOnce
<1>1. BufferInv => CountedOnce
  BY DEF BufferInv
<1>2. QED
  BY <1>1, BufferInductive, PTL

(* WriteTo stays locked until a write fails or Close is called             *)
(* (writebuffer.go:44-48).                                                 *)
THEOREM LockedSafe == BufferSpec => []LockedUntilEnd
<1>1. BufferInv => LockedUntilEnd
  BY DEF BufferInv, Ends, Closed, LockedUntilEnd
<1>2. QED
  BY <1>1, BufferInductive, PTL
-----------------------------------------------------------------------------
(* The data: the client has a prefix of what was written, and the buffer   *)
(* has the rest.                                                           *)
LEMMA NumbersGrow ==
  ASSUME NEW num \in Nat PROVE Append(Numbers(num), num + 1) = Numbers(num + 1)
  BY DEF Numbers

(* A step appends the next number at the end or moves the border between   *)
(* what the client has and what is kept.                                   *)
LEMMA DataStep == BufferInv /\ NothingLost /\ [BufferNext]_bufferVars => NothingLost'
<1> SUFFICES ASSUME BufferInv, NothingLost, [BufferNext]_bufferVars PROVE NothingLost'
  OBVIOUS
<1>0. /\ buf \in Seq(Nat) /\ out \in Seq(Nat)
      /\ written \in Nat /\ offered \in Nat /\ out \o buf = Numbers(written)
  BY DEF BufferInv, BufferTypeOK, NothingLost, Numbers
<1> USE DEF NothingLost
<1>1. CASE Write
  <2>1. CASE UNCHANGED <<buf, out, written>>
    BY <1>1, <2>1 DEF Write, Fail
  <2>2. CASE ~ bufErr /\ offered = written /\ written' = written + 1 /\ UNCHANGED <<bufErr, writer>>
             /\ \/ writer = "buffer" /\ buf' = Append(buf, written + 1) /\ UNCHANGED out
                \/ writer = "client" /\ out' = Append(out, written + 1) /\ UNCHANGED buf
    <3>1. out' \o buf' = Append(out \o buf, written + 1)
      <4>1. CASE writer = "buffer"
        <5>1. written + 1 \in Nat
          BY <1>1, <2>2 DEF Write, BufferInv, BufferTypeOK
        <5>2. out \o Append(buf, written + 1) = Append(out \o buf, written + 1)
          <6> DEFINE E == Nat
                     e == written + 1
          <6>1. buf \in Seq(E) /\ out \in Seq(E) /\ e \in E
            BY <1>0, <5>1
          <6> HIDE DEF E, e
          <6>2. out \o Append(buf, e) = Append(out \o buf, e)
            BY ONLY <6>1, AppendAfter
          <6> QED
            BY <6>2 DEF e
        <5> QED
          BY <2>2, <4>1, <5>2
      <4>2. CASE writer = "client" /\ out' = Append(out, written + 1) /\ UNCHANGED buf
        <5>1. buf = <<>>
          BY <2>2, <4>2
        <5>2. Append(out, written + 1) \in Seq(Nat)
          <6>1. written + 1 \in Nat
            BY <1>1, <2>2 DEF Write, BufferInv, BufferTypeOK
          <6> QED
            BY <1>0, <6>1, AppendProperties
        <5>3. out \o <<>> = out /\ Append(out, written + 1) \o <<>> = Append(out, written + 1)
          BY <1>0, <5>2, ConcatEmptySeq
        <5> QED
          BY <4>2, <5>1, <5>3
      <4> QED
        BY <2>2, <4>1, <4>2
    <3>2. out' \o buf' = Numbers(written')
      BY <1>0, <2>2, <3>1, NumbersGrow
    <3> QED
      BY <2>2, <3>2 DEF Numbers
  <2> QED
    BY <1>1, <2>1, <2>2 DEF Write, Fail, BufferInv, Offered
<1>2. CASE WriteTo
  <2>1. CASE out' = out \o buf /\ buf' = <<>>
    <3>1. out' \o buf' = out \o buf
      <4>1. out \o buf \in Seq(Nat)
        BY <1>0, ConcatProperties
      <4>2. (out \o buf) \o <<>> = out \o buf
        BY <4>1, ConcatEmptySeq
      <4> QED
        BY <2>1, <4>2
    <3> QED
      BY <1>2, <2>1, <3>1 DEF WriteTo
  <2>2. CASE bufErr'
    <3>1. PICK num \in 0 .. Len(buf) - 1 :
            /\ out' = out \o SubSeq(buf, 1, num)
            /\ buf' = SubSeq(buf, num + 1, Len(buf))
      BY <1>2, <2>2 DEF WriteTo, Reset, BufferInv, Switched
    <3>2. out = <<>>
      BY <1>2 DEF WriteTo, BufferInv, Switched
    <3> DEFINE kept == SubSeq(buf, 1, num)
               left == SubSeq(buf, num + 1, Len(buf))
    <3>4. kept \in Seq(Nat) /\ kept \o left = buf
      <4>1. num \in 0 .. Len(buf)
        BY <1>0, LenProperties
      <4> QED
        BY <1>0, <4>1, SplitAt
    <3>5. out \o kept = kept /\ out \o buf = buf
      BY <1>0, <3>2, <3>4, ConcatEmptySeq
    <3>3. out' \o buf' = out \o buf
      BY <3>1, <3>4, <3>5
    <3> QED
      BY <1>2, <2>2, <3>3 DEF WriteTo
  <2> QED
    BY <1>2, <2>1, <2>2 DEF WriteTo, Reset, BufferInv, BufferTypeOK
<1>3. CASE Return
  BY <1>3 DEF Return
<1>4. ASSUME NEW c \in Closers, CloseWriter(c) \/ CloseBuffer(c) PROVE NothingLost'
  BY <1>4 DEF CloseWriter, CloseBuffer
<1>5. CASE UNCHANGED bufferVars
  BY <1>5 DEF bufferVars
<1> QED
  BY <1>1, <1>2, <1>3, <1>4, <1>5 DEF BufferNext, BufferQuiet

(* What was written reaches the client from its beginning, in order and    *)
(* without a gap, across the switch of the writers (writebuffer.go:60-71). *)
THEOREM NothingLostSafe == BufferSpec => []NothingLost
<1>1. BufferInit => NothingLost
  BY DEF BufferInit, NothingLost
<1>2. QED
  BY <1>1, DataStep, BufferInductive, PTL DEF BufferSpec
-----------------------------------------------------------------------------
(* The run's specification, without its fairness. *)
LEMMA PartsMove == PartsSpec => PartsInit /\ [][PartsNext]_vars
  BY PTL DEF PartsSpec

-----------------------------------------------------------------------------
(* RingApi *)

(* What the run does to RingApi. *)
RingMove == A!Init /\ [][A!Next]_ringVars
LEMMA RingMoves == PartsSpec => RingMove
<1>1. PartsInit => A!Init
  BY DEF PartsInit
<1>2. [PartsNext]_vars => [A!Next]_ringVars
  BY DEF PartsNext, vars, ringVars
<1> QED
  BY <1>1, <1>2, PartsMove, PTL DEF RingMove

RingTypeOK ==
  /\ token \in BOOLEAN /\ tokenFresh \in BOOLEAN
  /\ rSession \in BOOLEAN /\ rSessionFresh \in BOOLEAN
  /\ rAt \in [Callers -> {"idle", "ensure", "auth", "refresh", "post", "header", "send",
                          "unauthorized", "reset"}]
  /\ refused \in [Callers -> {"no", "401", "404"}]
  /\ unchanged \in [Callers -> SUBSET {"token", "session"}]

(* What a caller would send again is gone from the client, until somebody  *)
(* makes a new one; a 404 leaves the caller its token.                     *)
Dropped(c) ==
  /\ "token" \in unchanged[c] =>
       refused[c] # "404" /\ (rAt[c] = "unauthorized" \/ token = FALSE)
  /\ "session" \in unchanged[c] => rAt[c] \in {"unauthorized", "reset"} \/ rSession = FALSE
  /\ rAt[c] = "header" => "session" \notin unchanged[c]
  /\ rAt[c] = "send" => unchanged[c] = {}

RingInv == RingTypeOK /\ \A c \in Callers : rAt[c] # "idle" => Dropped(c)

(* Nobody has asked yet. *)
LEMMA RingInit == A!Init => RingInv
  BY DEF A!Init, RingInv, RingTypeOK

(* Steps that drop a token or a session, or make one, are seen by every    *)
(* caller; the others change one caller's place.                           *)
LEMMA RingStep == RingInv /\ [A!Next]_ringVars => RingInv'
<1> SUFFICES ASSUME RingInv, [A!Next]_ringVars PROVE RingInv'
  OBVIOUS
<1> USE DEF RingInv, RingTypeOK, Dropped, A!Goto, A!At, A!apiState, A!apiMutexes
<1>1. CASE UNCHANGED ringVars
  BY <1>1 DEF ringVars
<1>2. CASE A!Expire
  BY <1>2 DEF A!Expire
<1>3. ASSUME NEW c \in Callers, A!Request(c) PROVE RingInv'
  BY <1>3 DEF A!Request
<1>4. ASSUME NEW c \in Callers, A!Header(c) PROVE RingInv'
  BY <1>4 DEF A!Header, A!Crash
<1>5. ASSUME NEW c \in Callers, A!Answered(c) PROVE RingInv'
  BY <1>5 DEF A!Answered, A!Returns
<1>6. ASSUME NEW c \in Callers, A!Unauthorized(c) PROVE RingInv'
  BY <1>6 DEF A!Unauthorized
<1>7. ASSUME NEW c \in Callers, A!NotFound(c) PROVE RingInv'
  BY <1>7 DEF A!NotFound
<1>8. ASSUME NEW c \in Callers, A!EnsureSession(c) PROVE RingInv'
  BY <1>8 DEF A!EnsureSession
<1>9. ASSUME NEW c \in Callers, A!EnsureAuth(c) PROVE RingInv'
  BY <1>9 DEF A!EnsureAuth
<1>10. ASSUME NEW c \in Callers, A!Refresh(c) PROVE RingInv'
  <2>1. CASE A!Renewed("token")
    <3>1. unchanged' = [d \in Callers |-> unchanged[d] \ {"token"}]
      BY <2>1 DEF A!Renewed
    <3> QED
      BY <1>10, <3>1 DEF A!Refresh, A!Returns
  <2>2. CASE A!Returns(c) /\ UNCHANGED <<token, tokenFresh, unchanged>>
    BY <1>10, <2>2 DEF A!Refresh, A!Returns
  <2> QED
    BY <1>10, <2>1, <2>2 DEF A!Refresh
<1>11. ASSUME NEW c \in Callers, A!PostSession(c) PROVE RingInv'
  <2>1. CASE /\ rSession' = TRUE /\ rSessionFresh' = TRUE /\ A!Renewed("session")
             /\ A!Goto(c, IF refused[c] = "404" THEN "send" ELSE "header")
             /\ UNCHANGED <<token, tokenFresh, refused>>
    <3>1. unchanged' = [d \in Callers |-> unchanged[d] \ {"session"}]
      BY <2>1 DEF A!Renewed
    <3> QED
      BY <1>11, <2>1, <3>1 DEF A!PostSession
  <2>2. CASE A!Returns(c) /\ UNCHANGED <<rSession, rSessionFresh, unchanged>>
    BY <1>11, <2>2 DEF A!PostSession, A!Returns, A!Crash
  <2>3. CASE A!Crash
    BY <2>3 DEF A!Crash
  <2> QED
    BY <1>11, <2>1, <2>2, <2>3 DEF A!PostSession
<1>12. ASSUME NEW c \in Callers, A!ResetToken(c) PROVE RingInv'
  BY <1>12 DEF A!ResetToken, A!Returns
<1>13. ASSUME NEW c \in Callers, A!ResetSession(c) PROVE RingInv'
  BY <1>13 DEF A!ResetSession, A!Returns
<1> QED
  BY <1>1, <1>2, <1>3, <1>4, <1>5, <1>6, <1>7, <1>8, <1>9, <1>10, <1>11, <1>12, <1>13
  DEF A!Next

(* A try that follows a refused one goes out with a session, and after a   *)
(* 401 a token, that were made since, whatever other callers drop or make  *)
(* in between (pkg/ring/api.go, Request).                                  *)
THEOREM RetryRenewedSafe == PartsSpec => []RetryRenewed
<1>1. RingInv => RetryRenewed
  BY DEF RingInv, Dropped, RetryRenewed, A!RetryRenewed
<1> QED
  BY <1>1, RingInit, RingStep, RingMoves, PTL DEF RingMove
-----------------------------------------------------------------------------
(* Sessions *)

(* What the run does to Sessions. *)
UserMove == U!Init /\ [][U!Next]_userVars

LEMMA UserMoves == PartsSpec => UserMove
<1>1. PartsInit => U!Init
  BY DEF PartsInit
<1>2. [PartsNext]_vars => [U!Next]_userVars
  BY DEF PartsNext, vars, userVars
<1> QED
  BY <1>1, <1>2, PartsMove, PTL DEF UserMove

(* The map has an entry for every token, and only tokens are given out.    *)
UserInv == name = [t \in Tokens |-> name[t]] /\ used \subseteq Tokens

(* At first no token has been given out. *)
LEMMA UserInit == U!Init => UserInv
  BY DEF U!Init, UserInv

(* What a step may do to the map: a login takes a token that was never     *)
(* given out, and everything else leaves a token without a session alone.  *)
LEMMA UserSteps ==
  UserInv /\ [U!Next]_userVars =>
    /\ UserInv'
    /\ \A t \in used : name[t] = None => name'[t] = None
<1> SUFFICES ASSUME UserInv, [U!Next]_userVars
             PROVE  UserInv' /\ \A t \in used : name[t] = None => name'[t] = None
  OBVIOUS
<1> USE DEF UserInv
<1>1. ASSUME NEW h \in Tabs, U!CreateSession(h)
      PROVE  UserInv' /\ \A t \in used : name[t] = None => name'[t] = None
  BY <1>1 DEF U!CreateSession
<1>2. ASSUME NEW h \in Tabs, U!Rename(h)
      PROVE  UserInv' /\ \A t \in used : name[t] = None => name'[t] = None
  BY <1>2 DEF U!Rename
<1>3. ASSUME NEW t \in Tokens, U!DeleteSession(t) \/ U!Forget(t)
      PROVE  UserInv' /\ \A k \in used : name[k] = None => name'[k] = None
  BY <1>3 DEF U!DeleteSession, U!Forget
<1>4. CASE U!Restart
  BY <1>4 DEF U!Restart
<1>5. CASE UNCHANGED <<name, used>>
  BY <1>5
<1>6. ASSUME NEW h \in Tabs,
             \/ U!Authenticate(h) \/ (\E t \in Tokens : U!Put(h, t))
             \/ U!UpdateName(h) \/ U!UpdatePassword(h) \/ U!UpdateFails(h)
      PROVE  UNCHANGED <<name, used>>
  BY <1>6 DEF U!Authenticate, U!Put, U!UpdateName, U!UpdatePassword, U!UpdateFails
<1>7. ASSUME NEW t \in Tokens, U!Expire(t) PROVE UNCHANGED <<name, used>>
  BY <1>7 DEF U!Expire
<1> QED
  BY <1>1, <1>2, <1>3, <1>4, <1>5, <1>6, <1>7 DEF U!Next, userVars

(* No handler that found a session earlier brings it back when it is over  *)
(* (internal/cctv, updateUser and getSession).                             *)
THEOREM LoggedOutSafe == PartsSpec => LoggedOut
<1> DEFINE Over == \A t \in used : name[t] = None => name'[t] = None
<1>1. UserInv /\ [U!Next]_userVars => UserInv' /\ [Over]_(U!user)
  BY UserSteps
<1> QED
  BY <1>1, UserInit, UserMoves, PTL DEF UserMove, LoggedOut, U!LoggedOut
-----------------------------------------------------------------------------
(* Wyoming *)

(* What the run does to Wyoming. *)
WyomingMove == Y!Init /\ [][Y!Next]_wyomingVars

LEMMA WyomingMoves == PartsSpec => WyomingMove
<1>1. PartsInit => Y!Init
  BY DEF PartsInit
<1>2. [PartsNext]_vars => [Y!Next]_wyomingVars
  BY DEF PartsNext, vars, wyomingVars
<1> QED
  BY <1>1, <1>2, PartsMove, PTL DEF WyomingMove

(* Chunks come only to a microphone that is set; a satellite that is       *)
(* closed has no wake word service, and none can come back to it.          *)
WyomingInv ==
  /\ WakeKept
  /\ feed = "open" => mic = TRUE /\ micState # "closed"
  /\ micState = "new" => feed = "none"
  /\ micState = "closed" => wake = "none"
  /\ ~ handling => micState = "closed"

(* A satellite begins without a microphone and without a service. *)
LEMMA WyomingInit == Y!Init => WyomingInv
  BY DEF Y!Init, WyomingInv, WakeKept, Y!WakeKept

(* setMicState leaves a closed satellite closed and never waits for the    *)
(* wake word.                                                              *)
LEMMA MicSteps ==
  ASSUME WyomingInv, NEW s \in {"vad", "active", "idle"}, Y!SetMicState(s),
         UNCHANGED <<wake, handling>>
  PROVE  WyomingInv'
  BY DEF WyomingInv, WakeKept, Y!WakeKept, Y!SetMicState, Y!Running

(* micStop leaves no microphone and no service. *)
LEMMA StopSteps ==
  ASSUME WyomingInv, Y!MicStop PROVE WyomingInv'
  BY DEF WyomingInv, WakeKept, Y!WakeKept, Y!MicStop, Y!Asleep

(* Each step of a handler, a script or the wake word keeps them in step.   *)
LEMMA WyomingStep == WyomingInv /\ [Y!Next]_wyomingVars => WyomingInv'
<1> SUFFICES ASSUME WyomingInv, [Y!Next]_wyomingVars PROVE WyomingInv'
  OBVIOUS
<1>1. CASE UNCHANGED handling /\ (Y!Detect \/ Y!Stream \/ Y!Pause)
  BY <1>1, MicSteps DEF Y!Detect, Y!Stream, Y!Pause
<1>2. CASE Y!Stop \/ Y!Close
  BY <1>2, StopSteps DEF Y!Stop, Y!Close
<1>3. CASE UNCHANGED <<micState, mic, feed, wake, handling>>
  BY <1>3 DEF WyomingInv, WakeKept, Y!WakeKept
<1>4. CASE Y!HandleScript
  BY <1>1, <1>2, <1>3, <1>4 DEF Y!HandleScript
<1>5. ASSUME NEW j \in Jobs, Y!Call(j) PROVE WyomingInv'
  BY <1>1, <1>2, <1>3, <1>5 DEF Y!Call
<1>6. CASE Y!OnMicChunk
  BY <1>6 DEF Y!OnMicChunk, Y!Voice, Y!Listen, Y!WriteFails, Y!Asleep, WyomingInv, WakeKept,
              Y!WakeKept
<1>7. CASE Y!Drained \/ Y!WakeHears \/ Y!WakeEnds
  BY <1>7 DEF Y!Drained, Y!WakeHears, Y!WakeEnds, WyomingInv, WakeKept, Y!WakeKept
<1> QED
  BY <1>2, <1>3, <1>4, <1>5, <1>6, <1>7 DEF Y!Next, wyomingVars

(* In every state of the run. *)
LEMMA WyomingSafe == PartsSpec => []WyomingInv
  BY WyomingInit, WyomingStep, WyomingMoves, PTL DEF WyomingMove

(* A chunk never meets a satellite that waits for the wake word without a  *)
(* service, whatever scripts, events and failed writes do meanwhile        *)
(* (pkg/wyoming/satellite.go, onMicChunk).                                 *)
THEOREM WakeKeptSafe == PartsSpec => []WakeKept
<1>1. WyomingInv => WakeKept
  BY DEF WyomingInv
<1> QED
  BY <1>1, WyomingSafe, PTL

(* When Handle has returned, no script and no chunk opens the microphone   *)
(* or the wake word service again (pkg/wyoming/satellite.go, setMicState). *)
THEOREM NothingLeftSafe == PartsSpec => []NothingLeft
<1>1. WyomingInv => NothingLeft
  BY DEF WyomingInv, NothingLeft, Y!NothingLeft
<1> QED
  BY <1>1, WyomingSafe, PTL
-----------------------------------------------------------------------------
(* Ws *)

(* What the run does to Ws. *)
WsMove == S!Init /\ [][S!Next]_wsVars

LEMMA WsMoves == PartsSpec => WsMove
<1>1. PartsInit => S!Init
  BY DEF PartsInit
<1>2. [PartsNext]_vars => [S!Next]_wsVars
  BY DEF PartsNext, vars, wsVars
<1> QED
  BY <1>1, <1>2, PartsMove, PTL DEF WsMove

(* What a sequence has: finitely many elements, those it is appended to    *)
(* and those appended.                                                     *)
LEMMA ElementsFinite ==
  ASSUME NEW R, NEW s \in Seq(R) PROVE IsFiniteSet(S!ToSet(s))
<1>1. Len(s) \in Nat /\ DOMAIN s = 1 .. Len(s) /\ s \in [1 .. Len(s) -> S!ToSet(s)]
  BY LenProperties DEF S!ToSet
<1>2. s \in Surjection(1 .. Len(s), S!ToSet(s))
  BY <1>1 DEF Surjection, S!ToSet
<1> QED
  BY <1>1, <1>2, FS_NatSurjection DEF ExistsSurjection

(* FiniteSets as Ws has it. *)
LEMMA SameCardinality ==
  ASSUME NEW X PROVE S!Cardinality(X) = Cardinality(X)
  BY DEF S!Cardinality, Cardinality, S!IsFiniteSet, IsFiniteSet

(* What one more element adds to the set of a sequence's. *)
LEMMA ElementsAppend ==
  ASSUME NEW R, NEW s \in Seq(R), NEW e \in R
  PROVE  S!ToSet(Append(s, e)) = S!ToSet(s) \cup {e}
<1>1. /\ Len(s) \in Nat /\ DOMAIN s = 1 .. Len(s)
      /\ DOMAIN Append(s, e) = 1 .. Len(s) + 1
      /\ \A i \in 1 .. Len(s) : Append(s, e)[i] = s[i]
      /\ Append(s, e)[Len(s) + 1] = e
  BY AppendProperties, LenProperties
<1> QED
  BY <1>1 DEF S!ToSet

WsPlaces ==
  {"new", "run", "added", "offered", "answered", "told", "done", "candidates", "leave",
   "leaving", "returned", "assigned", "report", "end"}

WsTypeOK ==
  /\ gone \in BOOLEAN /\ conn \in BOOLEAN
  /\ next \in S!Messages \cup {Nobody}
  /\ at \in [S!Messages -> WsPlaces] /\ result \in [S!Messages -> {"nil", "handler"}]
  /\ given \in Seq(Remote) /\ waiting \in Seq(Remote)
  /\ local \in [Local -> {"none", "wait", "write", "end"}]
  /\ aPc \in [Local \cup {Sent, Defer} -> Places]

(* A message is handed to its handler once. *)
HandedOnce == sReader = "test" /\ next # Nobody => at[next] = "new"

(* Either Done of sendAnswer comes when the answer was written to a client *)
(* that listens, or will never be.                                         *)
Called == aPc[Sent] # "new" \/ aPc[Defer] # "new"
Answered == "answer" \in wire \/ gone \/ result[Offer] = "handler"
AnswerFlow ==
  /\ at[Offer] \in {"told", "done", "candidates"} => "answer" \in wire \/ gone
  /\ at[Offer] = "leave" \/ Called => Answered

(* Until then every callback that has come waits. *)
CallbacksWait ==
  /\ ~ Called =>
       /\ aState \in {0, 1} /\ aWg = aState
       /\ \A l \in Local : aPc[l] = "new" \/ (aPc[l] = "blocked" /\ aState = 1)
  /\ \A l \in Local : local[l] \in {"write", "end"} => Called

Kept(all) ==
  /\ S!ToSet(all) = {r \in Remote : at[r] \notin {"new", "run"}}
  /\ Len(all) = Cardinality(S!ToSet(all))

CandidatesInv == Kept(given \o waiting) /\ (conn => waiting = <<>>)

WsInv == WsTypeOK /\ HandedOnce /\ AnswerFlow /\ CallbacksWait /\ CandidatesInv

(* Nothing is read, answered or waiting. *)
LEMMA WsInit == S!Init => WsInv
<1> SUFFICES ASSUME S!Init PROVE WsInv
  OBVIOUS
<1>1. <<>> \in Seq(Remote) /\ Len(<<>>) = 0 /\ <<>> \o <<>> = <<>>
  BY EmptySeq, ConcatEmptySeq
<1>2. S!ToSet(<<>>) = {}
  BY <1>1, LenProperties DEF S!ToSet
<1>3. Cardinality({}) = 0
  BY FS_EmptySet
<1>4. WsTypeOK
  BY <1>1 DEF S!Init, S!A!WaiterInit, WsTypeOK, WsPlaces, Places
<1>5. HandedOnce /\ AnswerFlow /\ CallbacksWait
  BY WsAssumption DEF S!Init, S!A!WaiterInit, HandedOnce, AnswerFlow, CallbacksWait, Called,
     Answered, S!Messages
<1>6. CandidatesInv
  BY <1>1, <1>2, <1>3 DEF S!Init, CandidatesInv, Kept, S!Messages
<1> QED
  BY <1>4, <1>5, <1>6 DEF WsInv

(* Who waits in sendAnswer, and who has called its Done.                   *)
LEMMA WaitStep ==
  WsInv /\ [S!Next]_wsVars => CallbacksWait'
<1> SUFFICES ASSUME WsInv, [S!Next]_wsVars PROVE CallbacksWait'
  OBVIOUS
<1> USE WsAssumption DEF WsInv, WsTypeOK, CallbacksWait, Called, Places, Finished
<1>1. CASE UNCHANGED <<local, aState, aWg, aPc>>
  BY <1>1
<1>2. CASE S!DoneSent
  BY <1>2 DEF S!DoneSent, S!A!Done, S!A!FinishDone, S!A!Goto
<1>3. CASE S!DoneDeferred
  BY <1>3 DEF S!DoneDeferred, S!A!Done, S!A!FinishDone, S!A!Goto
<1>4. ASSUME NEW l \in Local, S!WaitAnswer(l) PROVE CallbacksWait'
  BY <1>4 DEF S!WaitAnswer, S!At, S!A!Wait, S!A!EnterWait, S!A!Goto
<1>5. ASSUME NEW l \in Local, S!Waited(l) PROVE CallbacksWait'
  BY <1>5 DEF S!Waited, S!At, S!A!Wake, S!A!ReturnWait, S!A!Goto
<1>6. ASSUME NEW l \in Local, S!TellCandidate(l) PROVE CallbacksWait'
  BY <1>6 DEF S!TellCandidate, S!At, S!answer
<1> QED
  BY <1>1, <1>2, <1>3, <1>4, <1>5, <1>6
  DEF S!Next, S!Loop, S!Handle, S!Callback, S!ReadFails, S!TestRead, S!Close, S!ClientGoes,
      S!Read, S!Assign, S!Test, S!Report, S!AddConsumer, S!OnClose, S!Candidate, S!SetOffer,
      S!GetAnswer, S!TellAnswer, S!AsyncCandidates, S!answer, wsVars

(* Types, and that a message is handed over once.                          *)
LEMMA WsTypeStep == WsInv /\ [S!Next]_wsVars => WsTypeOK' /\ HandedOnce'
<1> SUFFICES ASSUME WsInv, [S!Next]_wsVars PROVE WsTypeOK' /\ HandedOnce'
  OBVIOUS
<1> USE WsAssumption DEF WsInv, WsTypeOK, HandedOnce, WsPlaces, S!Messages, S!Goto, S!loop,
        S!work, S!trans, S!answer, S!Tell
<1>0. CASE UNCHANGED wsVars
  BY <1>0 DEF wsVars
<1>1. ASSUME NEW h \in S!Messages, S!Read(h) PROVE WsTypeOK' /\ HandedOnce'
  BY <1>1 DEF S!Read
<1>2. CASE S!ReadFails \/ S!Close \/ S!ClientGoes
  BY <1>2 DEF S!ReadFails, S!Close, S!ClientGoes
<1>3. CASE S!TestRead
  BY <1>3 DEF S!TestRead
<1>4. ASSUME NEW h \in S!Messages, S!Assign(h) \/ S!Test(h) \/ S!Report(h)
      PROVE  WsTypeOK' /\ HandedOnce'
  BY <1>4 DEF S!Assign, S!Test, S!Report
<1>5. ASSUME NEW h \in Players, S!AddConsumer(h) \/ S!OnClose(h)
      PROVE  WsTypeOK' /\ HandedOnce'
  BY <1>5, SMTT(30) DEF S!AddConsumer, S!OnClose, S!Fails
<1>6. ASSUME NEW r \in Remote, S!Candidate(r) PROVE WsTypeOK' /\ HandedOnce'
  <2>1. Append(given, r) \in Seq(Remote) /\ Append(waiting, r) \in Seq(Remote)
    BY AppendProperties
  <2> QED
    BY <1>6, <2>1 DEF S!Candidate
<1>7. CASE S!SetOffer \/ S!GetAnswer \/ S!TellAnswer
  BY <1>7 DEF S!SetOffer, S!GetAnswer, S!TellAnswer, S!Fails
<1>8. CASE S!DoneSent \/ S!DoneDeferred
  BY <1>8 DEF S!DoneSent, S!DoneDeferred, S!A!Done, S!A!FinishDone, S!A!Goto, Places
<1>9. CASE S!AsyncCandidates
  <2>1. given \o waiting \in Seq(Remote) /\ <<>> \in Seq(Remote)
    BY ConcatProperties, EmptySeq
  <2> QED
    BY <1>9, <2>1 DEF S!AsyncCandidates
<1>10. ASSUME NEW l \in Local, S!WaitAnswer(l) PROVE WsTypeOK' /\ HandedOnce'
  BY <1>10 DEF S!WaitAnswer, S!At, S!A!Wait, S!A!EnterWait, S!A!Goto, Places
<1>11. ASSUME NEW l \in Local, S!Waited(l) PROVE WsTypeOK' /\ HandedOnce'
  BY <1>11 DEF S!Waited, S!At, S!A!Wake, S!A!ReturnWait, S!A!Goto, Places
<1>12. ASSUME NEW l \in Local, S!TellCandidate(l) PROVE WsTypeOK' /\ HandedOnce'
  BY <1>12 DEF S!TellCandidate, S!At
<1> QED
  BY <1>0, <1>1, <1>2, <1>3, <1>4, <1>5, <1>6, <1>7, <1>8, <1>9, <1>10, <1>11, <1>12
  DEF S!Next, S!Loop, S!Handle, S!Callback

(* The offer's handler, what is written to the client, and what comes      *)
(* first: only a callback that has waited writes a candidate.              *)
LEMMA AnswerStep == WsInv /\ [S!Next]_wsVars => AnswerFlow' /\ [S!AnswerFirst]_wsVars
<1> SUFFICES ASSUME WsInv, [S!Next]_wsVars
             PROVE  AnswerFlow' /\ (wsVars' = wsVars \/ S!AnswerFirst)
  OBVIOUS
<1> USE WsAssumption DEF WsInv, WsTypeOK, AnswerFlow, Answered, Called, S!AnswerFirst
<1>1. CASE UNCHANGED <<at, result, gone, wire, aPc>>
  BY <1>1
<1>2. CASE S!ReadFails \/ S!Close
  BY <1>1, <1>2 DEF S!ReadFails, S!Close, S!work, S!answer
<1>3. ASSUME NEW h \in S!Messages, S!Read(h)
      PROVE  UNCHANGED <<at, result, gone, wire, aPc>>
  BY <1>3 DEF S!Read, S!work, S!answer
<1>4. CASE S!TestRead
  BY <1>4 DEF S!TestRead, S!answer, HandedOnce, S!Messages
<1>5. CASE S!ClientGoes
  BY <1>5 DEF S!ClientGoes, S!work, S!answer
<1>6. ASSUME NEW h \in S!Messages, S!Assign(h) \/ S!Test(h) \/ S!Report(h)
      PROVE  AnswerFlow' /\ S!AnswerFirst
  BY <1>6 DEF S!Assign, S!Test, S!Report, S!Goto, S!Tell, S!loop, S!answer, S!Messages
<1>7. ASSUME NEW h \in Players, S!AddConsumer(h) \/ S!OnClose(h)
      PROVE  AnswerFlow' /\ S!AnswerFirst
  BY <1>7 DEF S!AddConsumer, S!OnClose, S!Goto, S!Fails, S!Tell, S!loop, S!answer, S!Messages
<1>8. ASSUME NEW r \in Remote, S!Candidate(r) PROVE AnswerFlow' /\ S!AnswerFirst
  BY <1>8 DEF S!Candidate, S!Goto, S!loop, S!answer, S!Messages
<1>9. CASE S!SetOffer \/ S!GetAnswer
  BY <1>9 DEF S!SetOffer, S!GetAnswer, S!Goto, S!Fails, S!loop, S!answer, S!Messages
<1>10. CASE S!TellAnswer
  BY <1>10 DEF S!TellAnswer, S!Goto, S!Tell, S!loop, S!answer, S!Messages
<1>11. CASE S!DoneSent
  BY <1>11 DEF S!DoneSent, S!Goto, S!A!Done, S!A!FinishDone, S!A!Goto, S!loop, S!Messages
<1>12. CASE S!DoneDeferred
  BY <1>12 DEF S!DoneDeferred, S!Goto, S!A!Done, S!A!FinishDone, S!A!Goto, S!loop, S!Messages
<1>13. CASE S!AsyncCandidates
  BY <1>13 DEF S!AsyncCandidates, S!Goto, S!loop, S!answer, S!Messages
<1>14. ASSUME NEW l \in Local, S!WaitAnswer(l) \/ S!Waited(l)
      PROVE  AnswerFlow' /\ S!AnswerFirst
  <2>1. UNCHANGED <<at, result, gone, wire>>
    BY <1>14 DEF S!WaitAnswer, S!Waited, S!loop, S!work
  <2>2. aPc'[Sent] = aPc[Sent] /\ aPc'[Defer] = aPc[Defer]
    BY <1>14 DEF S!WaitAnswer, S!Waited, S!A!Wait, S!A!EnterWait, S!A!Wake, S!A!ReturnWait,
       S!A!Goto
  <2> QED
    BY <2>1, <2>2
<1>15. ASSUME NEW l \in Local, S!TellCandidate(l) PROVE AnswerFlow' /\ S!AnswerFirst
  BY <1>15 DEF S!TellCandidate, S!At, S!Tell, S!loop, S!work, S!answer, CallbacksWait
<1> QED
  BY <1>1, <1>2, <1>3, <1>4, <1>5, <1>6, <1>7, <1>8, <1>9, <1>10, <1>11, <1>12, <1>13, <1>14,
     <1>15 DEF S!Next, S!Loop, S!Handle, S!Callback, wsVars

(* A candidate is put at the end of one list or the other.                 *)
LEMMA CandidatesStep == WsInv /\ [S!Next]_wsVars => CandidatesInv'
<1> SUFFICES ASSUME WsInv, [S!Next]_wsVars PROVE CandidatesInv'
  OBVIOUS
<1> USE WsAssumption DEF WsInv, WsTypeOK, CandidatesInv
<1> DEFINE known == {r \in Remote : at[r] \notin {"new", "run"}}
           all == given \o waiting
<1>a. all \in Seq(Remote) /\ given \o <<>> = given /\ all \o <<>> = all
  BY ConcatProperties, ConcatEmptySeq
<1>0. ASSUME UNCHANGED <<given, waiting, conn>>, known' = known PROVE CandidatesInv'
  BY <1>0 DEF Kept
<1>1. CASE S!TestRead
  BY <1>0, <1>1 DEF S!TestRead, S!trans, HandedOnce, S!Messages
<1>2. ASSUME NEW h \in S!Messages, S!Assign(h) \/ S!Test(h) \/ S!Report(h)
      PROVE  CandidatesInv'
  <2>1. UNCHANGED <<given, waiting, conn>>
    BY <1>2 DEF S!Assign, S!Test, S!Report, S!trans
  <2>2. at[h] \notin {"new", "run"}
        /\ \E there \in {"assigned", "end", "report"} : at' = [at EXCEPT ![h] = there]
    BY <1>2 DEF S!Assign, S!Test, S!Report, S!Goto
  <2>3. known' = known
    BY <2>2
  <2> QED
    BY <1>0, <2>1, <2>3
<1>3. ASSUME NEW h \in Players, S!AddConsumer(h) \/ S!OnClose(h) PROVE CandidatesInv'
  <2>1. UNCHANGED <<given, waiting, conn>> /\ known' = known
    BY <1>3 DEF S!AddConsumer, S!OnClose, S!Goto, S!Fails, S!trans, S!Messages
  <2> QED
    BY <1>0, <2>1
<1>4. ASSUME NEW r \in Remote, S!Candidate(r) PROVE CandidatesInv'
  <2>1. r \notin S!ToSet(all) /\ known' = known \cup {r} /\ UNCHANGED conn
    BY <1>4 DEF S!Candidate, S!Goto, S!Messages, Kept
  <2>2. all' = Append(all, r)
    <3>1. given \o Append(waiting, r) = Append(given \o waiting, r)
      <4>1. <<r>> \in Seq(Remote)
        OBVIOUS
      <4> QED
        BY <1>a, <4>1, AppendIsConcat, ConcatAssociative
    <3>2. Append(given, r) \in Seq(Remote)
      BY AppendProperties
    <3> QED
      BY <1>4, <1>a, <3>1, <3>2, ConcatEmptySeq DEF S!Candidate
  <2>3. /\ S!ToSet(Append(all, r)) = S!ToSet(all) \cup {r}
        /\ Len(Append(all, r)) = Len(all) + 1
    <3> HIDE DEF all
    <3> QED
      BY <1>a, ElementsAppend, AppendProperties
  <2>4. Cardinality(S!ToSet(all) \cup {r}) = Cardinality(S!ToSet(all)) + 1
    BY <1>a, <2>1, ElementsFinite, FS_AddElement
  <2>5. conn => waiting' = <<>>
    BY <1>4 DEF S!Candidate
  <2> QED
    BY <2>1, <2>2, <2>3, <2>4, <2>5 DEF Kept
<1>5. CASE S!AsyncCandidates
  <2>1. given' = all /\ waiting' = <<>> /\ known' = known
    BY <1>5 DEF S!AsyncCandidates, S!Goto, S!Messages
  <2> QED
    BY <1>a, <2>1 DEF Kept
<1>6. CASE S!SetOffer \/ S!GetAnswer \/ S!TellAnswer \/ S!DoneSent \/ S!DoneDeferred
  <2>1. UNCHANGED <<given, waiting, conn>> /\ known' = known
    BY <1>6 DEF S!SetOffer, S!GetAnswer, S!TellAnswer, S!DoneSent, S!DoneDeferred, S!Goto,
       S!Fails, S!trans, S!Messages
  <2> QED
    BY <1>0, <2>1
<1>7. CASE UNCHANGED <<given, waiting, conn, at>>
  BY <1>0, <1>7
<1> QED
  BY <1>1, <1>2, <1>3, <1>4, <1>5, <1>6, <1>7
  DEF S!Next, S!Loop, S!Handle, S!Callback, S!ReadFails, S!Close, S!ClientGoes, S!Read,
      S!WaitAnswer, S!Waited, S!TellCandidate, S!work, S!trans, wsVars

(* In every state of the run. *)
LEMMA WsSafe == PartsSpec => []WsInv
<1>1. WsInv /\ [S!Next]_wsVars => WsInv'
  BY WaitStep, WsTypeStep, AnswerStep, CandidatesStep DEF WsInv
<1> QED
  BY <1>1, WsInit, WsMoves, PTL DEF WsMove

(* Our candidates are written after the answer, and no candidate of the    *)
(* browser is lost, doubled or given out of turn, in whatever order the    *)
(* handlers and the callbacks run (internal/webrtc, asyncHandler).         *)
THEOREM SignallingSafe == PartsSpec => Signalling
<1>1. WsInv => S!CandidatesKept
  BY SameCardinality DEF WsInv, CandidatesInv, Kept, S!CandidatesKept
<1>2. WsInv /\ [S!Next]_wsVars => [S!AnswerFirst]_(S!vars)
  BY AnswerStep DEF wsVars, S!vars, S!loop, S!work, S!trans, S!answer
<1> QED
  BY <1>1, <1>2, WsSafe, WsMoves, PTL DEF WsMove, Signalling, S!Signalling
-----------------------------------------------------------------------------
(* Hls *)

(* What the run does to Hls. *)
HlsMove == H!Init /\ [][H!Next]_hlsVars

LEMMA HlsMoves == PartsSpec => HlsMove
<1>1. PartsInit => H!Init
  BY DEF PartsInit
<1>2. [PartsNext]_vars => [H!Next]_hlsVars
  BY DEF PartsNext, vars, hlsVars
<1> QED
  BY <1>1, <1>2, PartsMove, PTL DEF HlsMove

(* SequencesExt as Hls has it. *)
LEMMA SameFlatten ==
  ASSUME NEW s PROVE H!FlattenSeq(s) = FlattenSeq(s)
  BY DEF H!FlattenSeq, FlattenSeq

(* The frames of the segments that were handed out. *)
Bodies(segs) == [i \in DOMAIN segs |-> H!FramesOf(segs[i])]

HlsTypeOK ==
  /\ frames \in Nat /\ buffer \in Seq(Nat) /\ segments \in Seq(Seq(Nat))

(* A segment of MPEG-TS is followed by one that has the init data. *)
InitFirst ==
  format = "ts" =>
    /\ segments # <<>> => buffer # <<>> /\ Head(buffer) = 0
    /\ \A i \in DOMAIN segments : i > 1 => Head(segments[i]) = 0

InOrderWhole == FlattenSeq(Bodies(segments)) \o H!FramesOf(buffer) = [i \in 1 .. frames |-> i]

HlsInv == HlsTypeOK /\ InitFirst /\ InOrderWhole

(* The frames of what is written behind a buffer come behind its frames.   *)
LEMMA FramesAppend ==
  ASSUME NEW s \in Seq(Nat), NEW t \in Seq(Nat), t # <<>> => Head(t) # 0
  PROVE  /\ H!FramesOf(s) \in Seq(Nat)
         /\ H!FramesOf(s \o t) = H!FramesOf(s) \o t
<1>1. CASE s = <<>>
  <2>1. H!FramesOf(s) = <<>> /\ s \o t = t /\ <<>> \o t = t
    BY <1>1, ConcatEmptySeq DEF H!FramesOf
  <2>2. H!FramesOf(t) = t
    BY DEF H!FramesOf
  <2> QED
    BY <1>1, <2>1, <2>2
<1>2. CASE s # <<>>
  <2>0. Len(s) \in Nat \ {0} /\ s \o t \in Seq(Nat) /\ Len(s \o t) = Len(s) + Len(t) /\ Len(t) \in Nat
    BY <1>2, ConcatProperties, EmptySeq, LenProperties
  <2>1. s \o t # <<>>
    BY <2>0, EmptySeq
  <2>2. Head(s \o t) = Head(s)
    <3>1. (s \o t)[1] = s[1]
      BY <2>0, ConcatProperties
    <3> QED
      BY <1>2, <2>0, <2>1, <3>1, HeadTailProperties
  <2>3. Tail(s) \in Seq(Nat) /\ Tail(s \o t) = Tail(s) \o t
    <3>1. /\ Tail(s) \in Seq(Nat) /\ Len(Tail(s)) = Len(s) - 1
          /\ \A i \in 1 .. Len(s) - 1 : Tail(s)[i] = s[i + 1]
      BY <1>2, <2>0, HeadTailProperties
    <3>2. /\ Tail(s \o t) \in Seq(Nat) /\ Len(Tail(s \o t)) = Len(s) + Len(t) - 1
          /\ \A i \in 1 .. Len(s) + Len(t) - 1 : Tail(s \o t)[i] = (s \o t)[i + 1]
      BY <2>0, <2>1, HeadTailProperties
    <3>3. /\ Tail(s) \o t \in Seq(Nat) /\ Len(Tail(s) \o t) = Len(s) - 1 + Len(t)
          /\ \A i \in 1 .. Len(s) - 1 + Len(t) : (Tail(s) \o t)[i] =
               IF i <= Len(s) - 1 THEN Tail(s)[i] ELSE t[i - (Len(s) - 1)]
      BY <2>0, <3>1, ConcatProperties
    <3>4. \A i \in 1 .. Len(s) + Len(t) : (s \o t)[i] = IF i <= Len(s) THEN s[i] ELSE t[i - Len(s)]
      BY ConcatProperties
    <3>5. ASSUME NEW i \in 1 .. Len(s) - 1 + Len(t) PROVE Tail(s \o t)[i] = (Tail(s) \o t)[i]
      <4>1. i + 1 \in 1 .. Len(s) + Len(t) /\ i + 1 - Len(s) = i - (Len(s) - 1)
        BY <2>0
      <4>2. CASE i <= Len(s) - 1
        BY <2>0, <3>1, <3>2, <3>3, <3>4, <4>1, <4>2
      <4>3. CASE ~ (i <= Len(s) - 1)
        BY <2>0, <3>2, <3>3, <3>4, <4>1, <4>3
      <4> QED
        BY <4>2, <4>3
    <3>6. Len(Tail(s \o t)) = Len(Tail(s) \o t)
      BY <2>0, <3>2, <3>3
    <3>7. Tail(s \o t) = Tail(s) \o t
      BY <2>0, <3>2, <3>3, <3>5, <3>6, SeqEqual
    <3> QED
      BY <3>1, <3>7
  <2>4. H!FramesOf(s) \in Seq(Nat)
    BY <1>2, <2>3 DEF H!FramesOf
  <2> QED
    BY <1>2, <2>1, <2>2, <2>3, <2>4 DEF H!FramesOf
<1> QED
  BY <1>1, <1>2

(* No frame is written, and no segment handed out. *)
LEMMA HlsInit == H!Init => HlsInv
<1> SUFFICES ASSUME H!Init PROVE HlsInv
  OBVIOUS
<1>1. frames = 0 /\ buffer = <<>> /\ segments = <<>>
  BY DEF H!Init
<1>2. <<>> \in Seq(Nat) /\ <<>> \in Seq(Seq(Nat)) /\ <<>> \o <<>> = <<>>
  BY EmptySeq, ConcatEmptySeq
<1>3. Bodies(<<>>) = <<>> /\ H!FramesOf(<<>>) = <<>> /\ <<>> = [i \in 1 .. 0 |-> i]
  BY DEF Bodies, H!FramesOf
<1> QED
  BY <1>1, <1>2, <1>3, FlattenEmpty DEF HlsInv, HlsTypeOK, InitFirst, InOrderWhole

(* Write puts frames at the end; Segment moves the buffer, whole, behind   *)
(* the segments.                                                           *)
LEMMA HlsStep == HlsInv /\ [H!Next]_hlsVars => HlsInv'
<1> SUFFICES ASSUME HlsInv, [H!Next]_hlsVars PROVE HlsInv'
  OBVIOUS
<1>0. HlsTypeOK /\ InitFirst /\ InOrderWhole
  BY DEF HlsInv
<1>a. /\ Bodies(segments) \in Seq(Seq(Nat)) /\ H!FramesOf(buffer) \in Seq(Nat)
      /\ FlattenSeq(Bodies(segments)) \in Seq(Nat)
      /\ Len(segments) \in Nat /\ DOMAIN segments = 1 .. Len(segments)
  <2>1. <<>> \in Seq(Nat)
    BY EmptySeq
  <2>2. \A s \in Seq(Nat) : H!FramesOf(s) \in Seq(Nat)
    BY <2>1, FramesAppend
  <2>3. Len(segments) \in Nat /\ DOMAIN segments = 1 .. Len(segments)
        /\ \A i \in 1 .. Len(segments) : segments[i] \in Seq(Nat)
    BY <1>0, LenProperties, ElementOfSeq DEF HlsTypeOK
  <2>4. Bodies(segments) \in Seq(Seq(Nat))
    BY <2>2, <2>3 DEF Bodies
  <2> QED
    BY <1>0, <2>1, <2>2, <2>3, <2>4, FlattenAppend DEF HlsTypeOK
<1>1. CASE H!Write
  <2>1. PICK last \in frames + 1 .. MaxFrames :
          /\ buffer' = buffer \o [i \in 1 .. last - frames |-> frames + i]
          /\ frames' = last
    BY <1>1 DEF H!Write
  <2> DEFINE new == [i \in 1 .. last - frames |-> frames + i]
  <2>2. last \in Nat /\ last - frames \in Nat \ {0} /\ frames \in Nat
    BY <1>0, HlsAssumption DEF HlsTypeOK
  <2>3. /\ new \in Seq(Nat) /\ Len(new) = last - frames
        /\ \A i \in 1 .. last - frames : new[i] = frames + i
    BY <2>2
  <2>4. new # <<>> /\ Head(new) = frames + 1
    BY <2>2, <2>3, EmptySeq, HeadTailProperties
  <2> HIDE DEF new
  <2>5. H!FramesOf(buffer') = H!FramesOf(buffer) \o new
    <3>1. buffer' = buffer \o new
      BY <2>1 DEF new
    <3>2. buffer \in Seq(Nat) /\ Head(new) # 0
      BY <1>0, <2>2, <2>4 DEF HlsTypeOK
    <3> QED
      BY <2>3, <3>1, <3>2, FramesAppend
  <2> DEFINE before == [i \in 1 .. frames |-> i]
  <2>6. FlattenSeq(Bodies(segments)) \o H!FramesOf(buffer') = before \o new
    <3>1. \A r, s, t \in Seq(Nat) : r \o (s \o t) = (r \o s) \o t
      BY ConcatAssociative, SMTT(30)
    <3>2. FlattenSeq(Bodies(segments)) \o (H!FramesOf(buffer) \o new)
            = (FlattenSeq(Bodies(segments)) \o H!FramesOf(buffer)) \o new
      BY <1>a, <2>3, <3>1
    <3> QED
      BY <1>0, <2>5, <3>2 DEF InOrderWhole
  <2>7. before \o new = [i \in 1 .. last |-> i]
    <3>1. before \in Seq(Nat) /\ Len(before) = frames /\ \A i \in 1 .. frames : before[i] = i
      BY <2>2
    <3> HIDE DEF before
    <3>2. /\ before \o new \in Seq(Nat) /\ Len(before \o new) = last
          /\ \A i \in 1 .. last : (before \o new)[i] =
               IF i <= frames THEN before[i] ELSE new[i - frames]
      <4>1. frames + (last - frames) = last
        BY <2>2
      <4>2. /\ before \o new \in Seq(Nat) /\ Len(before \o new) = Len(before) + Len(new)
            /\ \A i \in 1 .. Len(before) + Len(new) : (before \o new)[i] =
                 IF i <= Len(before) THEN before[i] ELSE new[i - Len(before)]
        BY <2>3, <3>1, ConcatProperties
      <4> QED
        BY <2>3, <3>1, <4>1, <4>2
    <3>3. ASSUME NEW i \in 1 .. last PROVE (before \o new)[i] = i
      <4>1. CASE i <= frames
        BY <2>2, <3>1, <3>2, <4>1
      <4>2. CASE ~ (i <= frames)
        <5>1. i - frames \in 1 .. last - frames
          BY <2>2, <4>2
        <5> QED
          BY <2>2, <2>3, <3>2, <4>2, <5>1, SMTT(30)
      <4> QED
        BY <4>1, <4>2
    <3>4. before \o new = [i \in 1 .. last |-> (before \o new)[i]]
      BY <2>2, <3>2, LenProperties
    <3> QED
      BY <3>3, <3>4
  <2>8. InOrderWhole'
    BY <1>1, <2>1, <2>6, <2>7 DEF H!Write, InOrderWhole
  <2>9. buffer' \in Seq(Nat) /\ (buffer # <<>> => buffer' # <<>> /\ Head(buffer') = Head(buffer))
    <3>1. buffer' = buffer \o new /\ buffer \in Seq(Nat)
      BY <1>0, <2>1 DEF new, HlsTypeOK
    <3>2. /\ buffer' \in Seq(Nat) /\ Len(buffer') = Len(buffer) + Len(new)
          /\ \A i \in 1 .. Len(buffer) + Len(new) : buffer'[i] =
               IF i <= Len(buffer) THEN buffer[i] ELSE new[i - Len(buffer)]
      BY <2>3, <3>1, ConcatProperties
    <3>3. ASSUME buffer # <<>> PROVE buffer' # <<>> /\ Head(buffer') = Head(buffer)
      <4>1. Len(buffer) \in Nat \ {0} /\ Len(new) \in Nat
        BY <2>2, <2>3, <3>1, <3>3, EmptySeq
      <4>2. buffer'[1] = buffer[1] /\ Len(buffer') # 0
        BY <3>2, <4>1
      <4> QED
        BY <3>1, <3>2, <3>3, <4>2, EmptySeq, HeadTailProperties
    <3> QED
      BY <3>2, <3>3
  <2>10. InitFirst' /\ HlsTypeOK'
    BY <1>0, <1>1, <2>1, <2>2, <2>9 DEF H!Write, InitFirst, HlsTypeOK
  <2> QED
    BY <2>8, <2>10 DEF HlsInv
<1>2. ASSUME NEW r \in Requests, H!Segment(r) PROVE HlsInv'
  <2>1. /\ segments' = Append(segments, buffer) /\ buffer # <<>>
        /\ buffer' = IF format = "mp4" THEN <<>> ELSE <<0>>
        /\ UNCHANGED <<format, frames>>
    BY <1>2 DEF H!Segment
  <2>2. /\ segments' \in Seq(Seq(Nat)) /\ Len(segments') = Len(segments) + 1
        /\ DOMAIN segments' = 1 .. Len(segments) + 1
        /\ segments'[Len(segments) + 1] = buffer
        /\ \A i \in 1 .. Len(segments) : segments'[i] = segments[i]
    BY <1>0, <1>a, <2>1, AppendProperties, LenProperties DEF HlsTypeOK
  <2>3. buffer' \in Seq(Nat)
    BY <2>1, EmptySeq
  <2>4. Bodies(segments') = Append(Bodies(segments), H!FramesOf(buffer))
    <3>1. /\ Append(Bodies(segments), H!FramesOf(buffer)) \in Seq(Seq(Nat))
          /\ Len(Append(Bodies(segments), H!FramesOf(buffer))) = Len(Bodies(segments)) + 1
          /\ \A i \in 1 .. Len(Bodies(segments)) :
                Append(Bodies(segments), H!FramesOf(buffer))[i] = Bodies(segments)[i]
          /\ Append(Bodies(segments), H!FramesOf(buffer))[Len(Bodies(segments)) + 1] = H!FramesOf(buffer)
      BY <1>a, AppendProperties
    <3>2. Len(Bodies(segments)) = Len(segments)
      BY <1>a DEF Bodies
    <3>3. DOMAIN Append(Bodies(segments), H!FramesOf(buffer)) = 1 .. Len(segments) + 1
      BY <3>1, <3>2, LenProperties
    <3> DEFINE whole == Append(Bodies(segments), H!FramesOf(buffer))
    <3>4. whole = [i \in 1 .. Len(segments) + 1 |-> whole[i]]
      BY <3>1, <3>2, <3>3, LenProperties
    <3>5. \A i \in 1 .. Len(segments) : Bodies(segments)[i] = H!FramesOf(segments[i])
      BY <1>a DEF Bodies
    <3> HIDE DEF whole
    <3>6. \A i \in 1 .. Len(segments) + 1 : whole[i] = H!FramesOf(segments'[i])
      BY <1>a, <2>2, <3>1, <3>2, <3>5 DEF whole
    <3> QED
      BY <2>2, <3>4, <3>6 DEF Bodies, whole
  <2>5. H!FramesOf(buffer') = <<>>
    BY <2>1 DEF H!FramesOf
  <2>6. InOrderWhole'
    <3>1. FlattenSeq(Bodies(segments')) = FlattenSeq(Bodies(segments)) \o H!FramesOf(buffer)
      BY <1>a, <2>4, FlattenAppend
    <3>2. FlattenSeq(Bodies(segments')) \o <<>> = FlattenSeq(Bodies(segments'))
      BY <1>a, <3>1, ConcatProperties, ConcatEmptySeq
    <3> QED
      BY <1>0, <2>1, <2>5, <3>1, <3>2 DEF InOrderWhole
  <2>7. InitFirst'
    <3>1. format = "ts" => buffer' = <<0>> /\ Head(<<0>>) = 0 /\ <<0>> # <<>>
      BY <2>1
    <3>2. Len(segments) >= 1 => segments # <<>>
      BY <1>a
    <3> QED
      BY <1>0, <1>a, <2>1, <2>2, <3>1, <3>2 DEF InitFirst
  <2> QED
    BY <1>0, <2>1, <2>2, <2>3, <2>6, <2>7 DEF HlsInv, HlsTypeOK
<1>3. CASE UNCHANGED <<format, buffer, frames, segments>>
  BY <1>0, <1>3 DEF HlsInv, HlsTypeOK, InitFirst, InOrderWhole
<1> QED
  BY <1>1, <1>2, <1>3
  DEF H!Next, H!Start, H!Answer, H!AddConsumer, H!AddFails, H!AfterFunc, H!Register, H!Run,
      H!Find, H!Reset, H!GiveUp, H!Expire, H!RemoveConsumer, H!data, hlsVars

(* The segments, in the order of s.mu, and what is left are the frames     *)
(* written, none lost, doubled or moved, whatever requests overlap, and no *)
(* MPEG-TS segment but the first lacks the init data (internal/hls,        *)
(* Session.Segment).                                                       *)
THEOREM SegmentsWholeSafe == PartsSpec => []SegmentsWhole
<1>1. HlsInv => SegmentsWhole
  BY SameFlatten DEF HlsInv, InitFirst, InOrderWhole, Bodies, SegmentsWhole, H!SegmentsWhole
<1> QED
  BY <1>1, HlsInit, HlsStep, HlsMoves, PTL DEF HlsMove
=============================================================================
