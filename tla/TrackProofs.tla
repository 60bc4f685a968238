----------------------------- MODULE TrackProofs -----------------------------
(* Proofs about a track: the children of a receiver, for any senders, any  *)
(* number of goroutines that close and any number of packets; and the      *)
(* video that comes over RTP, for any frames, any size of a packet and any *)
(* losses.                                                                 *)
EXTENDS MCMedia, SequenceTheorems, TLAPS

L == INSTANCE ListProofs

Slot == Senders \cup {Nobody}
Walking == [at : Nat, end : Nat, next : Nat \ {0}]

(* The arrays, and the children in the last one. *)
Slices ==
  /\ mem \in Seq(Seq(Slot)) /\ mem # <<>>
  /\ len \in 0 .. Len(mem[Current])
  /\ Childs \subseteq Senders

(* What an append or a removal may do to the arrays that others walk over: *)
(* none goes or changes its length, and only children are written.         *)
Moves ==
  /\ Slices' /\ Len(mem) <= Len(mem')
  /\ \A a \in 1 .. Len(mem) :
       /\ Len(mem'[a]) = Len(mem[a])
       /\ \A i \in 1 .. Len(mem[a]) :
            mem'[a][i] = mem[a][i] \/ mem'[a][i] \in Childs \cup Childs'

-----------------------------------------------------------------------------
(* The slice.                                                              *)

(* The new array begins like the old one and is longer. *)
LEMMA GrownProperties ==
  ASSUME NEW a \in Seq(Slot)
  PROVE  /\ Grown(a) \in Seq(Slot)
         /\ Len(a) \in Nat /\ Len(Grown(a)) \in Nat /\ Len(Grown(a)) > Len(a)
         /\ \A i \in 1 .. Len(a) : Grown(a)[i] = a[i]
<1>1. CASE a = <<>>
  <2>1. Grown(a) = <<Nobody>> /\ Len(a) = 0
    BY <1>1 DEF Grown
  <2>2. <<Nobody>> \in Seq(Slot) /\ Len(<<Nobody>>) = 1
    BY DEF Slot
  <2> QED
    BY <2>1, <2>2
<1>2. CASE a # <<>>
  <2> DEFINE b == [i \in 1 .. Len(a) |-> Nobody]
  <2>1. Len(a) \in Nat /\ Len(a) # 0
    BY <1>2, LenProperties, EmptySeq
  <2>2. b \in [1 .. Len(a) -> Slot]
    BY DEF Slot
  <2>3. b \in Seq(Slot)
    BY <2>1, <2>2, SeqDef
  <2>4. Len(b) = Len(a)
    <3>1. DOMAIN b = 1 .. Len(a) /\ DOMAIN b = 1 .. Len(b) /\ Len(b) \in Nat
      BY <2>3, LenProperties
    <3> QED
      BY ONLY <2>1, <3>1
  <2>5. Grown(a) = a \o b
    BY <1>2 DEF Grown
  <2> HIDE DEF b
  <2>6. /\ a \o b \in Seq(Slot) /\ Len(a \o b) = Len(a) + Len(b)
        /\ \A i \in 1 .. Len(a) + Len(b) : (a \o b)[i] = IF i <= Len(a) THEN a[i] ELSE b[i - Len(a)]
    BY <2>3, ConcatProperties
  <2> QED
    BY <2>1, <2>4, <2>5, <2>6
<1> QED
  BY <1>1, <1>2

(* The last array, and what the arrays are made of. *)
LEMMA Arrays ==
  ASSUME Slices
  PROVE  /\ Current \in 1 .. Len(mem) /\ Len(mem) \in Nat \ {0} /\ len \in Nat
         /\ Len(mem[Current]) \in Nat /\ len <= Len(mem[Current])
         /\ \A a \in 1 .. Len(mem) : mem[a] \in Seq(Slot) /\ Len(mem[a]) \in Nat
         /\ \A i \in 1 .. len : i \in 1 .. Len(mem[Current]) /\ mem[Current][i] \in Senders
<1>1. Len(mem) \in Nat \ {0}
  BY LenProperties, EmptySeq DEF Slices
<1>2. Current \in 1 .. Len(mem)
  BY <1>1 DEF Current
<1>3. \A a \in 1 .. Len(mem) : mem[a] \in Seq(Slot)
  BY ElementOfSeq DEF Slices
<1>4. \A a \in 1 .. Len(mem) : Len(mem[a]) \in Nat
  BY <1>3, LenProperties
<1>5. len \in Nat /\ len <= Len(mem[Current])
  BY <1>2, <1>4 DEF Slices
<1>6. \A i \in 1 .. len : mem[Current][i] \in Senders
  BY DEF Slices, Childs
<1> QED
  BY <1>1, <1>2, <1>3, <1>4, <1>5, <1>6

(* append(): in the free place of the array, or in a new array. *)
LEMMA AddMoves ==
  ASSUME Slices, NEW s \in Senders, Add(s)
  PROVE  /\ Moves /\ Childs' = Childs \cup {s}
         /\ NoTwins /\ s \notin Childs => NoTwins'
<1> DEFINE a == mem[Current]
<1>0. /\ Current \in 1 .. Len(mem) /\ Len(mem) \in Nat \ {0} /\ len \in Nat
      /\ a \in Seq(Slot) /\ Len(a) \in Nat /\ len <= Len(a) /\ len' = len + 1
      /\ s \in Slot /\ mem \in Seq(Seq(Slot)) /\ Current = Len(mem)
  BY Arrays DEF Add, Slices, Slot, Current
<1>1. /\ mem' \in Seq(Seq(Slot)) /\ Len(mem') \in Nat /\ Len(mem) <= Len(mem')
      /\ \A b \in 1 .. Len(mem) :
           /\ Len(mem'[b]) = Len(mem[b])
           /\ \A i \in 1 .. Len(mem[b]) : mem'[b][i] = mem[b][i] \/ mem'[b][i] = s
      /\ len' <= Len(mem'[Len(mem')]) /\ Len(mem'[Len(mem')]) \in Nat
      /\ \A i \in 1 .. len : mem'[Len(mem')][i] = a[i]
      /\ mem'[Len(mem')][len + 1] = s
  <2>1. CASE len < Len(a)
    <3> DEFINE b == [a EXCEPT ![len + 1] = s]
    <3>1. mem' = [mem EXCEPT ![Current] = b]
      BY <2>1 DEF Add
    <3>2. len + 1 \in 1 .. Len(a)
      BY <1>0, <2>1
    <3>3. /\ b \in Seq(Slot) /\ Len(b) = Len(a)
          /\ \A j \in 1 .. Len(a) : b[j] = IF j = len + 1 THEN s ELSE a[j]
      BY <1>0, <3>2, ExceptSeq
    <3> HIDE DEF b
    <3>4. /\ mem' \in Seq(Seq(Slot)) /\ Len(mem') = Len(mem)
          /\ \A j \in 1 .. Len(mem) : mem'[j] = IF j = Current THEN b ELSE mem[j]
      BY <1>0, <3>1, <3>3, ExceptSeq
    <3>5. mem'[Len(mem')] = b /\ Len(mem') \in Nat /\ Len(mem) <= Len(mem')
      BY <1>0, <3>4
    <3>6. \A j \in 1 .. Len(mem) :
            /\ Len(mem'[j]) = Len(mem[j])
            /\ \A i \in 1 .. Len(mem[j]) : mem'[j][i] = mem[j][i] \/ mem'[j][i] = s
      BY <1>0, <3>3, <3>4
    <3>7. /\ len' <= Len(b) /\ Len(b) \in Nat /\ b[len + 1] = s
          /\ \A i \in 1 .. len : b[i] = a[i]
      <4>1. \A i \in 1 .. len : i \in 1 .. Len(a) /\ i # len + 1
        BY <1>0, <2>1
      <4>2. Len(b) \in Nat /\ len' <= Len(b)
        BY <1>0, <3>2, <3>3
      <4> QED
        BY <3>2, <3>3, <4>1, <4>2
    <3> QED
      BY <3>4, <3>5, <3>6, <3>7
  <2>2. CASE ~(len < Len(a))
    <3> DEFINE b == [Grown(a) EXCEPT ![len + 1] = s]
    <3>1. mem' = Append(mem, b)
      BY <2>2 DEF Add
    <3>2. /\ Grown(a) \in Seq(Slot) /\ Len(Grown(a)) \in Nat /\ Len(Grown(a)) > Len(a)
          /\ \A i \in 1 .. Len(a) : Grown(a)[i] = a[i]
      BY <1>0, GrownProperties
    <3>3. len + 1 \in 1 .. Len(Grown(a)) /\ len = Len(a)
      BY <1>0, <2>2, <3>2
    <3>4. /\ b \in Seq(Slot) /\ Len(b) = Len(Grown(a))
          /\ \A j \in 1 .. Len(Grown(a)) : b[j] = IF j = len + 1 THEN s ELSE Grown(a)[j]
      BY <1>0, <3>2, <3>3, ExceptSeq
    <3> HIDE DEF b
    <3>5. /\ mem' \in Seq(Seq(Slot)) /\ Len(mem') = Len(mem) + 1
          /\ \A j \in 1 .. Len(mem) : mem'[j] = mem[j]
          /\ mem'[Len(mem) + 1] = b
      BY <1>0, <3>1, <3>4, AppendProperties
    <3>6. mem'[Len(mem')] = b
      BY <3>5
    <3>7. \A i \in 1 .. len : i \in 1 .. Len(Grown(a)) /\ b[i] = a[i]
      BY <1>0, <3>2, <3>3, <3>4
    <3> QED
      BY <1>0, <3>2, <3>3, <3>4, <3>5, <3>6, <3>7
  <2> QED
    BY <2>1, <2>2
<1>2. Childs' = Childs \cup {s}
  <2>1. Childs' = {mem'[Len(mem')][i] : i \in 1 .. len + 1}
    BY <1>0 DEF Childs, Current
  <2>2. Childs = {a[i] : i \in 1 .. len}
    BY DEF Childs
  <2>3. \A i \in 1 .. len + 1 : i \in 1 .. len \/ i = len + 1
    BY <1>0
  <2>4. \A i \in 1 .. len : i \in 1 .. len + 1
    BY <1>0
  <2>5. len + 1 \in 1 .. len + 1
    BY <1>0
  <2>6. \A x : x \in Childs' => x \in Childs \cup {s}
    <3> SUFFICES ASSUME NEW i \in 1 .. len + 1 PROVE mem'[Len(mem')][i] \in Childs \cup {s}
      BY <2>1
    <3> QED
      BY <1>1, <2>2, <2>3
  <2>7. \A x : x \in Childs \cup {s} => x \in Childs'
    <3>1. s \in Childs'
      BY <1>1, <2>1, <2>5
    <3>2. ASSUME NEW i \in 1 .. len PROVE a[i] \in Childs'
      BY <1>1, <2>1, <2>4
    <3> QED
      BY <2>2, <3>1, <3>2
  <2> QED
    BY <2>6, <2>7
<1>3. Moves
  <2>1. Slices'
    <3>1. mem' # <<>>
      BY <1>0, <1>1, EmptySeq
    <3>2. len' \in 0 .. Len(mem'[Len(mem')])
      BY <1>0, <1>1
    <3> QED
      BY <1>1, <1>2, <3>1, <3>2 DEF Slices, Current
  <2> QED
    BY <1>1, <1>2, <2>1 DEF Moves
<1>4. ASSUME NoTwins, s \notin Childs PROVE NoTwins'
  <2>1. \A i \in 1 .. len : a[i] # s
    BY <1>4 DEF Childs
  <2>2. \A i, j \in 1 .. len : a[i] = a[j] => i = j
    BY <1>4 DEF NoTwins
  <2>3. \A i \in 1 .. len + 1 : i \in 1 .. len \/ i = len + 1
    BY <1>0
  <2>4. \A i, j \in 1 .. len + 1 : mem'[Len(mem')][i] = mem'[Len(mem')][j] => i = j
    BY <1>1, <2>1, <2>2, <2>3
  <2> QED
    BY <1>0, <2>4 DEF NoTwins, Current
<1> QED
  BY <1>2, <1>3, <1>4

(* append(n.childs[:i], n.childs[i+1:]...): the others move down. *)
LEMMA ShiftMoves ==
  ASSUME Slices, NoTwins, NEW s \in Senders, NEW i \in 1 .. len, mem[Current][i] = s,
         mem' = [mem EXCEPT ![Current] =
                   [j \in 1 .. Len(mem[Current]) |->
                      IF j \in i .. len - 1 THEN mem[Current][j + 1] ELSE mem[Current][j]]],
         len' = len - 1
  PROVE  Moves /\ Childs' = Childs \ {s} /\ NoTwins'
<1> DEFINE a == mem[Current]
           b == [j \in 1 .. Len(a) |-> IF j \in i .. len - 1 THEN a[j + 1] ELSE a[j]]
<1>0. /\ Current \in 1 .. Len(mem) /\ Len(mem) \in Nat \ {0} /\ len \in Nat \ {0} /\ i \in Nat \ {0}
      /\ a \in Seq(Slot) /\ Len(a) \in Nat /\ len <= Len(a) /\ i <= len
      /\ mem \in Seq(Seq(Slot)) /\ Current = Len(mem) /\ mem # <<>>
  BY Arrays DEF Slices, Current
<1>1. \A j \in 1 .. Len(a) : a[j] \in Slot
  BY <1>0, ElementOfSeq
<1>2. b \in [1 .. Len(a) -> Slot]
  <2> SUFFICES ASSUME NEW j \in 1 .. Len(a)
               PROVE  (IF j \in i .. len - 1 THEN a[j + 1] ELSE a[j]) \in Slot
    OBVIOUS
  <2>1. j \in i .. len - 1 => j + 1 \in 1 .. Len(a)
    BY <1>0
  <2> QED
    BY <1>1, <2>1
<1>3. b \in Seq(Slot)
  BY <1>0, <1>2, SeqDef
<1>4. Len(b) = Len(a)
  <2>1. DOMAIN b = 1 .. Len(a) /\ DOMAIN b = 1 .. Len(b) /\ Len(b) \in Nat
    BY <1>3, LenProperties
  <2> QED
    BY ONLY <1>0, <2>1
<1>5. \A j \in 1 .. Len(a) : b[j] = IF j \in i .. len - 1 THEN a[j + 1] ELSE a[j]
  OBVIOUS
<1>6. mem' = [mem EXCEPT ![Current] = b]
  OBVIOUS
<1> HIDE DEF b
<1>7. /\ mem' \in Seq(Seq(Slot)) /\ Len(mem') = Len(mem)
      /\ \A j \in 1 .. Len(mem) : mem'[j] = IF j = Current THEN b ELSE mem[j]
  <2>1. /\ [mem EXCEPT ![Current] = b] \in Seq(Seq(Slot))
        /\ Len([mem EXCEPT ![Current] = b]) = Len(mem)
        /\ \A j \in 1 .. Len(mem) : [mem EXCEPT ![Current] = b][j] = IF j = Current THEN b ELSE mem[j]
    BY ONLY <1>0, <1>3, ExceptSeq
  <2> QED
    BY ONLY <1>6, <2>1
<1>8. mem'[Len(mem')] = b /\ Current' = Len(mem')
  BY <1>0, <1>7 DEF Current
(* Where each of the children has gone. *)
<1>9. /\ \A j \in 1 .. len - 1 : j \in 1 .. Len(a) /\ b[j] = a[IF j < i THEN j ELSE j + 1]
      /\ \A j \in 1 .. len - 1 : (IF j < i THEN j ELSE j + 1) \in 1 .. len
      /\ \A j \in 1 .. len - 1 : (IF j < i THEN j ELSE j + 1) # i
  <2>1. \A j \in 1 .. len - 1 : j \in 1 .. Len(a) /\ (j < i <=> j \notin i .. len - 1)
    BY <1>0
  <2>2. \A j \in 1 .. len - 1 : b[j] = a[IF j < i THEN j ELSE j + 1]
    BY <1>5, <2>1
  <2>3. \A j \in 1 .. len - 1 :
          (IF j < i THEN j ELSE j + 1) \in 1 .. len /\ (IF j < i THEN j ELSE j + 1) # i
    BY <1>0
  <2> QED
    BY <2>1, <2>2, <2>3
<1>10. Childs = {a[j] : j \in 1 .. len} /\ Childs' = {b[j] : j \in 1 .. len - 1}
  BY <1>8 DEF Childs
<1>11. \A j, k \in 1 .. len : a[j] = a[k] => j = k
  BY DEF NoTwins
<1>12. Childs' = Childs \ {s}
  <2>1. ASSUME NEW j \in 1 .. len - 1 PROVE b[j] \in Childs \ {s}
    <3> DEFINE k == IF j < i THEN j ELSE j + 1
    <3>1. k \in 1 .. len /\ b[j] = a[k] /\ k # i
      BY <1>9
    <3> QED
      BY <1>10, <1>11, <3>1
  <2>2. ASSUME NEW k \in 1 .. len, a[k] # s PROVE a[k] \in Childs'
    <3>1. k # i
      BY <2>2
    <3> DEFINE j == IF k < i THEN k ELSE k - 1
    <3>2. j \in 1 .. len - 1 /\ (IF j < i THEN j ELSE j + 1) = k
      BY <1>0, <3>1
    <3>3. b[j] = a[k]
      BY <1>9, <3>2
    <3> QED
      BY <1>10, <3>2, <3>3
  <2> QED
    BY <1>10, <2>1, <2>2
<1>13. NoTwins'
  <2>1. ASSUME NEW j \in 1 .. len - 1, NEW k \in 1 .. len - 1, b[j] = b[k] PROVE j = k
    <3>1. (IF j < i THEN j ELSE j + 1) = (IF k < i THEN k ELSE k + 1)
      BY <1>9, <1>11, <2>1
    <3> QED
      BY <1>0, <3>1
  <2>2. len' = len - 1 /\ mem'[Current'] = b
    BY <1>8
  <2>3. \A j, k \in 1 .. len' : mem'[Current'][j] = mem'[Current'][k] => j = k
    BY ONLY <2>1, <2>2
  <2> QED
    BY <2>3 DEF NoTwins
<1>14. Moves
  <2>1. Slices'
    <3>1. mem' # <<>>
      BY <1>0, <1>7, EmptySeq
    <3>2. len' \in 0 .. Len(b)
      BY <1>0, <1>4
    <3>3. Childs' \subseteq Senders
      BY <1>12 DEF Slices
    <3> QED
      BY <1>7, <1>8, <3>1, <3>2, <3>3 DEF Slices
  <2>2. \A j \in 1 .. Len(a) : b[j] = a[j] \/ b[j] \in Childs
    <3> SUFFICES ASSUME NEW j \in 1 .. Len(a), j \in i .. len - 1 PROVE b[j] \in Childs
      BY <1>5
    <3>1. j + 1 \in 1 .. len /\ b[j] = a[j + 1]
      BY <1>0, <1>5
    <3> QED
      BY <1>10, <3>1
  <2>3. \A k \in 1 .. Len(mem) :
          /\ Len(mem'[k]) = Len(mem[k])
          /\ \A j \in 1 .. Len(mem[k]) : mem'[k][j] = mem[k][j] \/ mem'[k][j] \in Childs
    <3> SUFFICES ASSUME NEW k \in 1 .. Len(mem)
                 PROVE  /\ Len(mem'[k]) = Len(mem[k])
                        /\ \A j \in 1 .. Len(mem[k]) : mem'[k][j] = mem[k][j] \/ mem'[k][j] \in Childs
      OBVIOUS
    <3>1. CASE k = Current
      BY ONLY <1>4, <1>7, <2>2, <3>1
    <3>2. CASE k # Current
      BY ONLY <1>7, <3>2
    <3> QED
      BY <3>1, <3>2
  <2>4. Len(mem) <= Len(mem')
    BY <1>0, <1>7
  <2>5. \A k \in 1 .. Len(mem) :
          /\ Len(mem'[k]) = Len(mem[k])
          /\ \A j \in 1 .. Len(mem[k]) :
               mem'[k][j] = mem[k][j] \/ mem'[k][j] \in Childs \cup Childs'
    BY ONLY <2>3
  <2> QED
    BY ONLY <2>1, <2>4, <2>5 DEF Moves
<1> QED
  BY <1>12, <1>13, <1>14

(* Remove, also of a sender that is not a child any more. *)
LEMMA RemoveMoves ==
  ASSUME Slices, NoTwins, NEW s \in Senders, Remove(s)
  PROVE  Moves /\ Childs' = Childs \ {s} /\ NoTwins'
<1>1. CASE s \notin Childs /\ UNCHANGED <<mem, len, walk>>
  <2>1. mem' = mem /\ len' = len
    BY <1>1
  <2>2. Childs' = Childs /\ NoTwins' /\ Slices'
    BY <2>1 DEF Childs, NoTwins, Slices, Current
  <2>3. Len(mem) \in Nat
    BY LenProperties DEF Slices
  <2> QED
    BY <1>1, <2>1, <2>2, <2>3 DEF Moves
<1>2. ASSUME NEW i \in 1 .. len, mem[Current][i] = s,
             mem' = [mem EXCEPT ![Current] =
                       [j \in 1 .. Len(mem[Current]) |->
                          IF j \in i .. len - 1 THEN mem[Current][j + 1] ELSE mem[Current][j]]],
             len' = len - 1
      PROVE  Moves /\ Childs' = Childs \ {s} /\ NoTwins'
  BY <1>2, ShiftMoves
<1> QED
  BY <1>1, <1>2 DEF Remove

-----------------------------------------------------------------------------
(* The invariant.                                                          *)

WalkType ==
  [in : BOOLEAN, pkt : Nat, over : Walking, gone : SUBSET Senders, fed : Seq(Senders)]

CloserType ==
  [at : {"new", "count", "range", "walk", "end"}, of : Slot, stack : Seq(Walking),
   others : SUBSET Senders]

Types ==
  /\ Slices /\ NoTwins
  /\ place \in [Senders -> {"new", "appended", "bound"}]
  /\ walk \in WalkType /\ walk.pkt <= MaxPackets
  /\ closer \in [Closers -> CloserType]
  /\ \A k \in Closers : closer[k].at = "new" => closer[k] = Away

(* A walk stays within its array, over places that hold senders. *)
Within(w) ==
  /\ w.at <= Len(mem) /\ w.at # 0
  /\ w.end <= Len(mem[w.at])
  /\ \A i \in 1 .. w.end : mem[w.at][i] \in Senders

WithinNext(w) ==
  /\ w.at <= Len(mem') /\ w.at # 0
  /\ w.end <= Len(mem'[w.at])
  /\ \A i \in 1 .. w.end : mem'[w.at][i] \in Senders

WalksWithin ==
  /\ Within(walk.over)
  /\ \A k \in Closers : \A i \in 1 .. Len(closer[k].stack) : Within(closer[k].stack[i])

(* A child has been attached, and one that left is no child and does not   *)
(* come back.                                                              *)
Placed ==
  /\ \A s \in Childs : place[s] # "new"
  /\ \A s \in Senders : Left(s) => s \notin Childs /\ place[s] = "bound"

(* Who had left when the packet came is not in what is left of the walk.   *)
Cleared ==
  \A s \in walk.gone :
    /\ Left(s)
    /\ \A i \in 1 .. Len(walk.fed) : walk.fed[i] # s
    /\ \A i \in walk.over.next .. walk.over.end : mem[walk.over.at][i] # s

(* Those that were attached beside a sender that left have been attached   *)
(* once, and are gone when it closes the receiver.                         *)
Deserted ==
  \A k \in Closers :
    /\ \A s \in closer[k].others : place[s] # "new"
    /\ closer[k].of # Nobody /\ (closer[k].at = "range" \/ closer[k].stack # <<>>)
         => Childs \cap closer[k].others = {}

IInv == Types /\ WalksWithin /\ Placed /\ Cleared /\ Deserted

(* Walks go on over the same places after an append or a removal ... *)
LEMMA WithinKept ==
  ASSUME Types, Moves, NEW w \in Walking, Within(w)
  PROVE  WithinNext(w)
<1>1. /\ w.at \in 1 .. Len(mem) /\ w.end \in Nat
      /\ Len(mem) \in Nat /\ Len(mem') \in Nat /\ Len(mem[w.at]) \in Nat
  <2>1. Len(mem) \in Nat /\ Len(mem') \in Nat /\ w.at \in Nat /\ w.end \in Nat
    BY LenProperties DEF Types, Moves, Slices, Walking
  <2>2. w.at \in 1 .. Len(mem)
    BY <2>1 DEF Within
  <2> QED
    BY <2>1, <2>2, Arrays DEF Types
<1>2. \A i \in 1 .. w.end : i \in 1 .. Len(mem[w.at]) /\ mem[w.at][i] \in Senders
  BY <1>1 DEF Within
<1>3. Childs \cup Childs' \subseteq Senders
  BY DEF Types, Moves, Slices
<1>4. \A i \in 1 .. w.end : mem'[w.at][i] \in Senders
  BY <1>1, <1>2, <1>3 DEF Moves
<1>5. w.at <= Len(mem') /\ w.at # 0 /\ w.end <= Len(mem'[w.at])
  BY <1>1 DEF Moves, Within
<1> QED
  BY <1>4, <1>5 DEF WithinNext

(* ... and everything else that the arrays decide stays, when nobody who   *)
(* has left becomes a child.                                               *)
LEMMA WalksKept ==
  ASSUME IInv, Moves, closer' \in [Closers -> CloserType],
         walk' = walk,
         \A s \in Senders : Left(s) => Left(s)' /\ s \notin Childs'
  PROVE  /\ walk' \in WalkType /\ walk'.pkt = walk.pkt /\ WithinNext(walk'.over)
         /\ Cleared'
<1>1. /\ walk' \in WalkType /\ walk'.pkt = walk.pkt /\ walk'.over = walk.over
      /\ walk'.gone = walk.gone /\ walk'.fed = walk.fed
      /\ walk.over \in Walking /\ walk.gone \subseteq Senders
  BY DEF IInv, Types, WalkType
<1>2. Within(walk.over)
  BY DEF IInv, WalksWithin
<1>3. WithinNext(walk.over)
  BY <1>1, <1>2, WithinKept DEF IInv
<1>4. Cleared'
  <2> SUFFICES ASSUME NEW s \in walk.gone
               PROVE  /\ Left(s)'
                      /\ \A i \in 1 .. Len(walk.fed) : walk.fed[i] # s
                      /\ \A i \in walk.over.next .. walk.over.end : mem'[walk.over.at][i] # s
    BY <1>1 DEF Cleared
  <2>1. /\ s \in Senders /\ Left(s)
        /\ \A i \in 1 .. Len(walk.fed) : walk.fed[i] # s
        /\ \A i \in walk.over.next .. walk.over.end : mem[walk.over.at][i] # s
    BY <1>1 DEF IInv, Cleared
  <2>2. Left(s)' /\ s \notin Childs' /\ s \notin Childs
    BY <2>1 DEF IInv, Placed
  <2>3. /\ walk.over.at \in 1 .. Len(mem)
        /\ \A i \in walk.over.next .. walk.over.end : i \in 1 .. Len(mem[walk.over.at])
    <3>1. /\ walk.over.at \in Nat /\ walk.over.end \in Nat /\ walk.over.next \in Nat \ {0}
          /\ Len(mem) \in Nat
      BY <1>1, LenProperties DEF Walking, IInv, Types, Slices
    <3>2. walk.over.at \in 1 .. Len(mem)
      BY <1>2, <3>1 DEF Within
    <3>3. Len(mem[walk.over.at]) \in Nat /\ walk.over.end <= Len(mem[walk.over.at])
      BY <1>2, <3>2, Arrays DEF Within, IInv, Types
    <3> QED
      BY <3>1, <3>2, <3>3
  <2>4. \A i \in walk.over.next .. walk.over.end : mem'[walk.over.at][i] # s
    BY <2>1, <2>2, <2>3 DEF Moves
  <2> QED
    BY <2>1, <2>2, <2>4
<1> QED
  BY <1>1, <1>3, <1>4

(* A sender is attached: it was never a child and never left. *)
LEMMA AttachKeeps == \A s \in Senders : IInv /\ Attach(s) => IInv'
<1> SUFFICES ASSUME NEW s \in Senders, IInv, Attach(s) PROVE IInv'
  OBVIOUS
<1>1. /\ place[s] = "new" /\ place' = [place EXCEPT ![s] = "appended"] /\ Add(s)
      /\ walk' = walk /\ closer' = closer /\ Types /\ Slices /\ NoTwins
  BY DEF Attach, IInv, Types
<1>2. s \notin Childs /\ ~Left(s)
  BY <1>1 DEF IInv, Placed
<1>3. Moves /\ Childs' = Childs \cup {s} /\ NoTwins'
  BY <1>1, <1>2, AddMoves
<1>4. \A t \in Senders : Left(t) => Left(t)' /\ t \notin Childs'
  BY <1>1, <1>2, <1>3 DEF IInv, Placed, Left
<1>5. /\ walk' \in WalkType /\ walk'.pkt = walk.pkt /\ WithinNext(walk'.over) /\ Cleared'
  BY <1>1, <1>3, <1>4, WalksKept DEF Types
<1>6. Types'
  BY <1>1, <1>3, <1>5 DEF Types, Moves
<1>7. WalksWithin'
  <2>1. ASSUME NEW k \in Closers, NEW i \in 1 .. Len(closer[k].stack)
        PROVE  WithinNext(closer[k].stack[i])
    <3>1. closer[k].stack \in Seq(Walking)
      BY <1>1 DEF Types, CloserType
    <3>2. closer[k].stack[i] \in Walking /\ Within(closer[k].stack[i])
      BY <3>1, ElementOfSeq DEF IInv, WalksWithin
    <3> QED
      BY <1>1, <1>3, <3>2, WithinKept
  <2> QED
    BY <1>1, <1>5, <2>1 DEF WalksWithin, Within, WithinNext
<1>8. Placed'
  BY <1>1, <1>2, <1>3, <1>4 DEF IInv, Placed, Types, Left
<1>9. Deserted'
  BY <1>1, <1>3 DEF IInv, Deserted, Types
<1> QED
  BY <1>5, <1>6, <1>7, <1>8, <1>9 DEF IInv

(* The arrays stand still. *)
LEMMA StillMoves ==
  ASSUME Types, mem' = mem, len' = len
  PROVE  Moves /\ Childs' = Childs /\ NoTwins'
<1>1. Childs' = Childs /\ NoTwins' /\ Slices'
  BY DEF Types, Childs, NoTwins, Slices, Current
<1>2. Len(mem) \in Nat
  BY LenProperties DEF Types, Slices
<1> QED
  BY <1>1, <1>2 DEF Moves

(* A child gets its parent. *)
LEMMA SetParentKeeps == \A s \in Senders : IInv /\ SetParent(s) => IInv'
<1> SUFFICES ASSUME NEW s \in Senders, IInv, SetParent(s) PROVE IInv'
  OBVIOUS
<1>1. /\ place[s] = "appended" /\ place' = [place EXCEPT ![s] = "bound"]
      /\ mem' = mem /\ len' = len /\ walk' = walk /\ closer' = closer /\ Types
  BY DEF SetParent, IInv
<1>2. Moves /\ Childs' = Childs /\ NoTwins'
  BY <1>1, StillMoves
<1>3. Types'
  BY <1>1, <1>2 DEF Types, Moves
<1>4. \A t \in Senders : Left(t)' <=> Left(t)
  BY <1>1 DEF Left
<1>5. WalksWithin'
  BY <1>1 DEF IInv, WalksWithin, Within
<1>6. Placed'
  BY <1>1, <1>2, <1>4 DEF IInv, Placed, Types
<1>7. Cleared'
  BY <1>1, <1>4 DEF IInv, Cleared, Types, WalkType, Left
<1>8. Deserted'
  BY <1>1, <1>2 DEF IInv, Deserted, Types
<1> QED
  BY <1>3, <1>5, <1>6, <1>7, <1>8 DEF IInv

(* What a step of the source's goroutine has to show. *)
LEMMA WalkKeeps ==
  ASSUME IInv, UNCHANGED <<mem, len, place, closer>>,
         walk' \in WalkType, walk'.pkt <= MaxPackets, Within(walk'.over),
         \A s \in walk'.gone :
           /\ Left(s)
           /\ \A i \in 1 .. Len(walk'.fed) : walk'.fed[i] # s
           /\ \A i \in walk'.over.next .. walk'.over.end : mem[walk'.over.at][i] # s
  PROVE  IInv'
<1>1. mem' = mem /\ len' = len /\ place' = place /\ closer' = closer /\ Types
  BY DEF IInv
<1>2. Moves /\ Childs' = Childs /\ NoTwins'
  BY <1>1, StillMoves
<1>3. Types'
  BY <1>1, <1>2 DEF Types, Moves
<1>4. \A t : Left(t)' <=> Left(t)
  BY <1>1 DEF Left
<1>5. WalksWithin'
  BY <1>1 DEF IInv, WalksWithin, Within
<1>6. Placed'
  BY <1>1, <1>2, <1>4 DEF IInv, Placed
<1>7. Cleared'
  BY <1>1, <1>4 DEF Cleared
<1>8. Deserted'
  BY <1>1, <1>2 DEF IInv, Deserted
<1> QED
  BY <1>3, <1>5, <1>6, <1>7, <1>8 DEF IInv

(* A walk over the children as they are is within the last array. *)
LEMMA WholeWithin ==
  ASSUME Types
  PROVE  /\ Whole \in Walking /\ Within(Whole)
         /\ Whole.at = Current /\ Whole.end = len /\ Whole.next = 1
<1>1. /\ Current \in 1 .. Len(mem) /\ Len(mem) \in Nat \ {0} /\ len \in Nat
      /\ len <= Len(mem[Current]) /\ \A i \in 1 .. len : mem[Current][i] \in Senders
  BY Arrays DEF Types
<1>2. Current \in Nat /\ Current <= Len(mem) /\ Current # 0 /\ 1 \in Nat \ {0}
  BY <1>1
<1> QED
  BY <1>1, <1>2 DEF Whole, Walking, Within

(* A packet comes: who has left is no child. *)
LEMMA InputKeeps == IInv /\ Input => IInv'
<1> SUFFICES ASSUME IInv, Input PROVE IInv'
  OBVIOUS
<1> DEFINE G == {s \in Senders : Left(s)}
           W == [in |-> TRUE, pkt |-> walk.pkt + 1, over |-> Whole, gone |-> G, fed |-> <<>>]
<1>1. /\ UNCHANGED <<mem, len, place, closer>> /\ walk' = W /\ walk.pkt < MaxPackets
      /\ Types /\ walk.pkt \in Nat /\ MaxPackets \in Nat
  BY NodeAssumption DEF IInv, Input, Types, WalkType
<1>2. Whole \in Walking /\ Within(Whole) /\ Whole.at = Current /\ Whole.end = len /\ Whole.next = 1
  BY <1>1, WholeWithin
<1>3. Childs \subseteq Senders /\ G \subseteq Senders /\ <<>> \in Seq(Senders) /\ Len(<<>>) = 0
  BY <1>1 DEF Types, Slices
<1>4. /\ W.pkt = walk.pkt + 1 /\ W.over = Whole /\ W.gone = G /\ W.fed = <<>>
  OBVIOUS
<1>5. W \in WalkType
  BY <1>1, <1>2, <1>3 DEF WalkType
<1>6. \A s \in G : Left(s) /\ \A i \in 1 .. len : mem[Current][i] # s
  BY DEF IInv, Placed, Childs
<1>7. \A i \in 1 .. Len(<<>>) : FALSE
  BY <1>3
<1> HIDE DEF W, G
<1>8. walk'.pkt <= MaxPackets
  BY <1>1, <1>4
<1>9. \A s \in walk'.gone :
        /\ Left(s)
        /\ \A i \in 1 .. Len(walk'.fed) : walk'.fed[i] # s
        /\ \A i \in walk'.over.next .. walk'.over.end : mem[walk'.over.at][i] # s
  BY <1>1, <1>2, <1>4, <1>6, <1>7
<1> QED
  BY <1>1, <1>2, <1>4, <1>5, <1>8, <1>9, WalkKeeps

(* A child gets the packet. *)
LEMMA FeedKeeps == IInv /\ Feed => IInv'
<1> SUFFICES ASSUME IInv, Feed PROVE IInv'
  OBVIOUS
<1> DEFINE w == walk.over
           s == mem[w.at][w.next]
           f == Append(walk.fed, s)
<1>1. /\ UNCHANGED <<mem, len, place, closer>>
      /\ walk' = [walk EXCEPT !.over.next = @ + 1, !.fed = f] /\ w.next <= w.end
      /\ Types /\ walk \in WalkType /\ walk.pkt <= MaxPackets /\ w \in Walking
      /\ walk.fed \in Seq(Senders) /\ Within(w)
  BY DEF IInv, Feed, Types, WalkType, WalksWithin
<1>2. w.next \in Nat \ {0} /\ w.end \in Nat /\ w.next + 1 \in Nat \ {0} /\ w.next \in 1 .. w.end
  BY <1>1 DEF Walking
<1>3. s \in Senders
  BY <1>1, <1>2 DEF Within
<1>4. /\ f \in Seq(Senders) /\ Len(f) = Len(walk.fed) + 1 /\ Len(walk.fed) \in Nat
      /\ \A i \in 1 .. Len(walk.fed) : f[i] = walk.fed[i]
      /\ f[Len(walk.fed) + 1] = s
  BY <1>1, <1>3, AppendProperties, LenProperties
<1> HIDE DEF f
<1>5. /\ walk' \in WalkType /\ walk'.pkt = walk.pkt /\ walk'.gone = walk.gone /\ walk'.fed = f
      /\ walk'.over.at = w.at /\ walk'.over.end = w.end /\ walk'.over.next = w.next + 1
  BY <1>1, <1>2, <1>4 DEF WalkType, Walking
<1>6. Within(walk'.over)
  BY <1>1, <1>5 DEF Within
<1>7. ASSUME NEW t \in walk.gone
      PROVE  /\ Left(t)
             /\ \A i \in 1 .. Len(f) : f[i] # t
             /\ \A i \in w.next + 1 .. w.end : mem[w.at][i] # t
  <2>1. /\ Left(t)
        /\ \A i \in 1 .. Len(walk.fed) : walk.fed[i] # t
        /\ \A i \in w.next .. w.end : mem[w.at][i] # t
    BY DEF IInv, Cleared
  <2>2. s # t
    BY <1>2, <2>1
  <2>3. \A i \in 1 .. Len(f) : i \in 1 .. Len(walk.fed) \/ i = Len(walk.fed) + 1
    BY <1>4
  <2>4. \A i \in w.next + 1 .. w.end : i \in w.next .. w.end
    BY <1>2
  <2> QED
    BY <1>4, <2>1, <2>2, <2>3, <2>4
<1> QED
  BY <1>1, <1>5, <1>6, <1>7, WalkKeeps

(* Every child has the packet. *)
LEMMA FedKeeps == IInv /\ Fed => IInv'
<1> SUFFICES ASSUME IInv, Fed PROVE IInv'
  OBVIOUS
<1>1. /\ UNCHANGED <<mem, len, place, closer>> /\ walk' = [Outside EXCEPT !.pkt = walk.pkt]
      /\ Types /\ walk.pkt \in Nat /\ walk.pkt <= MaxPackets
  BY DEF IInv, Fed, Types, WalkType
<1>2. Len(mem) \in Nat \ {0} /\ \A a \in 1 .. Len(mem) : Len(mem[a]) \in Nat
  BY <1>1, Arrays DEF Types
<1>3. 1 <= Len(mem) /\ 0 <= Len(mem[1]) /\ \A i \in 1 .. 0 : FALSE
  BY <1>2
<1>4. walk'.over = [at |-> 1, end |-> 0, next |-> 1] /\ walk'.gone = {} /\ walk'.pkt = walk.pkt
  BY <1>1 DEF Outside
<1>5. <<>> \in Seq(Senders)
  OBVIOUS
<1>6. walk' \in WalkType
  <2>1. [at |-> 1, end |-> 0, next |-> 1] \in Walking
    BY DEF Walking
  <2>2. walk' = [in |-> FALSE, pkt |-> walk.pkt, over |-> [at |-> 1, end |-> 0, next |-> 1],
                 gone |-> {}, fed |-> <<>>]
    BY <1>1 DEF Outside
  <2>3. ASSUME NEW f \in Seq(Senders), NEW o \in Walking
        PROVE  [in |-> FALSE, pkt |-> walk.pkt, over |-> o, gone |-> {}, fed |-> f] \in WalkType
    BY <1>1 DEF WalkType
  <2> QED
    BY ONLY <1>5, <2>1, <2>2, <2>3, Zenon
<1>7. Within(walk'.over)
  BY <1>3, <1>4 DEF Within
<1> QED
  BY <1>1, <1>4, <1>6, <1>7, WalkKeeps

(* A goroutine that has not begun. *)
LEMMA AwayFields ==
  /\ Away \in CloserType
  /\ Away.at = "new" /\ Away.of = Nobody /\ Away.stack = <<>> /\ Away.others = {}
<1>1. ASSUME NEW e \in Seq(Walking), NEW r, r = [at |-> "new", of |-> Nobody, stack |-> e, others |-> {}]
      PROVE  r \in CloserType /\ r.at = "new" /\ r.of = Nobody /\ r.stack = e /\ r.others = {}
  BY <1>1 DEF CloserType, Slot
<1>2. <<>> \in Seq(Walking)
  OBVIOUS
<1>3. Away = [at |-> "new", of |-> Nobody, stack |-> <<>>, others |-> {}]
  BY Zenon DEF Away
<1> QED
  BY ONLY <1>1, <1>2, <1>3, Zenon

(* What a step of a goroutine that closes has to show: c is its new state. *)
LEMMA CloserKeeps ==
  ASSUME IInv, NEW k \in Closers, NEW c \in CloserType,
         closer' = [closer EXCEPT ![k] = c], place' = place, c.at # "new",
         Moves, NoTwins', Childs' \subseteq Childs,
         walk' = walk,
         \A i \in 1 .. Len(c.stack) : WithinNext(c.stack[i]),
         \/ c.of = closer[k].of
         \/ closer[k].of = Nobody /\ (c.of \in Senders => c.of \notin Childs' /\ place[c.of] = "bound"),
         \A s \in c.others : place[s] # "new",
         c.of # Nobody /\ (c.at = "range" \/ c.stack # <<>>) => Childs' \cap c.others = {}
  PROVE  IInv'
<1>1. /\ Types /\ closer \in [Closers -> CloserType] /\ closer' \in [Closers -> CloserType]
      /\ closer'[k] = c /\ \A q \in Closers : q # k => closer'[q] = closer[q]
  BY DEF IInv, Types
<1>2. Nobody \notin Senders
  BY NodeAssumption
<1>3. \A s \in Senders : Left(s) => Left(s)' /\ s \notin Childs'
  BY <1>1, <1>2 DEF Left, IInv, Placed
<1>4. /\ walk' \in WalkType /\ walk'.pkt = walk.pkt /\ WithinNext(walk'.over) /\ Cleared'
  BY <1>1, <1>3, WalksKept
<1>5. Types'
  BY <1>1, <1>4 DEF Types, Moves
<1>6. WalksWithin'
  <2>1. ASSUME NEW q \in Closers, q # k, NEW i \in 1 .. Len(closer[q].stack)
        PROVE  WithinNext(closer[q].stack[i])
    <3>1. closer[q].stack \in Seq(Walking)
      BY <1>1 DEF CloserType
    <3>2. closer[q].stack[i] \in Walking /\ Within(closer[q].stack[i])
      BY <3>1, ElementOfSeq DEF IInv, WalksWithin
    <3> QED
      BY <1>1, <3>2, WithinKept
  <2>2. \A q \in Closers : \A i \in 1 .. Len(closer'[q].stack) : WithinNext(closer'[q].stack[i])
    BY <1>1, <2>1
  <2> QED
    BY <1>4, <2>2 DEF WalksWithin, Within, WithinNext
<1>7. Placed'
  <2>1. \A s \in Childs' : place'[s] # "new"
    BY DEF IInv, Placed
  <2>2. ASSUME NEW s \in Senders, NEW q \in Closers, closer'[q].of = s
        PROVE  s \notin Childs' /\ place'[s] = "bound"
    <3>1. CASE closer[q].of = s
      BY <3>1 DEF IInv, Placed, Left
    <3>2. CASE closer[q].of # s
      <4>1. q = k /\ c.of = s
        BY <1>1, <2>2, <3>2
      <4> QED
        BY <3>2, <4>1
    <3> QED
      BY <3>1, <3>2
  <2> QED
    BY <2>1, <2>2 DEF Placed, Left
<1>8. Deserted'
  <2> SUFFICES ASSUME NEW q \in Closers
               PROVE  /\ \A s \in closer'[q].others : place[s] # "new"
                      /\ closer'[q].of # Nobody /\ (closer'[q].at = "range" \/ closer'[q].stack # <<>>)
                           => Childs' \cap closer'[q].others = {}
    BY DEF Deserted
  <2>1. CASE q = k
    BY <1>1, <2>1
  <2>2. CASE q # k
    BY <1>1, <2>2 DEF IInv, Deserted
  <2> QED
    BY <2>1, <2>2
<1> QED
  BY <1>4, <1>5, <1>6, <1>7, <1>8 DEF IInv

(* The walks of a goroutine, before and after an append or a removal. *)
LEMMA StackWithin ==
  ASSUME IInv, Moves, NEW k \in Closers
  PROVE  /\ closer[k] \in CloserType /\ closer[k].stack \in Seq(Walking)
         /\ Len(closer[k].stack) \in Nat
         /\ \A i \in 1 .. Len(closer[k].stack) :
              /\ closer[k].stack[i] \in Walking
              /\ Within(closer[k].stack[i]) /\ WithinNext(closer[k].stack[i])
<1>1. closer[k] \in CloserType
  BY DEF IInv, Types
<1>2. closer[k].stack \in Seq(Walking)
  BY <1>1 DEF CloserType
<1>3. \A i \in 1 .. Len(closer[k].stack) : closer[k].stack[i] \in Walking /\ Within(closer[k].stack[i])
  BY <1>2, ElementOfSeq DEF IInv, WalksWithin
<1>4. \A i \in 1 .. Len(closer[k].stack) : WithinNext(closer[k].stack[i])
  BY <1>3, WithinKept DEF IInv
<1> QED
  BY <1>1, <1>2, <1>3, <1>4, LenProperties

(* A sender leaves: its consumer is the goroutine that closes. *)
LEMMA LeaveKeeps == \A k \in Closers, s \in Senders : IInv /\ Leave(k, s) => IInv'
<1> SUFFICES ASSUME NEW k \in Closers, NEW s \in Senders, IInv, Leave(k, s) PROVE IInv'
  OBVIOUS
<1> DEFINE c == [Away EXCEPT !.at = "count", !.of = s, !.others = Childs \ {s}]
<1>1. /\ closer[k].at = "new" /\ place[s] = "bound" /\ place' = place /\ Remove(s)
      /\ closer' = [closer EXCEPT ![k] = c] /\ Types /\ Slices /\ NoTwins
  BY DEF Leave, IInv, Types
<1>2. closer[k] = Away /\ closer[k].of = Nobody
  BY <1>1 DEF Types, Away
<1>3. Moves /\ Childs' = Childs \ {s} /\ NoTwins'
  BY <1>1, RemoveMoves
<1>4. Away \in CloserType /\ Away.stack = <<>>
  BY AwayFields
<1>5. /\ c \in CloserType /\ c.at = "count" /\ c.of = s /\ c.stack = <<>>
      /\ c.others = Childs \ {s}
  <2>1. Childs \ {s} \in SUBSET Senders /\ s \in Slot
    BY <1>1 DEF Slices, Slot
  <2> QED
    BY <1>4, <2>1 DEF CloserType
<1>6. walk' = walk
  BY <1>1 DEF Remove
<1>7. \A t \in Childs : place[t] # "new"
  BY DEF IInv, Placed
<1>8. \A i \in 1 .. Len(<<>>) : FALSE
  OBVIOUS
<1> HIDE DEF c
<1>9. /\ s \notin Childs' /\ Childs' \subseteq Childs /\ \A t \in c.others : place[t] # "new"
      /\ \A i \in 1 .. Len(c.stack) : WithinNext(c.stack[i])
      /\ c.at # "new" /\ c.at # "range" /\ c.stack = <<>> /\ c.of = s
  BY <1>3, <1>5, <1>7, <1>8
<1> QED
  BY <1>1, <1>2, <1>3, <1>5, <1>6, <1>9, CloserKeeps

(* A goroutine goes on and nothing else changes. *)
LEMMA OnlyCloser ==
  ASSUME IInv, NEW k \in Closers, NEW c \in CloserType,
         closer' = [closer EXCEPT ![k] = c], UNCHANGED <<mem, len, place, walk>>,
         c.at # "new", c.of = closer[k].of, c.others = closer[k].others,
         \A i \in 1 .. Len(c.stack) : Within(c.stack[i]),
         c.of # Nobody /\ (c.at = "range" \/ c.stack # <<>>) => Childs \cap c.others = {}
  PROVE  IInv'
<1>1. Types /\ mem' = mem /\ len' = len /\ place' = place /\ walk' = walk
  BY DEF IInv
<1>2. Moves /\ Childs' = Childs /\ NoTwins'
  BY <1>1, StillMoves
<1>3. \A i \in 1 .. Len(c.stack) : WithinNext(c.stack[i])
  BY <1>1 DEF Within, WithinNext
<1>4. \A s \in c.others : place[s] # "new"
  BY DEF IInv, Deserted
<1> QED
  BY <1>1, <1>2, <1>3, <1>4, CloserKeeps

(* The receiver is closed only when it has no child. *)
LEMMA CountKeeps == \A k \in Closers : IInv /\ Count(k) => IInv'
<1> SUFFICES ASSUME NEW k \in Closers, IInv, Count(k) PROVE IInv'
  OBVIOUS
<1> DEFINE c == [closer[k] EXCEPT !.at = IF len = 0 THEN "range" ELSE "walk"]
<1>1. UNCHANGED <<mem, len, place, walk>> /\ Types /\ closer[k].at = "count"
  BY DEF Count, IInv
<1>2. Moves
  BY <1>1, StillMoves
<1>3. /\ closer[k] \in CloserType
      /\ \A i \in 1 .. Len(closer[k].stack) : Within(closer[k].stack[i])
  BY <1>2, StackWithin
<1>4. closer' = [closer EXCEPT ![k] = c]
  BY <1>1 DEF Count, Types
<1>5. /\ c \in CloserType /\ c.of = closer[k].of /\ c.others = closer[k].others
      /\ c.stack = closer[k].stack /\ c.at = (IF len = 0 THEN "range" ELSE "walk")
  BY <1>3 DEF CloserType
<1>6. len = 0 => Childs = {}
  BY DEF Childs
<1>7. c.of # Nobody /\ (c.at = "range" \/ c.stack # <<>>) => Childs \cap c.others = {}
  BY <1>5, <1>6 DEF IInv, Deserted
<1> HIDE DEF c
<1> QED
  BY <1>1, <1>3, <1>4, <1>5, <1>7, OnlyCloser

(* The producer closes the receiver. *)
LEMMA CloseReceiverKeeps == \A k \in Closers : IInv /\ CloseReceiver(k) => IInv'
<1> SUFFICES ASSUME NEW k \in Closers, IInv, CloseReceiver(k) PROVE IInv'
  OBVIOUS
<1> DEFINE c == [closer[k] EXCEPT !.at = "range"]
<1>1. UNCHANGED <<mem, len, place, walk>> /\ Types /\ closer[k] = Away
  BY DEF CloseReceiver, IInv, Types
<1>2. closer[k] \in CloserType /\ closer[k].of = Nobody /\ closer[k].stack = <<>>
  <2>1. closer[k] \in CloserType
    BY <1>1 DEF Types
  <2> QED
    BY <1>1, <2>1, AwayFields
<1>3. closer' = [closer EXCEPT ![k] = c]
  BY <1>1 DEF CloseReceiver, Types
<1>4. /\ c \in CloserType /\ c.of = closer[k].of /\ c.others = closer[k].others
      /\ c.stack = closer[k].stack /\ c.at = "range"
  BY <1>2 DEF CloserType
<1>5. \A i \in 1 .. Len(<<>>) : FALSE
  OBVIOUS
<1> HIDE DEF c
<1> QED
  BY <1>1, <1>2, <1>3, <1>4, <1>5, OnlyCloser

(* The walk over the receiver's children begins. *)
LEMMA BeginSweepKeeps == \A k \in Closers : IInv /\ BeginSweep(k) => IInv'
<1> SUFFICES ASSUME NEW k \in Closers, IInv, BeginSweep(k) PROVE IInv'
  OBVIOUS
<1> DEFINE t == <<Whole>> \o closer[k].stack
           c == [closer[k] EXCEPT !.at = "walk", !.stack = t]
<1>1. UNCHANGED <<mem, len, place, walk>> /\ Types /\ closer[k].at = "range"
  BY DEF BeginSweep, IInv
<1>2. Moves
  BY <1>1, StillMoves
<1>3. /\ closer[k] \in CloserType /\ closer[k].stack \in Seq(Walking) /\ Len(closer[k].stack) \in Nat
      /\ \A i \in 1 .. Len(closer[k].stack) : Within(closer[k].stack[i])
  BY <1>2, StackWithin
<1>4. Whole \in Walking /\ Within(Whole)
  BY <1>1, WholeWithin
<1>5. <<Whole>> \in Seq(Walking) /\ Len(<<Whole>>) = 1 /\ <<Whole>>[1] = Whole
  BY <1>4
<1>6. /\ t \in Seq(Walking) /\ Len(t) = 1 + Len(closer[k].stack)
      /\ \A i \in 1 .. Len(t) : t[i] = IF i <= 1 THEN <<Whole>>[i] ELSE closer[k].stack[i - 1]
  <2>1. /\ t \in Seq(Walking) /\ Len(t) = Len(<<Whole>>) + Len(closer[k].stack)
        /\ \A i \in 1 .. Len(<<Whole>>) + Len(closer[k].stack) :
             t[i] = IF i <= Len(<<Whole>>) THEN <<Whole>>[i] ELSE closer[k].stack[i - Len(<<Whole>>)]
    BY <1>3, <1>5, ConcatProperties
  <2> QED
    BY <1>5, <2>1
<1>7. closer' = [closer EXCEPT ![k] = c]
  BY <1>1 DEF BeginSweep, Types
<1> HIDE DEF t
<1>8. \A i \in 1 .. Len(t) : Within(t[i])
  <2> SUFFICES ASSUME NEW i \in 1 .. Len(t) PROVE Within(t[i])
    OBVIOUS
  <2>1. CASE i = 1
    BY <1>4, <1>5, <1>6, <2>1
  <2>2. CASE i # 1
    <3>1. i - 1 \in 1 .. Len(closer[k].stack) /\ t[i] = closer[k].stack[i - 1]
      BY <1>3, <1>6, <2>2
    <3> QED
      BY <1>3, <3>1
  <2> QED
    BY <2>1, <2>2
<1>9. /\ c \in CloserType /\ c.of = closer[k].of /\ c.others = closer[k].others
      /\ c.stack = t /\ c.at = "walk"
  BY <1>3, <1>6 DEF CloserType
<1>10. closer[k].of # Nobody => Childs \cap closer[k].others = {}
  BY <1>1 DEF IInv, Deserted
<1> HIDE DEF c
<1> QED
  BY <1>1, <1>7, <1>8, <1>9, <1>10, OnlyCloser

(* One step along the walk on top of a stack. *)
LEMMA StepStack ==
  ASSUME NEW c \in CloserType, c.stack # <<>>
  PROVE  LET d == [c EXCEPT !.stack[1].next = @ + 1]
             w == c.stack[1] IN
         /\ d \in CloserType /\ d.at = c.at /\ d.of = c.of /\ d.others = c.others
         /\ w \in Walking /\ 1 \in 1 .. Len(c.stack) /\ Len(d.stack) = Len(c.stack)
         /\ d.stack # <<>> /\ d.stack[1].at = w.at /\ d.stack[1].end = w.end
         /\ \A i \in 1 .. Len(c.stack) : i # 1 => d.stack[i] = c.stack[i]
<1> DEFINE t == c.stack
           w == t[1]
           v == [w EXCEPT !.next = @ + 1]
           u == [t EXCEPT ![1] = v]
           d == [c EXCEPT !.stack[1].next = @ + 1]
<1>1. t \in Seq(Walking) /\ Len(t) \in Nat /\ t # <<>>
  BY LenProperties DEF CloserType
<1>2. 1 \in 1 .. Len(t)
  BY <1>1, EmptySeq
<1>3. w \in Walking
  BY <1>1, <1>2, ElementOfSeq
<1>4. v \in Walking /\ v.at = w.at /\ v.end = w.end
  BY <1>3 DEF Walking
<1> HIDE DEF v
<1>5. u \in Seq(Walking) /\ Len(u) = Len(t) /\ \A i \in 1 .. Len(t) : u[i] = IF i = 1 THEN v ELSE t[i]
  BY ONLY <1>1, <1>2, <1>4, ExceptSeq
<1>6. u # <<>>
  BY <1>1, <1>2, <1>5, EmptySeq
<1>7. d = [c EXCEPT !.stack = u]
  BY Zenon DEF v
<1> HIDE DEF u, d
<1>8. d \in CloserType /\ d.at = c.at /\ d.of = c.of /\ d.others = c.others /\ d.stack = u
  BY <1>5, <1>7 DEF CloserType
<1>9. u[1] = v /\ \A i \in 1 .. Len(t) : i # 1 => u[i] = t[i]
  BY <1>2, <1>5
<1> QED
  BY <1>2, <1>3, <1>4, <1>5, <1>6, <1>8, <1>9 DEF d

(* A child leaves, or has nothing to leave. *)
LEMMA SweepKeeps == \A k \in Closers : IInv /\ Sweep(k) => IInv'
<1> SUFFICES ASSUME NEW k \in Closers, IInv, Sweep(k) PROVE IInv'
  OBVIOUS
<1> DEFINE old == closer[k]
           w == old.stack[1]
           s == mem[w.at][w.next]
           step == [old EXCEPT !.stack[1].next = @ + 1]
<1>1. /\ Types /\ Slices /\ NoTwins /\ old.at = "walk" /\ old.stack # <<>> /\ place' = place
      /\ w.next <= w.end /\ Head(old.stack) = w
  <2>1. Types /\ Slices /\ NoTwins
    BY SMTT(30) DEF IInv, Types
  <2>2. old.stack # <<>> /\ old.at = "walk" /\ place' = place
    BY DEF Sweep
  <2>3. Head(old.stack) = w
    BY <2>1, <2>2, SMTT(30) DEF Types, CloserType
  <2> QED
    BY <2>1, <2>2, <2>3 DEF Sweep
<1>2. /\ \/ /\ place[s] = "bound" /\ Remove(s)
            /\ closer' = [closer EXCEPT ![k] = [step EXCEPT !.at = "count"]]
         \/ /\ closer' = [closer EXCEPT ![k] = step]
            /\ UNCHANGED <<mem, len, walk>>
  BY <1>1 DEF Sweep
<1>3. old \in CloserType
  BY <1>1 DEF Types
<1>4. /\ step \in CloserType /\ step.at = old.at /\ step.of = old.of /\ step.others = old.others
      /\ w \in Walking /\ 1 \in 1 .. Len(old.stack) /\ Len(step.stack) = Len(old.stack)
      /\ step.stack # <<>> /\ step.stack[1].at = w.at /\ step.stack[1].end = w.end
      /\ \A i \in 1 .. Len(old.stack) : i # 1 => step.stack[i] = old.stack[i]
  BY <1>1, <1>3, StepStack
<1> HIDE DEF step
<1>5. Within(w)
  BY <1>4 DEF IInv, WalksWithin
<1>6. s \in Senders
  <2>1. w.next \in 1 .. w.end
    BY <1>1, <1>4 DEF Walking
  <2> QED
    BY <1>5, <2>1 DEF Within
<1>7. old.of # Nobody => Childs \cap old.others = {}
  BY <1>1 DEF IInv, Deserted
<1>8. \A t \in old.others : place[t] # "new"
  BY DEF IInv, Deserted
<1>9. CASE closer' = [closer EXCEPT ![k] = step] /\ UNCHANGED <<mem, len, walk>>
  <2>1. Moves
    BY <1>1, <1>9, StillMoves
  <2>2. \A i \in 1 .. Len(old.stack) : Within(old.stack[i])
    BY <2>1, StackWithin
  <2>3. \A i \in 1 .. Len(step.stack) : Within(step.stack[i])
    BY <1>4, <1>5, <2>2 DEF Within
  <2> QED
    BY <1>1, <1>4, <1>7, <1>9, <2>3, OnlyCloser
<1>10. CASE Remove(s) /\ closer' = [closer EXCEPT ![k] = [step EXCEPT !.at = "count"]]
  <2> DEFINE c == [step EXCEPT !.at = "count"]
  <2>1. Moves /\ Childs' = Childs \ {s} /\ NoTwins'
    BY <1>1, <1>6, <1>10, RemoveMoves
  <2>2. \A i \in 1 .. Len(old.stack) : WithinNext(old.stack[i])
    BY <2>1, StackWithin
  <2>3. \A i \in 1 .. Len(step.stack) : WithinNext(step.stack[i])
    BY <1>4, <2>2 DEF WithinNext
  <2>4. /\ c \in CloserType /\ c.at = "count" /\ c.of = old.of /\ c.others = old.others
        /\ c.stack = step.stack
    BY <1>4 DEF CloserType
  <2>5. walk' = walk
    BY <1>10 DEF Remove
  <2>6. Childs' \subseteq Childs
    BY <2>1
  <2>7. closer' = [closer EXCEPT ![k] = c]
    BY <1>10
  <2> HIDE DEF c
  <2>8. c.of # Nobody => Childs' \cap c.others = {}
    BY <1>7, <2>4, <2>6
  <2> QED
    BY <1>1, <1>8, <2>1, <2>3, <2>4, <2>5, <2>6, <2>7, <2>8, CloserKeeps
<1> QED
  BY <1>2, <1>9, <1>10

(* A walk is over, or the whole Close is. *)
LEMMA ReturnKeeps == \A k \in Closers : IInv /\ Return(k) => IInv'
<1> SUFFICES ASSUME NEW k \in Closers, IInv, Return(k) PROVE IInv'
  OBVIOUS
<1> DEFINE old == closer[k]
<1>1. /\ Types /\ UNCHANGED <<mem, len, place, walk>> /\ old.at = "walk"
      /\ \/ old.stack = <<>> /\ closer' = [closer EXCEPT ![k] = [old EXCEPT !.at = "end"]]
         \/ old.stack # <<>> /\ closer' = [closer EXCEPT ![k] = [old EXCEPT !.stack = Tail(@)]]
  BY DEF IInv, Types, Return
<1>2. Moves
  BY <1>1, StillMoves
<1>3. /\ old \in CloserType /\ old.stack \in Seq(Walking) /\ Len(old.stack) \in Nat
      /\ \A i \in 1 .. Len(old.stack) : Within(old.stack[i])
  BY <1>2, StackWithin
<1>4. old.of # Nobody /\ old.stack # <<>> => Childs \cap old.others = {}
  BY DEF IInv, Deserted
<1>5. CASE old.stack = <<>> /\ closer' = [closer EXCEPT ![k] = [old EXCEPT !.at = "end"]]
  <2> DEFINE c == [old EXCEPT !.at = "end"]
  <2>1. /\ c \in CloserType /\ c.at = "end" /\ c.of = old.of /\ c.others = old.others
        /\ c.stack = old.stack
    BY <1>3 DEF CloserType
  <2>2. closer' = [closer EXCEPT ![k] = c]
    BY <1>5
  <2> HIDE DEF c
  <2>3. c.at # "new" /\ \A i \in 1 .. Len(c.stack) : Within(c.stack[i])
    BY <1>3, <2>1
  <2>4. c.at # "range" /\ c.stack = <<>>
    BY <1>5, <2>1
  <2> QED
    BY <1>1, <2>1, <2>2, <2>3, <2>4, OnlyCloser
<1>6. CASE old.stack # <<>> /\ closer' = [closer EXCEPT ![k] = [old EXCEPT !.stack = Tail(@)]]
  <2> DEFINE c == [old EXCEPT !.stack = Tail(@)]
  <2>1. /\ Tail(old.stack) \in Seq(Walking) /\ Len(Tail(old.stack)) = Len(old.stack) - 1
        /\ \A i \in 1 .. Len(Tail(old.stack)) : Tail(old.stack)[i] = old.stack[i + 1]
    BY <1>3, <1>6, HeadTailProperties
  <2>2. \A i \in 1 .. Len(Tail(old.stack)) : Within(Tail(old.stack)[i])
    <3>1. \A i \in 1 .. Len(Tail(old.stack)) : i + 1 \in 1 .. Len(old.stack)
      BY <1>3, <2>1
    <3> QED
      BY <1>3, <2>1, <3>1
  <2>3. /\ c \in CloserType /\ c.at = old.at /\ c.of = old.of /\ c.others = old.others
        /\ c.stack = Tail(old.stack)
    BY <1>3, <2>1 DEF CloserType
  <2>4. closer' = [closer EXCEPT ![k] = c]
    BY <1>6
  <2> HIDE DEF c
  <2>5. c.at # "new" /\ \A i \in 1 .. Len(c.stack) : Within(c.stack[i])
    BY <1>1, <2>2, <2>3
  <2>6. c.of # Nobody => Childs \cap c.others = {}
    BY <1>4, <1>6, <2>3
  <2> QED
    BY <1>1, <2>3, <2>4, <2>5, <2>6, OnlyCloser
<1> QED
  BY <1>1, <1>5, <1>6

-----------------------------------------------------------------------------
(* The theorems.                                                           *)

(* At the start there are no children and nobody has left. *)
LEMMA InitInv == Init => IInv
<1> SUFFICES ASSUME Init PROVE IInv
  OBVIOUS
<1>1. /\ mem = <<<<>>>> /\ len = 0 /\ walk = Outside /\ closer = [k \in Closers |-> Away]
      /\ place = [s \in Senders |-> "new"]
  BY DEF Init
<1>2. /\ <<>> \in Seq(Slot) /\ mem \in Seq(Seq(Slot)) /\ mem # <<>> /\ Len(mem) = 1
      /\ mem[1] = <<>> /\ Len(mem[1]) = 0
  BY <1>1
<1>3. Current = 1 /\ Childs = {} /\ NoTwins
  BY <1>1, <1>2 DEF Current, Childs, NoTwins
<1>4. Slices
  BY <1>1, <1>2, <1>3 DEF Slices
<1>5. /\ Away \in CloserType /\ Away.of = Nobody /\ Away.stack = <<>> /\ Away.others = {}
  BY AwayFields
<1>6. walk \in WalkType /\ walk.pkt = 0 /\ walk.gone = {} /\ walk.over = [at |-> 1, end |-> 0, next |-> 1]
  <2>1. [at |-> 1, end |-> 0, next |-> 1] \in Walking
    BY DEF Walking
  <2>2. ASSUME NEW f \in Seq(Senders), NEW o \in Walking, NEW r,
               r = [in |-> FALSE, pkt |-> 0, over |-> o, gone |-> {}, fed |-> f]
        PROVE  r \in WalkType /\ r.pkt = 0 /\ r.gone = {} /\ r.over = o
    BY <2>2 DEF WalkType
  <2>3. <<>> \in Seq(Senders)
    OBVIOUS
  <2>4. walk = [in |-> FALSE, pkt |-> 0, over |-> [at |-> 1, end |-> 0, next |-> 1], gone |-> {}, fed |-> <<>>]
    BY <1>1, Zenon DEF Outside
  <2> QED
    BY ONLY <2>1, <2>2, <2>3, <2>4, Zenon
<1>7. Types
  BY <1>1, <1>3, <1>4, <1>5, <1>6, NodeAssumption DEF Types
<1>8. WalksWithin
  <2>1. Within(walk.over)
    BY <1>2, <1>6 DEF Within
  <2>2. \A k \in Closers : \A i \in 1 .. Len(closer[k].stack) : FALSE
    BY <1>1, <1>5
  <2> QED
    BY <2>1, <2>2 DEF WalksWithin
<1>9. \A s \in Senders : ~Left(s)
  BY <1>1, <1>5, NodeAssumption DEF Left
<1>10. Placed /\ Cleared
  BY <1>3, <1>6, <1>9 DEF Placed, Cleared
<1>11. Deserted
  BY <1>1, <1>5 DEF Deserted
<1> QED
  BY <1>7, <1>8, <1>10, <1>11 DEF IInv

(* A step that changes nothing. *)
LEMMA StutterKeeps == IInv /\ UNCHANGED vars => IInv'
<1> SUFFICES ASSUME IInv, UNCHANGED vars PROVE IInv'
  OBVIOUS
<1>1. /\ UNCHANGED <<mem, len, place, closer>> /\ walk' = walk
  BY DEF vars
<1>2. walk \in WalkType /\ walk.pkt <= MaxPackets /\ Within(walk.over)
  BY DEF IInv, Types, WalksWithin
<1>3. \A s \in walk.gone :
        /\ Left(s)
        /\ \A i \in 1 .. Len(walk.fed) : walk.fed[i] # s
        /\ \A i \in walk.over.next .. walk.over.end : mem[walk.over.at][i] # s
  BY DEF IInv, Cleared
<1> QED
  BY <1>1, <1>2, <1>3, WalkKeeps

(* Every step keeps the invariant. *)
LEMMA StepInv == IInv /\ [Next]_vars => IInv'
<1> SUFFICES ASSUME IInv, [Next]_vars PROVE IInv'
  OBVIOUS
<1>1. CASE Input \/ Feed \/ Fed
  BY <1>1, InputKeeps, FeedKeeps, FedKeeps
<1>2. ASSUME NEW s \in Senders, Attach(s) \/ SetParent(s) PROVE IInv'
  BY <1>2, AttachKeeps, SetParentKeeps
<1>3. ASSUME NEW k \in Closers, CloseReceiver(k) \/ CloserStep(k) \/ \E s \in Senders : Leave(k, s)
      PROVE  IInv'
  BY <1>3, CloseReceiverKeeps, CountKeeps, BeginSweepKeeps, SweepKeeps, ReturnKeeps, LeaveKeeps
     DEF CloserStep
<1>4. CASE Quiet
  BY <1>4, StutterKeeps DEF Quiet
<1>5. CASE UNCHANGED vars
  BY <1>5, StutterKeeps
<1> QED
  BY <1>1, <1>2, <1>3, <1>4, <1>5 DEF Next

(* The invariant holds in every reachable state. *)
LEMMA Invariance == Spec => []IInv
<1> QED
  BY InitInv, StepInv, PTL DEF Spec

(* The fields have their types; a walk never leaves its array. *)
THEOREM TypeCorrect == Spec => []TypeOK
<1>1. IInv => TypeOK
  <2> SUFFICES ASSUME IInv PROVE TypeOK
    OBVIOUS
  <2>1. Types /\ Slices
    BY DEF IInv, Types
  <2>2. /\ mem # <<>> /\ (\A a \in 1 .. Len(mem) : mem[a] \in Seq(Senders \cup {Nobody}))
        /\ len \in 0 .. Len(mem[Current]) /\ Childs \subseteq Senders /\ Len(mem) \in Nat
    BY <2>1, Arrays DEF Slices, Slot
  <2>3. \A w \in Walking : Within(w) => w \in Walks
    <3> SUFFICES ASSUME NEW w \in Walking, Within(w) PROVE w \in Walks
      OBVIOUS
    <3>1. w.at \in 1 .. Len(mem)
      BY <2>2 DEF Walking, Within
    <3> QED
      BY <3>1 DEF Walking, Walks
  <2>4. /\ walk.pkt \in Nat /\ walk.pkt <= MaxPackets /\ MaxPackets \in Nat
        /\ walk.over \in Walking /\ Within(walk.over) /\ walk.fed \in Seq(Senders)
    BY <2>1, NodeAssumption DEF Types, WalkType, IInv, WalksWithin
  <2>5. ASSUME NEW k \in Closers
        PROVE  /\ closer[k].at \in {"new", "count", "range", "walk", "end"}
               /\ closer[k].stack \in Seq(Walks)
    <3>1. closer[k] \in CloserType
      BY <2>1 DEF Types
    <3> DEFINE t == closer[k].stack
    <3>2. t \in Seq(Walking) /\ Len(t) \in Nat
      BY <3>1, LenProperties DEF CloserType
    <3>3. \A i \in 1 .. Len(t) : t[i] \in Walks
      BY <3>2, <2>3, ElementOfSeq DEF IInv, WalksWithin
    <3>4. t \in Seq(Walks)
      <4>1. t \in [1 .. Len(t) -> Walks]
        BY <3>2, <3>3, LenProperties
      <4> QED
        BY <3>2, <4>1, SeqDef, SMTT(30)
    <3> QED
      BY <3>1, <3>4 DEF CloserType
  <2>6. walk.pkt \in 0 .. MaxPackets /\ walk.over \in Walks
    BY <2>3, <2>4
  <2>7. place \in [Senders -> {"new", "appended", "bound"}]
    BY <2>1 DEF Types
  <2> QED
    BY <2>2, <2>4, <2>5, <2>6, <2>7 DEF TypeOK
<1> QED
  BY <1>1, Invariance, PTL

(* A child is in the list once, whoever attaches and closes meanwhile, so  *)
(* that RemoveChild, which stops at the first, takes it out.               *)
THEOREM NoTwinsSafe == Spec => []NoTwins
<1>1. IInv => NoTwins
  BY DEF IInv, Types
<1> QED
  BY <1>1, Invariance, PTL

(* A sender whose Close has returned gets none of the packets that come    *)
(* after it, from whichever array the walk reads.                          *)
THEOREM GoneForGoodSafe == Spec => []GoneForGood
<1>1. IInv => GoneForGood
  BY DEF IInv, Cleared, GoneForGood, Times
<1> QED
  BY <1>1, Invariance, PTL

(* A sender that leaves detaches none that was attached beside it.         *)
THEOREM SparesOthersSafe == Spec => SparesOthers
<1> DEFINE Spares == \A k \in Closers :
             Sweep(k) /\ closer[k].of # Nobody => Childs \cap closer[k].others \subseteq Childs'
<1>1. IInv => Spares
  BY DEF IInv, Deserted, Sweep
<1>2. IInv /\ [Next]_vars => [Spares]_vars
  BY <1>1
<1> QED
  BY <1>2, Invariance, PTL DEF Spec, SparesOthers
-----------------------------------------------------------------------------
(* Video over RTP (RtpVideo).  A frame as it is sent is a list of units    *)
(* with their names, and what is on its way is a part of the list of all   *)
(* packets that were sent.                                                 *)

(* What the run does to video over RTP. *)
VideoMove == V!Init /\ [][V!Next]_rtpVars

(* The run's other parts leave it alone. *)
LEMMA VideoMoves == MediaSpec => VideoMove
<1>1. MediaInit => V!Init
  BY DEF MediaInit
<1>2. [MediaNext]_mediaVars => [V!Next]_rtpVars
  BY DEF MediaNext, mediaVars, rtpVars
<1> QED
  BY <1>1, <1>2, PTL DEF MediaSpec, VideoMove

Kind == {"vps", "sps", "pps", "aud", "sei", "key", "slice"}
NalUnit == [id : Nat \X Nat, kind : Kind, len : 1 .. MaxLen]
RtpPacket == [type : {"single", "stap", "ap", "fu"}, units : Seq(NalUnit), k : Nat, n : Nat,
              seq : Nat, marker : BOOLEAN]

(* A fragment that more of the same unit follow. *)
Begun(p) == p.type = "fu" /\ p.k < p.n

(* q is the fragment of the unit that comes behind p. *)
Continues(p, q) ==
  /\ p.type = "fu" /\ q.type = "fu"
  /\ q.units = p.units /\ q.n = p.n /\ q.k = p.k + 1

PacketOK(p) ==
  /\ p \in RtpPacket /\ p.units # <<>>
  /\ p.k \in 1 .. p.n
  /\ p.type # "fu" => p.n = 1
  /\ p.type \in {"single", "fu"} => Len(p.units) = 1
  /\ codec = "H264" => p.type # "ap"
  /\ p.type = "stap" => \A i \in 1 .. Len(p.units) : p.units[i].kind \in V!PS

(* The fragments of a unit are all there, one behind the other. *)
Chain(pp) ==
  /\ pp \in Seq(RtpPacket)
  /\ \A j \in 1 .. Len(pp) :
       /\ PacketOK(pp[j])
       /\ Begun(pp[j]) => j + 1 \in 1 .. Len(pp) /\ Continues(pp[j], pp[j + 1])
       /\ pp[j].k > 1 => j - 1 \in 1 .. Len(pp) /\ Continues(pp[j - 1], pp[j])

(* What is in two lists one behind the other.                              *)
LEMMA Joined ==
  ASSUME NEW T, NEW p \in Seq(T), NEW q \in Seq(T), NEW pq, pq = p \o q,
         NEW lp \in Nat, NEW lq \in Nat, lp = Len(p), lq = Len(q)
  PROVE  /\ pq \in Seq(T) /\ Len(pq) = lp + lq
         /\ \A j \in 1 .. lp : j \in 1 .. Len(pq) /\ pq[j] = p[j]
         /\ \A j \in 1 .. lq : lp + j \in 1 .. Len(pq) /\ pq[lp + j] = q[j]
         /\ \A j \in 1 .. Len(pq) : \/ j \in 1 .. lp
                                    \/ j - lp \in 1 .. lq /\ j = lp + (j - lp)
<1>1. pq \in Seq(T) /\ Len(pq) = lp + lq
      /\ \A j \in 1 .. lp + lq : pq[j] = IF j <= lp THEN p[j] ELSE q[j - lp]
  BY ConcatProperties
<1>2. ASSUME NEW j \in 1 .. lp PROVE j \in 1 .. lp + lq /\ j <= lp
  OBVIOUS
<1>3. ASSUME NEW j \in 1 .. lq PROVE lp + j \in 1 .. lp + lq /\ ~ (lp + j <= lp) /\ (lp + j) - lp = j
  OBVIOUS
<1>4. ASSUME NEW j \in 1 .. lp + lq, j \notin 1 .. lp PROVE j - lp \in 1 .. lq /\ j = lp + (j - lp)
  BY <1>4
<1> QED
  BY <1>1, <1>2, <1>3, <1>4

(* Lists of packets stay in order one behind the other. *)
LEMMA ChainConcat ==
  ASSUME NEW p, NEW q, Chain(p), Chain(q)
  PROVE  Chain(p \o q)
<1>1. PICK lp \in Nat, lq \in Nat : lp = Len(p) /\ lq = Len(q)
  BY LenProperties DEF Chain
<1>2. PICK pq : pq = p \o q
  OBVIOUS
<1>3. /\ pq \in Seq(RtpPacket) /\ Len(pq) = lp + lq
      /\ \A j \in 1 .. lp : j \in 1 .. Len(pq) /\ pq[j] = p[j]
      /\ \A j \in 1 .. lq : lp + j \in 1 .. Len(pq) /\ pq[lp + j] = q[j]
      /\ \A j \in 1 .. Len(pq) : j \in 1 .. lp \/ (j - lp \in 1 .. lq /\ j = lp + (j - lp))
  <2>1. p \in Seq(RtpPacket) /\ q \in Seq(RtpPacket)
    BY DEF Chain
  <2> QED
    BY ONLY <1>1, <1>2, <2>1, Joined
<1>4. ASSUME NEW j \in 1 .. Len(pq)
      PROVE  /\ PacketOK(pq[j])
             /\ Begun(pq[j]) => j + 1 \in 1 .. Len(pq) /\ Continues(pq[j], pq[j + 1])
             /\ pq[j].k > 1 => j - 1 \in 1 .. Len(pq) /\ Continues(pq[j - 1], pq[j])
  <2>1. CASE j \in 1 .. lp
    <3>1. /\ PacketOK(p[j])
          /\ Begun(p[j]) => j + 1 \in 1 .. lp /\ Continues(p[j], p[j + 1])
          /\ p[j].k > 1 => j - 1 \in 1 .. lp /\ Continues(p[j - 1], p[j])
      BY <1>1, <2>1 DEF Chain
    <3> QED
      BY <1>3, <2>1, <3>1
  <2>2. CASE j - lp \in 1 .. lq /\ j = lp + (j - lp)
    <3>1. PICK i \in 1 .. lq : j = lp + i
      BY <2>2
    <3>2. /\ PacketOK(q[i])
          /\ Begun(q[i]) => i + 1 \in 1 .. lq /\ Continues(q[i], q[i + 1])
          /\ q[i].k > 1 => i - 1 \in 1 .. lq /\ Continues(q[i - 1], q[i])
      BY <1>1 DEF Chain
    <3>3. lp + (i + 1) = j + 1 /\ lp + (i - 1) = j - 1 /\ pq[j] = q[i]
      BY <1>3, <3>1
    <3>4. Begun(q[i]) => j + 1 \in 1 .. Len(pq) /\ pq[j + 1] = q[i + 1]
      BY <1>3, <3>2, <3>3
    <3>5. q[i].k > 1 => j - 1 \in 1 .. Len(pq) /\ pq[j - 1] = q[i - 1]
      BY <1>3, <3>2, <3>3
    <3> QED
      BY <3>2, <3>3, <3>4, <3>5
  <2> QED
    BY <1>3, <2>1, <2>2
<1> QED
  BY <1>2, <1>3, <1>4 DEF Chain

LEMMA ChainEmpty == Chain(<<>>)
<1>1. <<>> \in Seq(RtpPacket) /\ Len(<<>>) = 0
  BY EmptySeq
<1> QED
  BY <1>1 DEF Chain

(* A packet by itself. *)
LEMMA ChainOne ==
  ASSUME NEW p, PacketOK(p), p.n = 1
  PROVE  Chain(<<p>>)
<1>1. p.k = 1 /\ ~ Begun(p) /\ p \in RtpPacket
  BY DEF PacketOK, Begun
<1>2. PICK one : one = <<p>>
  OBVIOUS
<1>3. one \in Seq(RtpPacket) /\ Len(one) = 1 /\ one[1] = p
  BY <1>1, <1>2
<1>4. ASSUME NEW j \in 1 .. Len(one) PROVE j = 1
  BY <1>3, <1>4
<1> QED
  BY <1>1, <1>2, <1>3, <1>4 DEF Chain

(* The n fragments of a unit. *)
Cut(u, n) == [k \in 1 .. n |-> V!Packet("fu", <<u>>, k, n)]

LEMMA CutFacts ==
  ASSUME NEW u \in NalUnit, NEW n \in Nat
  PROVE  /\ Chain(Cut(u, n)) /\ Len(Cut(u, n)) = n
         /\ \A k \in 1 .. n : /\ Cut(u, n)[k].type = "fu" /\ Cut(u, n)[k].units = <<u>>
                              /\ Cut(u, n)[k].k = k /\ Cut(u, n)[k].n = n
<1>1. <<u>> \in Seq(NalUnit) /\ <<u>> # <<>> /\ Len(<<u>>) = 1
  OBVIOUS
<1>2. PICK pp : pp = Cut(u, n)
  OBVIOUS
<1>3. ASSUME NEW k \in 1 .. n
      PROVE  /\ PacketOK(pp[k]) /\ pp[k] \in RtpPacket
             /\ pp[k].type = "fu" /\ pp[k].units = <<u>> /\ pp[k].k = k /\ pp[k].n = n
  <2>1. pp[k] = V!Packet("fu", <<u>>, k, n)
    BY <1>2 DEF Cut
  <2> QED
    BY <1>1, <2>1 DEF PacketOK, V!Packet, RtpPacket
<1>4. pp \in Seq(RtpPacket) /\ Len(pp) = n
  BY <1>2, <1>3 DEF Cut
<1>5. ASSUME NEW j \in 1 .. Len(pp)
      PROVE  /\ PacketOK(pp[j])
             /\ Begun(pp[j]) => j + 1 \in 1 .. Len(pp) /\ Continues(pp[j], pp[j + 1])
             /\ pp[j].k > 1 => j - 1 \in 1 .. Len(pp) /\ Continues(pp[j - 1], pp[j])
  BY <1>3, <1>4 DEF Begun, Continues
<1> QED
  BY <1>2, <1>3, <1>4, <1>5 DEF Chain

LEMMA RoundedUp ==
  ASSUME NEW a \in Nat \ {0}, NEW y \in Nat \ {0}
  PROVE  (a + y - 1) \div y \in 1 .. a
<1>1. PICK x \in Nat : x = a + y - 1
  OBVIOUS
<1>2. PICK q : q = x \div y
  OBVIOUS
<1>3. q \in Int /\ y * q <= x /\ x < y * q + y
  BY <1>1, <1>2
<1>4. q >= 1
  <2>1. SUFFICES ASSUME q <= 0 PROVE FALSE
    BY <1>3
  <2>2. y * q <= 0
    BY <1>3, <2>1
  <2> QED
    BY <1>1, <1>3, <2>2
<1>5. q <= a
  <2>1. SUFFICES ASSUME q >= a + 1 PROVE FALSE
    BY <1>3
  <2>2. y * q >= y * (a + 1)
    BY <1>3, <2>1
  <2>3. y * (a + 1) = y * a + y /\ y * a >= a
    OBVIOUS
  <2> QED
    BY <1>1, <1>3, <2>2, <2>3
<1> QED
  BY <1>1, <1>2, <1>3, <1>4, <1>5

(* Fragments: at least one, and no more than the unit has bytes.           *)
LEMMA FragmentsFacts ==
  ASSUME NEW u \in NalUnit, u.len > Mtu, codec \in {"H264", "H265"}
  PROVE  \E n \in 1 .. MaxLen : V!Fragments(u) = Cut(u, n)
<1>1. PICK h \in 1 .. 2 : h = V!HeaderSize
  BY DEF V!HeaderSize
<1>2. PICK size \in Nat \ {0} : size = Mtu - (h + 1)
  BY VideoAssumption
<1>3. PICK a \in Nat \ {0} : a = u.len - h
  BY <1>1, VideoAssumption, SMTT(30) DEF NalUnit
<1>4. PICK n : n = (a + size - 1) \div size
  OBVIOUS
<1>5. n \in 1 .. a
  BY <1>4, RoundedUp
<1>6. a <= MaxLen /\ MaxLen \in Nat /\ n \in 1 .. MaxLen
  BY <1>1, <1>3, <1>5, VideoAssumption, SMTT(30) DEF NalUnit
<1>7. u.len - h + size - 1 = a + size - 1
  BY <1>3
<1>8. V!Fragments(u) = Cut(u, n)
  BY <1>1, <1>2, <1>4, <1>7 DEF V!Fragments, Cut
<1> QED
  BY <1>6, <1>8

(* The last packet of a slice. *)
SliceEnd(p) == ~ Begun(p) /\ p.units[1].kind \in V!Slice

(* The units that are complete with a packet: no more than q counts.       *)
Weight(p) == IF Begun(p) THEN 0 ELSE Len(p.units)
Counts(pp, q) ==
  /\ q \in [0 .. Len(pp) -> Nat]
  /\ \A j \in 1 .. Len(pp) : q[j - 1] + Weight(pp[j]) <= q[j]
Paid(pp, w) == \E q : Counts(pp, q) /\ q[Len(pp)] <= w

(* The slices among the first units: which packets end them. *)
SlicesPaid(units, i, pp) ==
  /\ \A j \in 1 .. Len(pp) : SliceEnd(pp[j]) => \E x \in 1 .. i : pp[j].units[1] = units[x]
  /\ \A j, k \in 1 .. Len(pp) :
       SliceEnd(pp[j]) /\ SliceEnd(pp[k]) /\ j < k => pp[j].units[1].id[2] < pp[k].units[1].id[2]
  /\ \A x \in 1 .. i : units[x].kind \in V!Slice =>
       \E j \in 1 .. Len(pp) : SliceEnd(pp[j]) /\ pp[j].units[1] = units[x]
  /\ i > 0 => (units[i].kind \in V!Slice => Len(pp) > 0 /\ SliceEnd(pp[Len(pp)]))

(* The units of the f-th frame. *)
Named(units, f) ==
  /\ units \in Seq(NalUnit)
  /\ \A i \in 1 .. Len(units) : units[i].id = <<f, i>>

(* The packets of one unit behind those of the units before it. *)
Brings(pp, u) ==
  /\ Chain(pp)
  /\ \A j \in 1 .. Len(pp) : SliceEnd(pp[j]) => pp[j].units[1] = u /\ j = Len(pp)
  /\ u.kind \in V!Slice => Len(pp) > 0 /\ SliceEnd(pp[Len(pp)])

LEMMA SlicesJoin ==
  ASSUME NEW f \in Nat, NEW units, Named(units, f), NEW i \in Nat, i + 1 \in 1 .. Len(units),
         NEW p, Chain(p), SlicesPaid(units, i, p), NEW q, Brings(q, units[i + 1])
  PROVE  SlicesPaid(units, i + 1, p \o q)
<1>1. PICK lp \in Nat, lq \in Nat : lp = Len(p) /\ lq = Len(q)
  BY LenProperties DEF Chain, Brings
<1>2. PICK pq : pq = p \o q
  OBVIOUS
<1>3. /\ Len(pq) = lp + lq
      /\ \A j \in 1 .. lp : j \in 1 .. Len(pq) /\ pq[j] = p[j]
      /\ \A j \in 1 .. lq : lp + j \in 1 .. Len(pq) /\ pq[lp + j] = q[j]
      /\ \A j \in 1 .. Len(pq) : j \in 1 .. lp \/ (j - lp \in 1 .. lq /\ j = lp + (j - lp))
  <2>1. p \in Seq(RtpPacket) /\ q \in Seq(RtpPacket)
    BY DEF Chain, Brings
  <2> QED
    BY ONLY <1>1, <1>2, <2>1, Joined
<1>4. PICK u : u = units[i + 1]
  OBVIOUS
<1>5. \A j \in 1 .. lq : SliceEnd(q[j]) => q[j].units[1] = u /\ j = lq
  BY <1>1, <1>4 DEF Brings
<1>6. u.kind \in V!Slice => lq > 0 /\ SliceEnd(q[lq])
  BY <1>1, <1>4 DEF Brings
<1>7. /\ \A x \in 1 .. i + 1 : units[x].id[2] = x
      /\ \A x \in 1 .. i + 1 : x \in 1 .. i \/ x = i + 1
  <2>1. \A x \in 1 .. i + 1 : x \in 1 .. Len(units)
    OBVIOUS
  <2> QED
    BY <2>1 DEF Named
<1>8. /\ \A j \in 1 .. lp : SliceEnd(p[j]) => \E x \in 1 .. i : p[j].units[1] = units[x]
      /\ \A j, k \in 1 .. lp :
           SliceEnd(p[j]) /\ SliceEnd(p[k]) /\ j < k => p[j].units[1].id[2] < p[k].units[1].id[2]
      /\ \A x \in 1 .. i : units[x].kind \in V!Slice =>
           \E j \in 1 .. lp : SliceEnd(p[j]) /\ p[j].units[1] = units[x]
  BY <1>1 DEF SlicesPaid
<1>a. ASSUME NEW j \in 1 .. Len(pq), SliceEnd(pq[j])
      PROVE  \/ j \in 1 .. lp /\ pq[j] = p[j] /\ \E x \in 1 .. i : pq[j].units[1] = units[x]
             \/ j = lp + lq /\ j \notin 1 .. lp /\ pq[j].units[1] = u
  <2>1. CASE j \in 1 .. lp
    BY <1>3, <1>8, <1>a, <2>1
  <2>2. CASE j \notin 1 .. lp
    <3>1. PICK k \in 1 .. lq : j = lp + k
      BY <1>3, <2>2
    <3> QED
      BY <1>3, <1>5, <1>a, <2>2, <3>1, SMTT(30)
  <2> QED
    BY <2>1, <2>2
<1>b. \A j \in 1 .. Len(pq) : SliceEnd(pq[j]) => \E x \in 1 .. i + 1 : pq[j].units[1] = units[x]
  <2> SUFFICES ASSUME NEW j \in 1 .. Len(pq), SliceEnd(pq[j])
               PROVE  \E x \in 1 .. i + 1 : pq[j].units[1] = units[x]
    OBVIOUS
  <2>1. \A x \in 1 .. i : x \in 1 .. i + 1
    OBVIOUS
  <2> QED
    BY <1>4, <1>a, <2>1
<1>c. ASSUME NEW j \in 1 .. Len(pq), NEW k \in 1 .. Len(pq), SliceEnd(pq[j]), SliceEnd(pq[k]), j < k
      PROVE  pq[j].units[1].id[2] < pq[k].units[1].id[2]
  <2>1. CASE k \in 1 .. lp
    <3>1. j \in 1 .. lp
      BY <1>c, <2>1
    <3> QED
      BY <1>3, <1>8, <1>c, <2>1, <3>1
  <2>2. CASE k \notin 1 .. lp
    <3>1. k = lp + lq /\ pq[k].units[1] = u
      BY <1>a, <1>c, <2>2
    <3>2. j # lp + lq
      BY <1>c, <3>1
    <3>3. PICK x \in 1 .. i : pq[j].units[1] = units[x]
      BY <1>a, <1>c, <3>2
    <3>4. units[x].id[2] = x /\ u.id[2] = i + 1 /\ x < i + 1
      BY <1>4, <1>7
    <3> QED
      BY <3>1, <3>3, <3>4
  <2> QED
    BY <2>1, <2>2
<1>d. u.kind \in V!Slice => Len(pq) > 0 /\ SliceEnd(pq[Len(pq)]) /\ pq[Len(pq)].units[1] = u
  <2> SUFFICES ASSUME u.kind \in V!Slice
               PROVE  Len(pq) > 0 /\ SliceEnd(pq[Len(pq)]) /\ pq[Len(pq)].units[1] = u
    OBVIOUS
  <2>1. lq \in 1 .. lq /\ SliceEnd(q[lq])
    BY <1>6
  <2> QED
    BY <1>3, <1>5, <2>1
<1>e. ASSUME NEW x \in 1 .. i + 1, units[x].kind \in V!Slice
      PROVE  \E j \in 1 .. Len(pq) : SliceEnd(pq[j]) /\ pq[j].units[1] = units[x]
  <2>1. CASE x \in 1 .. i
    <3>1. PICK j \in 1 .. lp : SliceEnd(p[j]) /\ p[j].units[1] = units[x]
      BY <1>8, <1>e, <2>1
    <3> QED
      BY <1>3, <3>1
  <2>2. CASE x = i + 1
    <3>1. Len(pq) \in 1 .. Len(pq)
      BY <1>3, <1>4, <1>d, <1>e, <2>2
    <3> QED
      BY <1>4, <1>d, <1>e, <2>2, <3>1
  <2> QED
    BY <1>7, <2>1, <2>2
<1> QED
  BY <1>2, <1>4, <1>b, <1>c, <1>d, <1>e DEF SlicesPaid

LEMMA Shifted ==
  ASSUME NEW x \in Nat, NEW y \in Nat, NEW w \in Nat, NEW z \in Nat, NEW v \in Nat, x + v <= y
  PROVE  w + x - z + v <= w + y - z
  OBVIOUS

(* Counting on: the first counts stay. *)
CountsOn(pp, c, a, b, lp, lq) ==
  /\ Counts(pp, c) /\ c[lp + lq] = a[lp] + b[lq] - b[0]
  /\ \A j \in 0 .. lp : c[j] = a[j]

LEMMA CountsJoin ==
  ASSUME NEW p \in Seq(RtpPacket), NEW q \in Seq(RtpPacket), NEW a, NEW b, Counts(p, a), Counts(q, b),
         NEW lp \in Nat, NEW lq \in Nat, lp = Len(p), lq = Len(q)
  PROVE  \E c : CountsOn(p \o q, c, a, b, lp, lq)
<1>1. PICK pq : pq = p \o q
  OBVIOUS
<1>2. /\ Len(pq) = lp + lq
      /\ \A j \in 1 .. lp : j \in 1 .. Len(pq) /\ pq[j] = p[j]
      /\ \A j \in 1 .. lq : lp + j \in 1 .. Len(pq) /\ pq[lp + j] = q[j]
      /\ \A j \in 1 .. Len(pq) : j \in 1 .. lp \/ (j - lp \in 1 .. lq /\ j = lp + (j - lp))
  BY <1>1, Joined
<1>3. /\ a \in [0 .. lp -> Nat] /\ b \in [0 .. lq -> Nat]
      /\ \A j \in 1 .. lp : a[j - 1] + Weight(p[j]) <= a[j]
      /\ \A j \in 1 .. lq : b[j - 1] + Weight(q[j]) <= b[j]
  BY DEF Counts
<1>0. ASSUME NEW j \in 1 .. lq PROVE Weight(q[j]) \in Nat
  <2>1. q[j] \in RtpPacket
    BY ElementOfSeq
  <2>2. Len(q[j].units) \in Nat
    BY <2>1 DEF RtpPacket
  <2> QED
    BY <2>2 DEF Weight
<1> DEFINE T == {j \in Nat : j <= lq => b[0] <= b[j]}
<1>4. 0 \in T
  BY <1>3
<1>5. ASSUME NEW j \in Nat, j \in T PROVE j + 1 \in T
  <2> SUFFICES ASSUME j + 1 <= lq PROVE b[0] <= b[j + 1]
    OBVIOUS
  <2>1. j + 1 \in 1 .. lq /\ (j + 1) - 1 = j /\ b[0] <= b[j] /\ {0, j, j + 1} \subseteq 0 .. lq
    BY <1>5
  <2>2. b[j] + Weight(q[j + 1]) <= b[j + 1] /\ Weight(q[j + 1]) \in Nat
    BY <1>0, <1>3, <2>1
  <2>3. b[j] \in Nat /\ b[j + 1] \in Nat /\ b[0] \in Nat
    BY <1>3, <2>1
  <2> QED
    BY <2>1, <2>2, <2>3
<1> HIDE DEF T
<1>6. Nat \subseteq T
  BY <1>4, <1>5, L!Induction
<1>7. \A j \in 0 .. lq : b[0] <= b[j]
  BY <1>6 DEF T
<1>8. PICK c : c = [j \in 0 .. lp + lq |-> IF j <= lp THEN a[j] ELSE a[lp] + b[j - lp] - b[0]]
  OBVIOUS
<1>9. /\ \A j \in 0 .. lp : j \in 0 .. lp + lq /\ c[j] = a[j] /\ a[j] \in Nat
      /\ \A j \in 0 .. lq : /\ lp + j \in 0 .. lp + lq /\ c[lp + j] = a[lp] + b[j] - b[0]
                            /\ b[j] \in Nat /\ b[0] \in Nat /\ a[lp] \in Nat
                            /\ c[lp + j] \in Nat
  <2>1. ASSUME NEW j \in 0 .. lp
        PROVE  j \in 0 .. lp + lq /\ c[j] = a[j] /\ a[j] \in Nat
    <3>1. j \in 0 .. lp + lq /\ j <= lp
      OBVIOUS
    <3> QED
      BY <1>3, <1>8, <3>1
  <2>2. ASSUME NEW j \in 0 .. lq
        PROVE  /\ lp + j \in 0 .. lp + lq /\ c[lp + j] = a[lp] + b[j] - b[0]
               /\ b[j] \in Nat /\ b[0] \in Nat /\ a[lp] \in Nat
               /\ c[lp + j] \in Nat
    <3>1. lp + j \in 0 .. lp + lq /\ (lp + j) - lp = j /\ (lp + j <= lp => j = 0)
      OBVIOUS
    <3>2. b[j] \in Nat /\ b[0] \in Nat /\ a[lp] \in Nat /\ b[0] <= b[j]
      BY <1>3, <1>7, SMTT(30)
    <3>3. c[lp + j] = a[lp] + b[j] - b[0]
      BY <1>8, <3>1, <3>2
    <3> QED
      BY <3>1, <3>2, <3>3
  <2> QED
    BY <2>1, <2>2
<1>a. c \in [0 .. lp + lq -> Nat]
  <2>1. ASSUME NEW j \in 0 .. lp + lq PROVE c[j] \in Nat
    <3>1. CASE j <= lp
      BY <1>9, <3>1, SMTT(30)
    <3>2. CASE ~ (j <= lp)
      <4>1. j - lp \in 0 .. lq /\ j = lp + (j - lp)
        BY <3>2
      <4> QED
        BY <1>9, <4>1
    <3> QED
      BY <3>1, <3>2
  <2> QED
    BY <1>8, <2>1
<1>b. ASSUME NEW j \in 1 .. Len(pq) PROVE c[j - 1] + Weight(pq[j]) <= c[j]
  <2>1. CASE j \in 1 .. lp
    <3>1. j - 1 \in 0 .. lp /\ j \in 0 .. lp
      BY <2>1
    <3> QED
      BY <1>2, <1>3, <1>9, <2>1, <3>1
  <2>2. CASE j - lp \in 1 .. lq /\ j = lp + (j - lp)
    <3>1. PICK i \in 1 .. lq : j = lp + i
      BY <2>2
    <3>2. i - 1 \in 0 .. lq /\ i \in 0 .. lq /\ j - 1 = lp + (i - 1) /\ pq[j] = q[i]
      BY <1>2, <3>1
    <3>3. b[i - 1] + Weight(q[i]) <= b[i] /\ Weight(q[i]) \in Nat
      BY <1>0, <1>3
    <3>4. c[j - 1] = a[lp] + b[i - 1] - b[0] /\ c[j] = a[lp] + b[i] - b[0]
      BY <1>9, <3>1, <3>2
    <3>5. b[i - 1] \in Nat /\ b[i] \in Nat /\ b[0] \in Nat /\ a[lp] \in Nat
      BY <1>9, <3>2
    <3> QED
      BY ONLY <3>2, <3>3, <3>4, <3>5, Shifted, ZenonT(60)
  <2> QED
    BY <1>2, <2>1, <2>2
<1>c. c[lp + lq] = a[lp] + b[lq] - b[0]
  BY <1>9
<1>d. Counts(pq, c)
  BY <1>2, <1>a, <1>b DEF Counts
<1>e. \A j \in 0 .. lp : c[j] = a[j]
  BY <1>9
<1> QED
  BY <1>1, <1>c, <1>d, <1>e DEF CountsOn

LEMMA PaidJoin ==
  ASSUME NEW p \in Seq(RtpPacket), NEW q \in Seq(RtpPacket), NEW v \in Nat, NEW w \in Nat,
         Paid(p, v), Paid(q, w)
  PROVE  Paid(p \o q, v + w)
<1>1. PICK lp \in Nat, lq \in Nat : lp = Len(p) /\ lq = Len(q)
  BY LenProperties
<1>2. PICK a : Counts(p, a) /\ a[lp] <= v
  BY <1>1 DEF Paid
<1>3. PICK b : Counts(q, b) /\ b[lq] <= w
  BY <1>1 DEF Paid
<1>4. PICK c : Counts(p \o q, c) /\ c[lp + lq] = a[lp] + b[lq] - b[0]
  <2>1. PICK c : CountsOn(p \o q, c, a, b, lp, lq)
    BY <1>1, <1>2, <1>3, CountsJoin
  <2> QED
    BY <2>1 DEF CountsOn
<1>5. a[lp] \in Nat /\ b[lq] \in Nat /\ b[0] \in Nat
  BY <1>1, <1>2, <1>3, SMTT(30) DEF Counts
<1>6. Len(p \o q) = lp + lq
  BY <1>1, ConcatProperties
<1>7. c[Len(p \o q)] <= v + w
  BY <1>2, <1>3, <1>4, <1>5, <1>6
<1> QED
  BY <1>4, <1>7 DEF Paid

LEMMA PaidEmpty == Paid(<<>>, 0)
<1>1. PICK e \in Seq(RtpPacket) : e = <<>> /\ Len(e) = 0
  BY EmptySeq
<1>2. PICK q : q = [j \in 0 .. 0 |-> 0]
  OBVIOUS
<1>3. q \in [0 .. Len(e) -> Nat] /\ q[Len(e)] = 0 /\ 1 .. Len(e) = {}
  BY <1>1, <1>2
<1> QED
  BY <1>1, <1>3 DEF Paid, Counts

LEMMA PaidOne ==
  ASSUME NEW p \in RtpPacket
  PROVE  Len(p.units) \in Nat /\ Paid(<<p>>, Len(p.units))
<1>1. PICK w \in Nat : w = Len(p.units)
  BY LenProperties DEF RtpPacket
<1>0. PICK e : e = <<p>>
  OBVIOUS
<1>2. e \in Seq(RtpPacket) /\ e = <<p>> /\ Len(e) = 1 /\ e[1] = p
  BY <1>0
<1>3. PICK q : q = [j \in 0 .. 1 |-> IF j = 0 THEN 0 ELSE w]
  OBVIOUS
<1>4. q \in [0 .. Len(e) -> Nat] /\ q[Len(e)] = w /\ q[0] = 0 /\ q[1] = w
  BY <1>2, <1>3
<1>5. ASSUME NEW j \in 1 .. Len(e) PROVE q[j - 1] + Weight(e[j]) <= q[j]
  <2>1. j = 1 /\ e[j] = p
    BY <1>2, <1>5
  <2>2. Weight(p) <= w /\ Weight(p) \in Nat
    BY <1>1 DEF Weight
  <2> QED
    BY <1>4, <2>1, <2>2
<1> QED
  BY <1>1, <1>2, <1>4, <1>5 DEF Paid, Counts

LEMMA PaidCut ==
  ASSUME NEW u \in NalUnit, NEW n \in Nat \ {0}
  PROVE  Paid(Cut(u, n), 1)
<1>1. PICK e : e = Cut(u, n)
  OBVIOUS
<1>2. /\ Len(e) = n
      /\ \A k \in 1 .. n : e[k].type = "fu" /\ e[k].units = <<u>> /\ e[k].k = k /\ e[k].n = n
  BY <1>1, CutFacts
<1>3. PICK q : q = [j \in 0 .. n |-> IF j = n THEN 1 ELSE 0]
  OBVIOUS
<1>4. q \in [0 .. Len(e) -> Nat] /\ q[Len(e)] = 1
  BY <1>2, <1>3
<1>5. ASSUME NEW j \in 1 .. Len(e) PROVE q[j - 1] + Weight(e[j]) <= q[j]
  <2>1. j \in 1 .. n /\ j - 1 \in 0 .. n /\ j - 1 # n /\ q[j - 1] = 0
    BY <1>2, <1>3
  <2>2. CASE j = n
    <3>1. q[j] = 1 /\ Weight(e[j]) = 1
      <4>1. q[j] = 1
        BY <1>3, <2>2
      <4>2. e[j].k = n /\ e[j].n = n /\ e[j].units = <<u>> /\ Len(<<u>>) = 1
        BY <1>2, <2>1, <2>2
      <4>3. ~ Begun(e[j])
        BY <4>2 DEF Begun
      <4> QED
        BY <4>1, <4>2, <4>3 DEF Weight
    <3> QED
      BY <2>1, <3>1
  <2>3. CASE j # n
    <3>1. q[j] = 0 /\ Weight(e[j]) = 0
      BY <1>2, <1>3, <2>1, <2>3 DEF Weight, Begun
    <3> QED
      BY <2>1, <3>1
  <2> QED
    BY <2>2, <2>3
<1> QED
  BY <1>1, <1>4, <1>5 DEF Paid, Counts

(* A unit that is a packet by itself. *)
LEMMA OneBrings ==
  ASSUME NEW u \in NalUnit, NEW p, PacketOK(p), p.n = 1, p.type # "ap", p.units = <<u>>
  PROVE  Brings(<<p>>, u) /\ Paid(<<p>>, 1) /\ Len(<<p>>) = 1 /\ <<p>> \in Seq(RtpPacket)
<1>1. p \in RtpPacket /\ p.k = 1 /\ ~ Begun(p) /\ Len(p.units) = 1 /\ p.units[1] = u
  BY DEF PacketOK, Begun
<1>2. PICK one : one = <<p>>
  OBVIOUS
<1>3. one \in Seq(RtpPacket) /\ Len(one) = 1 /\ one[1] = p
  BY <1>1, <1>2
<1>4. Chain(one) /\ Paid(one, 1)
  BY <1>1, <1>2, ChainOne, PaidOne
<1>5. ASSUME NEW j \in 1 .. Len(one) PROVE j = 1
  BY <1>3, <1>5
<1>6. u.kind \in V!Slice => SliceEnd(one[1])
  BY <1>1, <1>3 DEF SliceEnd
<1>7. Brings(one, u)
  BY <1>1, <1>3, <1>4, <1>5, <1>6 DEF Brings
<1> QED
  BY <1>2, <1>3, <1>4, <1>7

LEMMA CutBrings ==
  ASSUME NEW u \in NalUnit, NEW n \in Nat \ {0}
  PROVE  /\ Brings(Cut(u, n), u) /\ Paid(Cut(u, n), 1) /\ Len(Cut(u, n)) = n
         /\ Cut(u, n) \in Seq(RtpPacket)
<1>1. PICK e : e = Cut(u, n)
  OBVIOUS
<1>2. /\ Chain(e) /\ Len(e) = n
      /\ \A k \in 1 .. n : e[k].type = "fu" /\ e[k].units = <<u>> /\ e[k].k = k /\ e[k].n = n
  BY <1>1, CutFacts
<1>3. \A j \in 1 .. n : e[j].units[1] = u /\ (~ Begun(e[j]) <=> j = n)
  BY <1>2 DEF Begun
<1>4. Brings(e, u)
  BY <1>2, <1>3 DEF Brings, SliceEnd
<1>5. Paid(e, 1)
  BY <1>1, PaidCut
<1> QED
  BY <1>1, <1>2, <1>4, <1>5 DEF Chain

(* What one unit makes, by itself. *)
Alone(pp, u) ==
  /\ Brings(pp, u) /\ Paid(pp, 1)
  /\ pp \in Seq(RtpPacket) /\ Len(pp) \in 1 .. MaxLen

LEMMA SingleFacts ==
  ASSUME NEW u \in NalUnit
  PROVE  /\ PacketOK(V!Single(u)) /\ V!Single(u) \in RtpPacket /\ V!Single(u).n = 1
         /\ V!Single(u).type = "single" /\ V!Single(u).units = <<u>>
<1>1. <<u>> \in Seq(NalUnit) /\ <<u>> # <<>> /\ Len(<<u>>) = 1
  OBVIOUS
<1> QED
  BY <1>1 DEF PacketOK, RtpPacket, V!Single, V!Packet

LEMMA SingleAlone ==
  ASSUME NEW u \in NalUnit
  PROVE  Alone(<<V!Single(u)>>, u)
<1>1. PICK p : p = V!Single(u)
  OBVIOUS
<1>2. PacketOK(p) /\ p.n = 1 /\ p.type = "single" /\ p.units = <<u>>
  BY <1>1, SingleFacts
<1>3. Brings(<<p>>, u) /\ Paid(<<p>>, 1) /\ Len(<<p>>) = 1 /\ <<p>> \in Seq(RtpPacket)
  BY <1>2, OneBrings
<1>4. 1 \in 1 .. MaxLen
  BY VideoAssumption DEF NalUnit
<1> QED
  BY <1>1, <1>3, <1>4 DEF Alone

LEMMA FragmentsAlone ==
  ASSUME NEW u \in NalUnit, u.len > Mtu, codec \in {"H264", "H265"}
  PROVE  Alone(V!Fragments(u), u)
<1>1. PICK n \in 1 .. MaxLen : V!Fragments(u) = Cut(u, n)
  BY FragmentsFacts
<1>2. n \in Nat \ {0}
  BY VideoAssumption
<1>3. Brings(Cut(u, n), u) /\ Paid(Cut(u, n), 1) /\ Len(Cut(u, n)) = n /\ Cut(u, n) \in Seq(RtpPacket)
  BY <1>2, CutBrings
<1> QED
  BY <1>1, <1>3 DEF Alone

LEMMA CameraAlone ==
  ASSUME NEW u \in NalUnit, codec \in {"H264", "H265"}
  PROVE  Alone(V!CameraPacket(u), u)
<1>1. CASE u.len > Mtu
  BY <1>1, FragmentsAlone DEF V!CameraPacket
<1>2. CASE ~ (u.len > Mtu)
  <2>1. PICK p : p = V!Packet("fu", <<u>>, 1, 1)
    OBVIOUS
  <2>2. <<u>> \in Seq(NalUnit) /\ <<u>> # <<>> /\ Len(<<u>>) = 1
    OBVIOUS
  <2>3. PacketOK(p) /\ p.n = 1 /\ p.type = "fu" /\ p.units = <<u>>
    BY <2>1, <2>2 DEF PacketOK, RtpPacket, V!Packet
  <2>4. Brings(<<p>>, u) /\ Paid(<<p>>, 1) /\ Len(<<p>>) = 1 /\ <<p>> \in Seq(RtpPacket)
    BY <2>3, OneBrings
  <2>5. 1 \in 1 .. MaxLen
    BY VideoAssumption DEF NalUnit
  <2>6. Alone(<<p>>, u)
    BY <2>4, <2>5 DEF Alone
  <2>7. V!CameraPacket(u) = <<p>> \/ V!CameraPacket(u) = <<V!Single(u)>>
    BY <1>2, <2>1 DEF V!CameraPacket
  <2> QED
    BY <2>6, <2>7, SingleAlone
<1> QED
  BY <1>1, <1>2

PayState == [held : Seq(NalUnit), packets : Seq(RtpPacket)]

(* What the first i units of a frame have made: for H.265, no more packets *)
(* than bytes; for H.264, what its slices need.                            *)
Paying(st, units, i) ==
  /\ st \in PayState /\ Chain(st.packets)
  /\ camera => st.held = <<>>
  /\ codec = "H265" => Len(st.packets) + (IF st.held = <<>> THEN 0 ELSE 1) <= i * MaxLen
  /\ codec = "H264" =>
       /\ \A j \in 1 .. Len(st.held) : st.held[j].kind \in V!PS
       /\ SlicesPaid(units, i, st.packets)
       /\ \E w \in Nat : Paid(st.packets, w) /\ w + Len(st.held) <= Len(stapANalu) + i

LEMMA FlushFacts ==
  ASSUME codec = "H265", NEW st \in PayState, Chain(st.packets)
  PROVE  /\ V!Flush(st) \in PayState /\ Chain(V!Flush(st).packets) /\ V!Flush(st).held = <<>>
         /\ Len(V!Flush(st).packets) = Len(st.packets) + (IF st.held = <<>> THEN 0 ELSE 1)
<1>0. st.held \in Seq(NalUnit) /\ st.packets \in Seq(RtpPacket) /\ <<>> \in Seq(NalUnit)
  BY EmptySeq DEF PayState
<1>1. ASSUME NEW p, PacketOK(p), p.n = 1, st.held # <<>>,
             V!Flush(st) = [held |-> <<>>, packets |-> Append(st.packets, p)]
      PROVE  /\ V!Flush(st) \in PayState /\ Chain(V!Flush(st).packets) /\ V!Flush(st).held = <<>>
             /\ Len(V!Flush(st).packets) = Len(st.packets) + (IF st.held = <<>> THEN 0 ELSE 1)
  <2>1. p \in RtpPacket
    BY <1>1 DEF PacketOK
  <2>2. /\ Append(st.packets, p) = st.packets \o <<p>> /\ Append(st.packets, p) \in Seq(RtpPacket)
        /\ Len(Append(st.packets, p)) = Len(st.packets) + 1
    BY <1>0, <2>1, AppendIsConcat, AppendProperties
  <2>3. Chain(st.packets \o <<p>>)
    BY <1>1, ChainOne, ChainConcat
  <2> QED
    BY <1>0, <1>1, <2>2, <2>3 DEF PayState
<1>2. CASE st.held = <<>>
  BY <1>0, <1>2, LenProperties DEF V!Flush
<1>3. CASE st.held # <<>> /\ Len(st.held) = 1
  <2>1. st.held[1] \in NalUnit
    BY <1>0, <1>3
  <2>2. PacketOK(V!Single(st.held[1])) /\ V!Single(st.held[1]).n = 1
    BY <2>1, SingleFacts
  <2>3. V!Flush(st) = [held |-> <<>>, packets |-> Append(st.packets, V!Single(st.held[1]))]
    BY <1>3 DEF V!Flush
  <2> QED
    BY <1>1, <1>3, <2>2, <2>3
<1>4. CASE st.held # <<>> /\ Len(st.held) # 1
  <2>1. PICK p : p = V!Packet("ap", st.held, 1, 1)
    OBVIOUS
  <2>2. PacketOK(p) /\ p.n = 1
    BY <1>0, <1>4, <2>1 DEF PacketOK, RtpPacket, V!Packet
  <2>3. V!Flush(st) = [held |-> <<>>, packets |-> Append(st.packets, p)]
    BY <1>4, <2>1 DEF V!Flush
  <2> QED
    BY <1>1, <1>4, <2>2, <2>3
<1> QED
  BY <1>2, <1>3, <1>4

LEMMA BringsNothing ==
  ASSUME NEW u \in NalUnit, u.kind \notin V!Slice
  PROVE  Brings(<<>>, u) /\ Paid(<<>>, 0)
<1>1. PICK e : e = <<>> /\ Len(e) = 0
  BY EmptySeq
<1> QED
  BY <1>1, ChainEmpty, PaidEmpty DEF Brings

(* Parameter sets that share a packet bring no slice. *)
LEMMA StapBrings ==
  ASSUME NEW held \in Seq(NalUnit), held # <<>>, \A i \in 1 .. Len(held) : held[i].kind \in V!PS,
         NEW q, NEW u \in NalUnit, Brings(q, u), NEW w \in Nat, Paid(q, w)
  PROVE  /\ Brings(<<V!Packet("stap", held, 1, 1)>> \o q, u)
         /\ Paid(<<V!Packet("stap", held, 1, 1)>> \o q, Len(held) + w)
<1>1. PICK p : p = V!Packet("stap", held, 1, 1)
  OBVIOUS
<1>2. PacketOK(p) /\ p.n = 1 /\ p.units = held /\ p \in RtpPacket
  BY <1>1 DEF PacketOK, RtpPacket, V!Packet
<1>3. PICK one : one = <<p>>
  OBVIOUS
<1>4. one \in Seq(RtpPacket) /\ Len(one) = 1 /\ one[1] = p
  BY <1>2, <1>3
<1>5. Chain(one) /\ Paid(one, Len(held)) /\ Len(held) \in Nat
  BY <1>2, <1>3, ChainOne, PaidOne
<1>6. ~ SliceEnd(p)
  <2>1. held[1].kind \in V!PS
    <3>1. 1 \in 1 .. Len(held)
      BY EmptySeq, LenProperties
    <3> QED
      BY <3>1
  <2> QED
    BY <1>2, <2>1 DEF SliceEnd, V!PS, V!Slice
<1>7. q \in Seq(RtpPacket) /\ Chain(q)
  BY DEF Brings, Chain
<1>8. PICK lq \in Nat : lq = Len(q)
  BY <1>7, LenProperties
<1>9. PICK pq : pq = one \o q
  OBVIOUS
<1>a. /\ Len(pq) = 1 + lq
      /\ \A j \in 1 .. 1 : j \in 1 .. Len(pq) /\ pq[j] = one[j]
      /\ \A j \in 1 .. lq : 1 + j \in 1 .. Len(pq) /\ pq[1 + j] = q[j]
      /\ \A j \in 1 .. Len(pq) : j \in 1 .. 1 \/ (j - 1 \in 1 .. lq /\ j = 1 + (j - 1))
  <2>1. PICK lp \in Nat : lp = Len(one)
    BY <1>4
  <2>2. /\ Len(pq) = lp + lq
        /\ \A j \in 1 .. lp : j \in 1 .. Len(pq) /\ pq[j] = one[j]
        /\ \A j \in 1 .. lq : lp + j \in 1 .. Len(pq) /\ pq[lp + j] = q[j]
        /\ \A j \in 1 .. Len(pq) : j \in 1 .. lp \/ (j - lp \in 1 .. lq /\ j = lp + (j - lp))
    <3> DEFINE T == RtpPacket
    <3>1. one \in Seq(T) /\ q \in Seq(T)
      BY <1>4, <1>7
    <3> HIDE DEF T
    <3> QED
      BY ONLY <1>8, <1>9, <2>1, <3>1, Joined
  <2> QED
    BY <1>4, <2>1, <2>2
<1>b. Chain(pq) /\ Paid(pq, Len(held) + w)
  BY <1>4, <1>5, <1>7, <1>9, ChainConcat, PaidJoin
<1>c. ASSUME NEW j \in 1 .. Len(pq), SliceEnd(pq[j]) PROVE pq[j].units[1] = u /\ j = Len(pq)
  <2>1. j # 1
    BY <1>4, <1>6, <1>a, <1>c
  <2>2. PICK i \in 1 .. lq : j = 1 + i
    BY <1>a, <2>1
  <2>3. SliceEnd(q[i]) /\ pq[j] = q[i]
    BY <1>a, <1>c, <2>2
  <2>4. q[i].units[1] = u /\ i = lq
    BY <1>8, <2>3 DEF Brings
  <2> QED
    BY <1>a, <2>2, <2>3, <2>4
<1>d. u.kind \in V!Slice => Len(pq) > 0 /\ SliceEnd(pq[Len(pq)])
  <2> SUFFICES ASSUME u.kind \in V!Slice PROVE Len(pq) > 0 /\ SliceEnd(pq[Len(pq)])
    OBVIOUS
  <2>1. lq > 0 /\ SliceEnd(q[lq])
    BY <1>8 DEF Brings
  <2> QED
    BY <1>a, <2>1
<1> QED
  BY <1>1, <1>3, <1>9, <1>b, <1>c, <1>d DEF Brings

LEMMA Three ==
  ASSUME NEW p \in Seq(RtpPacket), NEW q \in Seq(RtpPacket), NEW r \in Seq(RtpPacket)
  PROVE  p \o q \o r = p \o (q \o r)
<1> DEFINE T == RtpPacket
<1>1. p \in Seq(T) /\ q \in Seq(T) /\ r \in Seq(T)
  OBVIOUS
<1> HIDE DEF T
<1> QED
  BY <1>1, ConcatAssociative

(* H.264: units that bring packets, behind those that were there. *)
LEMMA PayMore ==
  ASSUME codec = "H264", camera \in BOOLEAN, stapANalu \in Seq(NalUnit),
         NEW f \in Nat, NEW units, Named(units, f), NEW i \in Nat, i + 1 \in 1 .. Len(units),
         NEW st, Paying(st, units, i), NEW q, Brings(q, units[i + 1]),
         NEW held \in Seq(NalUnit), \A j \in 1 .. Len(held) : held[j].kind \in V!PS,
         camera => held = <<>>,
         NEW w \in Nat, Paid(q, w), w + Len(held) <= Len(st.held) + 1
  PROVE  Paying([held |-> held, packets |-> st.packets \o q], units, i + 1)
<1>1. st.packets \in Seq(RtpPacket) /\ q \in Seq(RtpPacket) /\ Chain(q) /\ Chain(st.packets)
  BY DEF Paying, PayState, Brings, Chain
<1>2. st.packets \o q \in Seq(RtpPacket) /\ Chain(st.packets \o q)
  BY <1>1, ChainConcat, ConcatProperties
<1>3. SlicesPaid(units, i + 1, st.packets \o q)
  BY <1>1, SlicesJoin DEF Paying
<1>4. PICK v \in Nat : Paid(st.packets, v) /\ v + Len(st.held) <= Len(stapANalu) + i
  BY DEF Paying
<1>5. Paid(st.packets \o q, v + w)
  BY <1>1, <1>4, PaidJoin
<1>6. v + w \in Nat /\ (v + w) + Len(held) <= Len(stapANalu) + (i + 1)
  <2>1. Len(held) \in Nat /\ Len(st.held) \in Nat /\ Len(stapANalu) \in Nat
    BY LenProperties DEF Paying, PayState
  <2> QED
    BY <1>4, <2>1, SMTT(30)
<1>7. PICK s2 : s2 = [held |-> held, packets |-> st.packets \o q]
  OBVIOUS
<1>8. s2.held = held /\ s2.packets = st.packets \o q /\ s2 \in PayState
  BY <1>2, <1>7 DEF PayState
<1>9. Paying(s2, units, i + 1)
  BY <1>2, <1>3, <1>5, <1>6, <1>8 DEF Paying
<1> QED
  BY <1>7, <1>9

LEMMA PayStepH264 ==
  ASSUME codec = "H264", camera \in BOOLEAN, stapANalu \in Seq(NalUnit),
         NEW f \in Nat, NEW units, Named(units, f), NEW i \in Nat, i + 1 \in 1 .. Len(units),
         NEW st, Paying(st, units, i)
  PROVE  Paying(V!Emit(st, units[i + 1]), units, i + 1)
<1>1. PICK u \in NalUnit : u = units[i + 1]
  BY DEF Named
<1>0. st \in PayState /\ st.held \in Seq(NalUnit) /\ st.packets \in Seq(RtpPacket)
      /\ Len(st.held) \in Nat /\ (\A j \in 1 .. Len(st.held) : st.held[j].kind \in V!PS)
      /\ (camera => st.held = <<>>)
  BY LenProperties DEF Paying, PayState
<1>e. <<>> \in Seq(NalUnit) /\ Len(<<>>) = 0
  BY EmptySeq
<1>2. CASE camera
  <2>1. Alone(V!CameraPacket(u), u)
    BY CameraAlone
  <2>2. V!Emit(st, u) = [held |-> st.held, packets |-> st.packets \o V!CameraPacket(u)]
    BY <1>0, <1>2 DEF V!Emit, PayState
  <2>3. Brings(V!CameraPacket(u), units[i + 1]) /\ Paid(V!CameraPacket(u), 1) /\ 1 \in Nat
        /\ 1 + Len(st.held) <= Len(st.held) + 1
    BY <1>0, <1>1, <2>1 DEF Alone
  <2>4. Paying([held |-> st.held, packets |-> st.packets \o V!CameraPacket(u)], units, i + 1)
    BY <1>0, <2>3, PayMore
  <2> QED
    BY <1>1, <2>2, <2>4
<1>3. CASE ~ camera /\ u.kind = "aud"
  <2>1. u.kind \notin V!Slice
    BY <1>3 DEF V!Slice
  <2>2. Brings(<<>>, units[i + 1]) /\ Paid(<<>>, 0) /\ 0 \in Nat /\ 0 + Len(st.held) <= Len(st.held) + 1
    BY <1>0, <1>1, <2>1, BringsNothing
  <2>3. Paying([held |-> st.held, packets |-> st.packets \o <<>>], units, i + 1)
    BY <1>0, <2>2, PayMore
  <2>4. st.packets \o <<>> = st.packets
    BY <1>0, ConcatEmptySeq
  <2>5. V!Emit(st, u) = [held |-> st.held, packets |-> st.packets]
    <3>1. V!EmitH264(st, u) = st
      BY <1>3 DEF V!EmitH264, V!PS
    <3>2. V!Emit(st, u) = V!EmitH264(st, u)
      BY <1>3 DEF V!Emit
    <3>3. st = [held |-> st.held, packets |-> st.packets]
      BY <1>0 DEF PayState
    <3> QED
      BY <3>1, <3>2, <3>3
  <2> QED
    BY <1>1, <2>3, <2>4, <2>5
<1>4. CASE ~ camera /\ u.kind \in V!PS
  <2>1. u.kind \notin V!Slice /\ u.kind # "aud"
    BY <1>4 DEF V!Slice, V!PS
  <2>2. PICK more : more = Append(st.held, u)
    OBVIOUS
  <2>3. /\ more \in Seq(NalUnit) /\ Len(more) = Len(st.held) + 1
        /\ \A j \in 1 .. Len(more) : more[j].kind \in V!PS
    <3>1. /\ more \in Seq(NalUnit) /\ Len(more) = Len(st.held) + 1 /\ more[Len(st.held) + 1] = u
          /\ \A j \in 1 .. Len(st.held) : more[j] = st.held[j]
      BY <1>0, <2>2, AppendProperties
    <3>2. ASSUME NEW j \in 1 .. Len(more) PROVE more[j].kind \in V!PS
      <4>1. j \in 1 .. Len(st.held) \/ j = Len(st.held) + 1
        BY <1>0, <3>1
      <4> QED
        BY <1>0, <1>4, <3>1, <4>1
    <3> QED
      BY <3>1, <3>2
  <2>4. Brings(<<>>, units[i + 1]) /\ Paid(<<>>, 0) /\ 0 \in Nat /\ 0 + Len(more) <= Len(st.held) + 1
    BY <1>0, <1>1, <2>1, <2>3, BringsNothing
  <2>5. Paying([held |-> more, packets |-> st.packets \o <<>>], units, i + 1)
    BY <1>0, <1>4, <2>3, <2>4, PayMore
  <2>6. st.packets \o <<>> = st.packets
    BY <1>0, ConcatEmptySeq
  <2>7. V!Emit(st, u) = [held |-> more, packets |-> st.packets]
    BY <1>0, <1>4, <2>1, <2>2 DEF V!Emit, V!EmitH264, PayState
  <2> QED
    BY <1>1, <2>5, <2>6, <2>7
<1>5. CASE ~ camera /\ u.kind # "aud" /\ u.kind \notin V!PS
  <2>1. PICK one : one = IF u.len <= Mtu THEN <<V!Single(u)>> ELSE V!Fragments(u)
    OBVIOUS
  <2>2. Alone(one, u)
    <3>1. u.len \in Nat /\ Mtu \in Nat
      BY VideoAssumption DEF NalUnit
    <3> QED
      BY <2>1, <3>1, SingleAlone, FragmentsAlone
  <2>3. Brings(one, u) /\ Paid(one, 1) /\ one \in Seq(RtpPacket) /\ 1 \in Nat
    BY <2>2 DEF Alone
  <2>4. CASE st.held # <<>> /\ V!StapASize(st.held) <= Mtu
    <3>1. PICK stap : stap = <<V!Packet("stap", st.held, 1, 1)>>
      OBVIOUS
    <3>2. Brings(stap \o one, u) /\ Paid(stap \o one, Len(st.held) + 1)
      BY <1>0, <2>3, <2>4, <3>1, StapBrings
    <3>3. V!Emit(st, u) = [held |-> <<>>, packets |-> st.packets \o stap \o one]
      BY <1>5, <2>1, <2>4, <3>1 DEF V!Emit, V!EmitH264
    <3>4. stap \in Seq(RtpPacket)
      <4>1. V!Packet("stap", st.held, 1, 1) \in RtpPacket
        BY <1>0 DEF RtpPacket, V!Packet
      <4> QED
        BY <3>1, <4>1
    <3>5. st.packets \o stap \o one = st.packets \o (stap \o one)
      <4>1. st.packets \in Seq(RtpPacket) /\ one \in Seq(RtpPacket)
        BY <1>0, <2>3
      <4> QED
        BY ONLY <3>4, <4>1, Three
    <3>6. Len(st.held) + 1 \in Nat /\ Len(st.held) + 1 + Len(<<>>) <= Len(st.held) + 1
      BY <1>0, <1>e
    <3>7. PICK q : q = stap \o one
      OBVIOUS
    <3>8. Brings(q, units[i + 1]) /\ Paid(q, Len(st.held) + 1)
      BY <1>1, <3>2, <3>7
    <3>9. \A j \in 1 .. Len(<<>>) : <<>>[j].kind \in V!PS
      BY <1>e
    <3>a. Paying([held |-> <<>>, packets |-> st.packets \o q], units, i + 1)
      BY <1>5, <1>e, <3>6, <3>8, <3>9, PayMore
    <3> QED
      BY <1>1, <3>3, <3>5, <3>7, <3>a
  <2>5. CASE ~ (st.held # <<>> /\ V!StapASize(st.held) <= Mtu)
    <3>1. V!Emit(st, u) = [held |-> <<>>, packets |-> st.packets \o <<>> \o one]
      BY <1>5, <2>1, <2>5 DEF V!Emit, V!EmitH264
    <3>2. st.packets \o <<>> = st.packets
      BY <1>0, ConcatEmptySeq
    <3>3. 1 + Len(<<>>) <= Len(st.held) + 1
      BY <1>0, <1>e
    <3>4. \A j \in 1 .. Len(<<>>) : <<>>[j].kind \in V!PS
      BY <1>e
    <3>5. Brings(one, units[i + 1])
      BY <1>1, <2>3
    <3>6. Paying([held |-> <<>>, packets |-> st.packets \o one], units, i + 1)
      BY <1>5, <1>e, <2>3, <3>3, <3>4, <3>5, PayMore
    <3> QED
      BY <1>1, <3>1, <3>2, <3>6
  <2> QED
    BY <2>4, <2>5
<1> QED
  BY <1>2, <1>3, <1>4, <1>5

LEMMA OneMore ==
  ASSUME NEW i \in Nat, NEW m \in Nat
  PROVE  i * m \in Nat /\ (i + 1) * m = i * m + m
  OBVIOUS

LEMMA PayStepH265 ==
  ASSUME codec = "H265", camera \in BOOLEAN,
         NEW units \in Seq(NalUnit), NEW i \in Nat, i + 1 \in 1 .. Len(units),
         NEW st, Paying(st, units, i)
  PROVE  Paying(V!Emit(st, units[i + 1]), units, i + 1)
<1>1. PICK u \in NalUnit : u = units[i + 1]
  OBVIOUS
<1>0. st \in PayState /\ st.held \in Seq(NalUnit) /\ st.packets \in Seq(RtpPacket)
      /\ Chain(st.packets) /\ (camera => st.held = <<>>)
  BY DEF Paying, PayState
<1>2. PICK im \in Nat, ln \in Nat : im = i * MaxLen /\ (i + 1) * MaxLen = im + MaxLen /\ ln = Len(st.packets)
  BY <1>0, OneMore, VideoAssumption, LenProperties
<1>3. MaxLen \in Nat \ {0} /\ ln + (IF st.held = <<>> THEN 0 ELSE 1) <= im
  <2>1. Len(st.packets) + (IF st.held = <<>> THEN 0 ELSE 1) <= i * MaxLen
    BY DEF Paying
  <2>2. MaxLen \in Nat \ {0}
    BY VideoAssumption DEF NalUnit
  <2> QED
    BY <1>2, <2>1, <2>2
<1>7. PICK ih \in 0 .. 1 : ih = IF st.held = <<>> THEN 0 ELSE 1
  OBVIOUS
<1>8. ln + ih <= im /\ ln <= im /\ ln \in Nat /\ im \in Nat /\ ih \in Nat /\ MaxLen \in Nat \ {0}
  <2>1. ln + ih <= im /\ MaxLen \in Nat \ {0}
    BY <1>3, <1>7
  <2>2. ln \in Nat /\ im \in Nat
    BY <1>2
  <2> QED
    BY ONLY <1>7, <2>1, <2>2
<1>4. ASSUME NEW s2 \in PayState, Chain(s2.packets), camera => s2.held = <<>>,
             Len(s2.packets) + (IF s2.held = <<>> THEN 0 ELSE 1) <= im + MaxLen
      PROVE  Paying(s2, units, i + 1)
  BY <1>2, <1>4 DEF Paying
<1>5. CASE camera
  <2>1. PICK q : q = V!CameraPacket(u)
    OBVIOUS
  <2>2. Alone(q, u)
    BY <2>1, CameraAlone
  <2>3. q \in Seq(RtpPacket) /\ Chain(q) /\ Len(q) \in 1 .. MaxLen
    BY <2>2 DEF Alone, Brings
  <2>4. V!Emit(st, u) = [held |-> st.held, packets |-> st.packets \o q]
    BY <1>0, <1>5, <2>1 DEF V!Emit, PayState
  <2>5. st.packets \o q \in Seq(RtpPacket) /\ Chain(st.packets \o q)
        /\ Len(st.packets \o q) = ln + Len(q)
    BY <1>0, <1>2, <2>3, ChainConcat, ConcatProperties
  <2>6. st.held = <<>> /\ ln <= im
    BY <1>0, <1>5, <1>8
  <2>7. PICK s2 : s2 = [held |-> st.held, packets |-> st.packets \o q]
    OBVIOUS
  <2>8. s2 \in PayState /\ s2.held = <<>> /\ s2.packets = st.packets \o q
    BY <1>0, <2>5, <2>6, <2>7 DEF PayState
  <2>9. Len(s2.packets) <= im + MaxLen
    BY <1>2, <1>3, <2>3, <2>5, <2>6, <2>8
  <2>a. Len(s2.packets) + (IF s2.held = <<>> THEN 0 ELSE 1) <= im + MaxLen
    BY <2>8, <2>9, <2>5, <2>3, <1>2
  <2>b. Paying(s2, units, i + 1)
    BY <1>4, <2>5, <2>8, <2>a
  <2> QED
    BY <1>1, <2>4, <2>7, <2>b
<1>6. CASE ~ camera
  <2>0. PICK full : full = V!Flush(st)
    OBVIOUS
  <2>1. /\ full \in PayState /\ Chain(full.packets) /\ full.held = <<>>
        /\ Len(full.packets) = ln + ih
    BY <1>0, <1>2, <1>7, <2>0, FlushFacts
  <2>2. Len(full.packets) \in Nat /\ Len(full.packets) <= im
    BY ONLY <1>8, <2>1
  <2>e. V!Emit(st, u) = V!EmitH265(st, u)
    BY <1>6 DEF V!Emit
  <2>3. CASE u.len <= Mtu
    <3>1. PICK base : base = IF V!Aggregated(Append(st.held, u)) > Mtu THEN full ELSE st
      OBVIOUS
    <3>2. base \in PayState /\ Chain(base.packets) /\ Len(base.packets) \in Nat /\ Len(base.packets) <= im
      <4>1. Len(st.packets) \in Nat /\ Len(st.packets) <= im
        <5>1. Len(st.packets) = ln
          BY <1>2
        <5> QED
          BY <1>8, <5>1
      <4> QED
        BY <1>0, <2>1, <2>2, <3>1, <4>1
    <3>3. V!EmitH265(st, u) = [base EXCEPT !.held = Append(@, u)]
      BY <2>0, <2>3, <3>1 DEF V!EmitH265
    <3>4. PICK more : more = Append(base.held, u)
      OBVIOUS
    <3>5. more \in Seq(NalUnit)
      BY <3>2, <3>4, AppendProperties DEF PayState
    <3>6. PICK s2 : s2 = [base EXCEPT !.held = more]
      OBVIOUS
    <3>7. s2 \in PayState /\ s2.packets = base.packets
      BY <3>2, <3>5, <3>6 DEF PayState
    <3>8. Len(s2.packets) + (IF s2.held = <<>> THEN 0 ELSE 1) <= im + MaxLen
      <4>1. Len(s2.packets) \in Nat /\ Len(s2.packets) <= im
        BY <3>2, <3>7
      <4>2. PICK k \in 0 .. 1 : k = IF s2.held = <<>> THEN 0 ELSE 1
        OBVIOUS
      <4>3. Len(s2.packets) + k <= im + MaxLen
        BY ONLY <1>8, <4>1, k \in 0 .. 1
      <4> QED
        BY <4>2, <4>3
    <3>9. Paying(s2, units, i + 1)
      BY <1>4, <1>6, <3>2, <3>7, <3>8
    <3>a. V!EmitH265(st, u) = s2
      BY <3>3, <3>4, <3>6
    <3> QED
      BY <1>1, <2>e, <3>9, <3>a
  <2>4. CASE ~ (u.len <= Mtu)
    <3>1. u.len > Mtu
      BY <2>4, VideoAssumption DEF NalUnit
    <3>2. PICK q : q = V!Fragments(u)
      OBVIOUS
    <3>3. Alone(q, u)
      BY <3>1, <3>2, FragmentsAlone
    <3>4. q \in Seq(RtpPacket) /\ Chain(q) /\ Len(q) \in 1 .. MaxLen
      BY <3>3 DEF Alone, Brings
    <3>5. full.packets \in Seq(RtpPacket)
      BY <2>1 DEF PayState
    <3>6. full.packets \o q \in Seq(RtpPacket) /\ Chain(full.packets \o q)
          /\ Len(full.packets \o q) = Len(full.packets) + Len(q)
      BY <2>1, <3>4, <3>5, ChainConcat, ConcatProperties
    <3>7. PICK s2 : s2 = [full EXCEPT !.packets = full.packets \o q]
      OBVIOUS
    <3>8. s2 \in PayState /\ s2.held = <<>> /\ s2.packets = full.packets \o q
      BY <2>1, <3>6, <3>7 DEF PayState
    <3>9. Len(s2.packets) + (IF s2.held = <<>> THEN 0 ELSE 1) <= im + MaxLen
      BY <1>2, <1>3, <2>2, <3>4, <3>6, <3>8
    <3>a. Paying(s2, units, i + 1)
      BY <1>4, <1>6, <3>6, <3>8, <3>9
    <3>b. V!EmitH265(st, u) = s2
      BY <2>0, <2>4, <3>2, <3>7 DEF V!EmitH265
    <3> QED
      BY <1>1, <2>e, <3>a, <3>b
  <2> QED
    BY <2>3, <2>4
<1> QED
  BY <1>5, <1>6

(* What the units before and the i-th have made. *)
Pays(g, units, n) ==
  g = [i \in 0 .. n |-> IF i = 0 THEN [held |-> stapANalu, packets |-> <<>>] ELSE V!Emit(g[i - 1], units[i])]

LEMMA PaysExists ==
  ASSUME NEW units, NEW n \in Nat
  PROVE  \E g : Pays(g, units, n)
<1> DEFINE T == {i \in Nat : \E g : Pays(g, units, i)}
<1>1. 0 \in T
  <2>1. PICK g : g = [i \in 0 .. 0 |-> [held |-> stapANalu, packets |-> <<>>]]
    OBVIOUS
  <2>2. g = [i \in 0 .. 0 |-> IF i = 0 THEN [held |-> stapANalu, packets |-> <<>>]
                              ELSE V!Emit(g[i - 1], units[i])]
    <3>1. \A i \in 0 .. 0 : i = 0
      OBVIOUS
    <3> QED
      BY <2>1, <3>1
  <2> QED
    BY <2>2 DEF Pays
<1>2. ASSUME NEW i \in Nat, i \in T PROVE i + 1 \in T
  <2>1. PICK g : Pays(g, units, i)
    BY <1>2
  <2>2. PICK h : h = [j \in 0 .. i + 1 |-> IF j = i + 1 THEN V!Emit(g[i], units[i + 1]) ELSE g[j]]
    OBVIOUS
  <2>3. \A j \in 0 .. i : /\ g[j] = IF j = 0 THEN [held |-> stapANalu, packets |-> <<>>]
                                    ELSE V!Emit(g[j - 1], units[j])
    BY <2>1 DEF Pays
  <2>4. ASSUME NEW j \in 0 .. i + 1
        PROVE  h[j] = IF j = 0 THEN [held |-> stapANalu, packets |-> <<>>]
                      ELSE V!Emit(h[j - 1], units[j])
    <3>1. CASE j = i + 1
      <4>1. j # 0 /\ j - 1 = i /\ i \in 0 .. i + 1 /\ i # i + 1
        BY <3>1
      <4>2. h[j] = V!Emit(g[i], units[i + 1]) /\ h[i] = g[i]
        BY <2>2, <3>1, <4>1
      <4> QED
        BY <3>1, <4>1, <4>2
    <3>2. CASE j # i + 1
      <4>1. j \in 0 .. i /\ h[j] = g[j]
        BY <2>2, <3>2
      <4>2. j # 0 => j - 1 \in 0 .. i + 1 /\ j - 1 # i + 1
        OBVIOUS
      <4>3. j # 0 => h[j - 1] = g[j - 1]
        BY <2>2, <4>2
      <4> QED
        BY <2>3, <4>1, <4>3
    <3> QED
      BY <3>1, <3>2
  <2>5. h = [j \in 0 .. i + 1 |-> h[j]]
    BY <2>2
  <2>6. Pays(h, units, i + 1)
    BY ONLY <2>4, <2>5 DEF Pays
  <2> QED
    BY <2>6
<1> HIDE DEF T
<1>3. Nat \subseteq T
  BY <1>1, <1>2, L!Induction
<1> QED
  BY <1>3 DEF T

(* The first state of a frame. *)
LEMMA PayBegins ==
  ASSUME codec \in {"H264", "H265"}, camera \in BOOLEAN, stapANalu \in Seq(NalUnit), NEW units,
         \A j \in 1 .. Len(stapANalu) : stapANalu[j].kind \in V!PS,
         camera \/ codec = "H265" => stapANalu = <<>>
  PROVE  Paying([held |-> stapANalu, packets |-> <<>>], units, 0)
<1>1. PICK e : e = <<>> /\ Len(e) = 0 /\ e \in Seq(RtpPacket)
  BY EmptySeq
<1>2. PICK st : st = [held |-> stapANalu, packets |-> e]
  OBVIOUS
<1>3. st \in PayState /\ st.held = stapANalu /\ st.packets = e
  BY <1>1, <1>2 DEF PayState
<1>4. Chain(e) /\ Paid(e, 0) /\ SlicesPaid(units, 0, e)
  BY <1>1, ChainEmpty, PaidEmpty DEF SlicesPaid
<1>5. 0 * MaxLen = 0
  BY VideoAssumption
<1>6. Len(stapANalu) \in Nat /\ 0 + Len(stapANalu) <= Len(stapANalu) + 0
  BY LenProperties
<1>7. Paying(st, units, 0)
  <2>1. \E w \in Nat : Paid(e, w) /\ w + Len(stapANalu) <= Len(stapANalu) + 0
    BY <1>4, <1>6
  <2> QED
    BY <1>1, <1>3, <1>4, <1>5, <2>1 DEF Paying
<1> QED
  BY <1>1, <1>2, <1>7

(* All the packets of a frame, and what waits for the next.                *)
PaidFor(st, units) ==
  /\ st \in PayState /\ Chain(st.packets)
  /\ \A j \in 1 .. Len(st.held) : st.held[j].kind \in V!PS
  /\ camera \/ codec = "H265" => st.held = <<>>
  /\ codec = "H265" => Len(st.packets) <= Len(units) * MaxLen
  /\ codec = "H264" =>
       /\ SlicesPaid(units, Len(units), st.packets)
       /\ \E w \in Nat : Paid(st.packets, w) /\ w + Len(st.held) <= Len(stapANalu) + Len(units)

LEMMA PayloadFacts ==
  ASSUME codec \in {"H264", "H265"}, camera \in BOOLEAN, stapANalu \in Seq(NalUnit),
         \A j \in 1 .. Len(stapANalu) : stapANalu[j].kind \in V!PS,
         camera \/ codec = "H265" => stapANalu = <<>>,
         NEW f \in Nat, NEW units, Named(units, f)
  PROVE  PaidFor(V!Payload(units), units)
<1>1. PICK n \in Nat : n = Len(units) /\ units \in Seq(NalUnit)
  BY LenProperties DEF Named
<1> DEFINE g == CHOOSE g : Pays(g, units, n)
<1>2. Pays(g, units, n)
  BY PaysExists
<1>3. V!Payload(units) = IF codec = "H264" THEN g[n] ELSE V!Flush(g[n])
  BY <1>1 DEF V!Payload, Pays
<1> HIDE DEF g
<1>4. \A i \in 0 .. n : g[i] = IF i = 0 THEN [held |-> stapANalu, packets |-> <<>>]
                               ELSE V!Emit(g[i - 1], units[i])
  BY <1>2 DEF Pays
<1> DEFINE T == {i \in Nat : i <= n => Paying(g[i], units, i)}
<1>5. 0 \in T
  <2>1. 0 \in 0 .. n
    OBVIOUS
  <2> QED
    BY <1>4, <2>1, PayBegins
<1>6. ASSUME NEW i \in Nat, i \in T PROVE i + 1 \in T
  <2> SUFFICES ASSUME i + 1 <= n PROVE Paying(g[i + 1], units, i + 1)
    OBVIOUS
  <2>1. i + 1 \in 0 .. n /\ i + 1 # 0 /\ (i + 1) - 1 = i /\ i + 1 \in 1 .. Len(units) /\ i <= n
    BY <1>1
  <2>2. g[i + 1] = V!Emit(g[i], units[i + 1]) /\ Paying(g[i], units, i)
    BY <1>4, <1>6, <2>1
  <2>3. Paying(V!Emit(g[i], units[i + 1]), units, i + 1)
    BY <1>1, <2>1, <2>2, PayStepH264, PayStepH265
  <2> QED
    BY <2>2, <2>3
<1> HIDE DEF T
<1>7. Nat \subseteq T
  BY <1>5, <1>6, L!Induction
<1>8. Paying(g[n], units, n)
  BY <1>7 DEF T
<1>9. CASE codec = "H264"
  BY <1>1, <1>3, <1>8, <1>9 DEF Paying, PaidFor
<1>a. CASE codec = "H265"
  <2>1. PICK st : st = g[n]
    OBVIOUS
  <2>2. PICK full : full = V!Flush(st)
    OBVIOUS
  <2>3. st \in PayState /\ Chain(st.packets)
        /\ Len(st.packets) + (IF st.held = <<>> THEN 0 ELSE 1) <= n * MaxLen
    BY <1>8, <1>a, <2>1 DEF Paying
  <2>4. /\ full \in PayState /\ Chain(full.packets) /\ full.held = <<>>
        /\ Len(full.packets) = Len(st.packets) + (IF st.held = <<>> THEN 0 ELSE 1)
    BY <1>a, <2>2, <2>3, FlushFacts
  <2>5. \A j \in 1 .. Len(full.held) : full.held[j].kind \in V!PS
    BY <2>4, EmptySeq
  <2>6. Len(full.packets) <= Len(units) * MaxLen
    BY <1>1, <2>3, <2>4
  <2>7. PaidFor(full, units)
    BY <1>a, <2>4, <2>5, <2>6 DEF PaidFor
  <2> QED
    BY <1>3, <1>a, <2>1, <2>2, <2>7
<1> QED
  BY <1>9, <1>a

(* The same packets, but for their numbers and markers. *)
SamePackets(pp, qq) ==
  /\ pp \in Seq(RtpPacket) /\ qq \in Seq(RtpPacket) /\ Len(pp) = Len(qq)
  /\ \A j \in 1 .. Len(pp) : /\ qq[j].type = pp[j].type /\ qq[j].units = pp[j].units
                             /\ qq[j].k = pp[j].k /\ qq[j].n = pp[j].n

LEMMA AlikeChain ==
  ASSUME NEW pp, NEW qq, SamePackets(pp, qq), Chain(pp)
  PROVE  Chain(qq)
<1>1. PICK n \in Nat : n = Len(pp) /\ n = Len(qq)
  BY LenProperties DEF SamePackets
<1>2. \A j \in 1 .. n : /\ qq[j].type = pp[j].type /\ qq[j].units = pp[j].units
                        /\ qq[j].k = pp[j].k /\ qq[j].n = pp[j].n /\ qq[j] \in RtpPacket
  BY <1>1, ElementOfSeq DEF SamePackets
<1>3. ASSUME NEW j \in 1 .. n
      PROVE  /\ PacketOK(qq[j])
             /\ Begun(qq[j]) => j + 1 \in 1 .. n /\ Continues(qq[j], qq[j + 1])
             /\ qq[j].k > 1 => j - 1 \in 1 .. n /\ Continues(qq[j - 1], qq[j])
  <2>1. /\ PacketOK(pp[j])
        /\ Begun(pp[j]) => j + 1 \in 1 .. n /\ Continues(pp[j], pp[j + 1])
        /\ pp[j].k > 1 => j - 1 \in 1 .. n /\ Continues(pp[j - 1], pp[j])
    BY <1>1 DEF Chain
  <2>2. PacketOK(qq[j])
    BY <1>2, <2>1 DEF PacketOK
  <2>3. ASSUME Begun(qq[j]) PROVE j + 1 \in 1 .. n /\ Continues(qq[j], qq[j + 1])
    <3>1. Begun(pp[j])
      BY <1>2, <2>3 DEF Begun
    <3>2. j + 1 \in 1 .. n /\ Continues(pp[j], pp[j + 1])
      BY <2>1, <3>1
    <3> QED
      BY <1>2, <3>2 DEF Continues
  <2>4. ASSUME qq[j].k > 1 PROVE j - 1 \in 1 .. n /\ Continues(qq[j - 1], qq[j])
    <3>1. j - 1 \in 1 .. n /\ Continues(pp[j - 1], pp[j])
      BY <1>2, <2>1, <2>4
    <3> QED
      BY <1>2, <3>1 DEF Continues
  <2> QED
    BY <2>2, <2>3, <2>4
<1>4. qq \in Seq(RtpPacket)
  BY DEF SamePackets
<1> QED
  BY <1>1, <1>3, <1>4 DEF Chain

LEMMA AlikeSlices ==
  ASSUME NEW pp, NEW qq, SamePackets(pp, qq)
  PROVE  /\ \A j \in 1 .. Len(pp) : SliceEnd(qq[j]) <=> SliceEnd(pp[j])
         /\ \A units, i : SlicesPaid(units, i, pp) => SlicesPaid(units, i, qq)
         /\ \A w : Paid(pp, w) => Paid(qq, w)
<1>1. PICK n \in Nat : n = Len(pp) /\ n = Len(qq)
  BY LenProperties DEF SamePackets
<1>2. \A j \in 1 .. n : qq[j].units = pp[j].units /\ (Begun(qq[j]) <=> Begun(pp[j]))
  BY <1>1 DEF SamePackets, Begun
<1>3. \A j \in 1 .. n : (SliceEnd(qq[j]) <=> SliceEnd(pp[j])) /\ Weight(qq[j]) = Weight(pp[j])
  BY <1>2 DEF SliceEnd, Weight
<1>4. ASSUME NEW units, NEW i, SlicesPaid(units, i, pp) PROVE SlicesPaid(units, i, qq)
  <2> DEFINE First(p) == p.units[1]
             Same(j) == (SliceEnd(qq[j]) <=> SliceEnd(pp[j])) /\ First(qq[j]) = First(pp[j])
  <2>1. \A j \in 1 .. n : Same(j)
    BY <1>2, <1>3
  <2>2. /\ \A j \in 1 .. n : SliceEnd(pp[j]) => \E x \in 1 .. i : First(pp[j]) = units[x]
        /\ \A j, k \in 1 .. n :
             SliceEnd(pp[j]) /\ SliceEnd(pp[k]) /\ j < k => First(pp[j]).id[2] < First(pp[k]).id[2]
        /\ \A x \in 1 .. i : units[x].kind \in V!Slice =>
             \E j \in 1 .. n : SliceEnd(pp[j]) /\ First(pp[j]) = units[x]
        /\ i > 0 => (units[i].kind \in V!Slice => n > 0 /\ SliceEnd(pp[n]))
    BY <1>1, <1>4 DEF SlicesPaid
  <2>3. n > 0 => Same(n)
    BY <2>1
  <2>4. /\ \A j \in 1 .. n : SliceEnd(qq[j]) => \E x \in 1 .. i : First(qq[j]) = units[x]
        /\ \A j, k \in 1 .. n :
             SliceEnd(qq[j]) /\ SliceEnd(qq[k]) /\ j < k => First(qq[j]).id[2] < First(qq[k]).id[2]
        /\ \A x \in 1 .. i : units[x].kind \in V!Slice =>
             \E j \in 1 .. n : SliceEnd(qq[j]) /\ First(qq[j]) = units[x]
        /\ i > 0 => (units[i].kind \in V!Slice => n > 0 /\ SliceEnd(qq[n]))
    <3> HIDE DEF First
    <3> QED
      BY <2>1, <2>2, <2>3
  <2> QED
    BY <1>1, <2>4 DEF SlicesPaid
<1>5. ASSUME NEW w, Paid(pp, w) PROVE Paid(qq, w)
  <2>1. PICK q : Counts(pp, q) /\ q[n] <= w
    BY <1>1, <1>5 DEF Paid
  <2>2. Counts(qq, q)
    BY <1>1, <1>3, <2>1 DEF Counts
  <2> QED
    BY <1>1, <2>1, <2>2 DEF Paid
<1> QED
  BY <1>1, <1>3, <1>4, <1>5

(* The numbers that packets have, from the first. *)
SeqOf(j) == IF j = 0 THEN Numbers - 2 ELSE IF j = 1 THEN Numbers - 1 ELSE j - 2

LEMMA ModSmall ==
  ASSUME NEW x \in Nat, NEW y \in Nat \ {0}, x < y
  PROVE  x % y = x
  OBVIOUS

LEMMA ModWrap ==
  ASSUME NEW x \in Nat, NEW y \in Nat \ {0}, y <= x, x < y + y
  PROVE  x % y = x - y
  OBVIOUS

LEMMA SeqAfter ==
  ASSUME NEW i \in Nat, NEW j \in Nat, i + j < Numbers
  PROVE  (SeqOf(i) + j) % Numbers = SeqOf(i + j) /\ SeqOf(i) \in Nat
<1>1. PICK y \in Nat \ {0} : y = Numbers /\ y > 1
  BY VideoAssumption
<1>2. PICK s \in Nat : s = SeqOf(i)
  BY <1>1 DEF SeqOf
<1>3. CASE i > 1
  <2>1. s = i - 2 /\ SeqOf(i + j) = i + j - 2
    BY <1>2, <1>3 DEF SeqOf
  <2>2. s + j \in Nat /\ s + j < y /\ s + j = i + j - 2
    BY <1>1, <1>3, <2>1
  <2>3. (s + j) % y = s + j
    BY ONLY <1>1, <2>2, ModSmall
  <2> QED
    BY <1>1, <1>2, <2>1, <2>2, <2>3
<1>4. CASE i <= 1 /\ i + j <= 1
  <2>1. s + j = SeqOf(i + j) /\ s + j \in Nat /\ s + j < y
    BY <1>1, <1>2, <1>4 DEF SeqOf
  <2>2. (s + j) % y = s + j
    BY ONLY <1>1, <2>1, ModSmall
  <2> QED
    BY <1>1, <1>2, <2>1, <2>2
<1>5. CASE i <= 1 /\ i + j > 1
  <2>1. s = y + i - 2 /\ SeqOf(i + j) = i + j - 2
    BY <1>1, <1>2, <1>5 DEF SeqOf
  <2>2. s + j \in Nat /\ y <= s + j /\ s + j < y + y /\ s + j - y = i + j - 2
    BY <1>1, <1>5, <2>1
  <2>3. (s + j) % y = s + j - y
    BY ONLY <1>1, <2>2, ModWrap
  <2> QED
    BY <1>1, <1>2, <2>1, <2>2, <2>3
<1> QED
  BY <1>3, <1>4, <1>5

LEMMA NumberedFacts ==
  ASSUME NEW pp, Chain(pp), number \in Nat, camera \in BOOLEAN
  PROVE  /\ SamePackets(pp, V!Numbered(pp)) /\ Chain(V!Numbered(pp))
         /\ \A j \in 1 .. Len(pp) :
              /\ V!Numbered(pp)[j].seq = (number + j) % Numbers
              /\ V!Numbered(pp)[j].marker = (j = Len(pp) \/ (camera /\ pp[j].units[1].kind \in V!PS))
<1>1. PICK n \in Nat : n = Len(pp) /\ pp \in Seq(RtpPacket)
  BY LenProperties DEF Chain
<1>2. PICK qq : qq = V!Numbered(pp)
  OBVIOUS
<1>3. \A j \in 1 .. n : pp[j] \in RtpPacket
  BY <1>1
<1>4. ASSUME NEW j \in 1 .. n
      PROVE  /\ qq[j] \in RtpPacket
             /\ qq[j].type = pp[j].type /\ qq[j].units = pp[j].units /\ qq[j].k = pp[j].k /\ qq[j].n = pp[j].n
             /\ qq[j].seq = (number + j) % Numbers
             /\ qq[j].marker = (j = n \/ (camera /\ pp[j].units[1].kind \in V!PS))
  <2>1. PICK s, m : s = (number + j) % Numbers /\ m = (j = n \/ (camera /\ pp[j].units[1].kind \in V!PS))
    OBVIOUS
  <2>2. s \in Nat /\ m \in BOOLEAN
    BY <2>1, VideoAssumption
  <2>3. qq[j] = [pp[j] EXCEPT !.seq = s, !.marker = m]
    BY <1>1, <1>2, <2>1 DEF V!Numbered
  <2> QED
    BY <1>3, <2>1, <2>2, <2>3 DEF RtpPacket
<1>5. qq = [j \in 1 .. n |-> qq[j]]
  BY <1>1, <1>2 DEF V!Numbered
<1>6. qq \in Seq(RtpPacket) /\ Len(qq) = n
  BY <1>4, <1>5
<1>7. SamePackets(pp, qq)
  BY <1>1, <1>4, <1>6 DEF SamePackets
<1>8. Chain(qq)
  BY <1>7, AlikeChain
<1> QED
  BY <1>1, <1>2, <1>4, <1>7, <1>8

FrameOf(p) == p.units[1].id[1]
PlaceOf(p) == p.units[1].id[2]
Before(a, b) == a[1] < b[1] \/ (a[1] = b[1] /\ a[2] < b[2])

(* H.264: which packets end the slices of the frames ff.  The last one of  *)
(* a frame has the marker; another packet with a marker begins with a      *)
(* parameter set, or no slice of its frame is behind it.                   *)
EndsInOrder(pp) ==
  \A j, k \in 1 .. Len(pp) :
    SliceEnd(pp[j]) /\ SliceEnd(pp[k]) /\ j < k => Before(pp[j].units[1].id, pp[k].units[1].id)
EndsMarked(pp) ==
  \A j \in 1 .. Len(pp) : SliceEnd(pp[j]) =>
    \E m \in j .. Len(pp) : SliceEnd(pp[m]) /\ pp[m].marker /\ FrameOf(pp[m]) = FrameOf(pp[j])
MarksEnd(pp) ==
  \A m \in 1 .. Len(pp) : pp[m].marker /\ pp[m].units[1].kind \notin V!PS =>
    \A j \in 1 .. m : \A k \in m + 1 .. Len(pp) :
      SliceEnd(pp[j]) /\ SliceEnd(pp[k]) => FrameOf(pp[j]) < FrameOf(pp[k])
EndsOf(ff, pp) ==
  /\ \A j \in 1 .. Len(pp) : SliceEnd(pp[j]) =>
       FrameOf(pp[j]) \in 1 .. Len(ff) /\ PlaceOf(pp[j]) \in V!Slices(ff[FrameOf(pp[j])])
  /\ \A f \in 1 .. Len(ff) : \A z \in V!Slices(ff[f]) :
       \E j \in 1 .. Len(pp) : SliceEnd(pp[j]) /\ FrameOf(pp[j]) = f /\ PlaceOf(pp[j]) = z
SliceLog(ff, pp) == EndsInOrder(pp) /\ EndsMarked(pp) /\ MarksEnd(pp) /\ EndsOf(ff, pp)

(* The packets of one frame behind the ones before it. *)
LEMMA SliceLogJoin ==
  ASSUME camera \in BOOLEAN, NEW ff \in Seq(Seq(NalUnit)), NEW n \in Nat, n = Len(ff),
         NEW p, Chain(p), SliceLog(ff, p), NEW units, Named(units, n + 1),
         \A i \in 1 .. Len(units) : units[i].kind \in V!Slice => units[Len(units)].kind \in V!Slice,
         NEW q, Chain(q), SlicesPaid(units, Len(units), q),
         \A j \in 1 .. Len(q) : q[j].marker = (j = Len(q) \/ (camera /\ q[j].units[1].kind \in V!PS))
  PROVE  SliceLog(Append(ff, units), p \o q)
<1>1. PICK lp \in Nat, lq \in Nat, lu \in Nat : lp = Len(p) /\ lq = Len(q) /\ lu = Len(units)
  BY LenProperties DEF Chain, Named
<1>2. PICK pq : pq = p \o q
  OBVIOUS
<1>3. /\ Len(pq) = lp + lq
      /\ \A j \in 1 .. lp : j \in 1 .. Len(pq) /\ pq[j] = p[j]
      /\ \A j \in 1 .. lq : lp + j \in 1 .. Len(pq) /\ pq[lp + j] = q[j]
      /\ \A j \in 1 .. Len(pq) : j \in 1 .. lp \/ (j - lp \in 1 .. lq /\ j = lp + (j - lp))
  <2>0. PICK np \in Nat, nq \in Nat : np = Len(p) /\ nq = Len(q)
    BY LenProperties DEF Chain
  <2>1. p \in Seq(RtpPacket) /\ q \in Seq(RtpPacket)
    BY DEF Chain
  <2>2. /\ Len(pq) = np + nq
        /\ \A j \in 1 .. np : j \in 1 .. Len(pq) /\ pq[j] = p[j]
        /\ \A j \in 1 .. nq : np + j \in 1 .. Len(pq) /\ pq[np + j] = q[j]
        /\ \A j \in 1 .. Len(pq) : j \in 1 .. np \/ (j - np \in 1 .. nq /\ j = np + (j - np))
    BY ONLY <1>2, <2>0, <2>1, Joined
  <2> QED
    BY <1>1, <2>0, <2>2
<1>4. PICK gg : gg = Append(ff, units)
  OBVIOUS
<1>5. Len(gg) = n + 1 /\ gg[n + 1] = units /\ \A f \in 1 .. n : gg[f] = ff[f]
  BY <1>4, AppendProperties DEF Named
<1>6. \A i \in 1 .. lu : units[i].id[1] = n + 1 /\ units[i].id[2] = i
  BY <1>1 DEF Named
<1>7. /\ \A j \in 1 .. lq : SliceEnd(q[j]) => \E x \in 1 .. lu : q[j].units[1] = units[x]
      /\ \A j, k \in 1 .. lq : SliceEnd(q[j]) /\ SliceEnd(q[k]) /\ j < k => PlaceOf(q[j]) < PlaceOf(q[k])
      /\ \A x \in 1 .. lu : units[x].kind \in V!Slice =>
           \E j \in 1 .. lq : SliceEnd(q[j]) /\ q[j].units[1] = units[x]
      /\ lu > 0 => (units[lu].kind \in V!Slice => lq > 0 /\ SliceEnd(q[lq]))
  BY <1>1 DEF SlicesPaid, PlaceOf
<1>8. ASSUME NEW j \in 1 .. lq, SliceEnd(q[j])
      PROVE  /\ FrameOf(q[j]) = n + 1 /\ PlaceOf(q[j]) \in 1 .. lu
             /\ units[PlaceOf(q[j])].kind \in V!Slice /\ PlaceOf(q[j]) \in V!Slices(units)
             /\ lq \in 1 .. lq /\ SliceEnd(q[lq])
  <2>1. PICK x \in 1 .. lu : q[j].units[1] = units[x]
    BY <1>7, <1>8
  <2>2. FrameOf(q[j]) = n + 1 /\ PlaceOf(q[j]) = x /\ units[x].kind \in V!Slice
    BY <1>6, <1>8, <2>1 DEF FrameOf, PlaceOf, SliceEnd
  <2>3. units[lu].kind \in V!Slice /\ lu > 0
    BY <1>1, <2>2
  <2>4. lq > 0 /\ SliceEnd(q[lq])
    BY <1>7, <2>3
  <2> QED
    BY <1>1, <2>2, <2>4 DEF V!Slices
<1>9. ASSUME NEW j \in 1 .. lp, SliceEnd(p[j])
      PROVE  FrameOf(p[j]) \in 1 .. n /\ PlaceOf(p[j]) \in V!Slices(ff[FrameOf(p[j])])
  BY <1>1, <1>9 DEF SliceLog, EndsOf
<1>a. ASSUME NEW j \in 1 .. Len(pq)
      PROVE  \/ j \in 1 .. lp /\ pq[j] = p[j]
             \/ \E i \in 1 .. lq : j = lp + i /\ pq[j] = q[i]
  BY <1>3
<1>b. EndsInOrder(pq)
  <2> SUFFICES ASSUME NEW j \in 1 .. Len(pq), NEW k \in 1 .. Len(pq), SliceEnd(pq[j]), SliceEnd(pq[k]), j < k
               PROVE  Before(pq[j].units[1].id, pq[k].units[1].id)
    BY DEF EndsInOrder
  <2>1. CASE k \in 1 .. lp
    <3>1. j \in 1 .. lp /\ pq[j] = p[j] /\ pq[k] = p[k]
      BY <1>3, <2>1
    <3> QED
      BY <1>1, <2>1, <3>1 DEF SliceLog, EndsInOrder
  <2>2. CASE k \notin 1 .. lp
    <3>1. PICK i \in 1 .. lq : k = lp + i /\ pq[k] = q[i]
      BY <1>a, <2>2
    <3>2. FrameOf(pq[k]) = n + 1
      BY <1>8, <3>1
    <3>3. CASE j \in 1 .. lp
      <4>1. FrameOf(pq[j]) \in 1 .. n
        BY <1>3, <1>9, <3>3
      <4>2. FrameOf(pq[j]) < FrameOf(pq[k])
        BY <3>2, <4>1
      <4> QED
        BY <4>2 DEF Before, FrameOf
    <3>4. CASE j \notin 1 .. lp
      <4>1. PICK h \in 1 .. lq : j = lp + h /\ pq[j] = q[h]
        BY <1>a, <3>4
      <4>2. h < i
        BY <3>1, <4>1
      <4>3. FrameOf(pq[j]) = n + 1 /\ PlaceOf(pq[j]) < PlaceOf(pq[k])
        BY <1>7, <1>8, <3>1, <4>1, <4>2
      <4> QED
        BY <3>2, <4>3 DEF Before, FrameOf, PlaceOf
    <3> QED
      BY <3>3, <3>4
  <2> QED
    BY <2>1, <2>2
<1>c. EndsMarked(pq)
  <2> SUFFICES ASSUME NEW j \in 1 .. Len(pq), SliceEnd(pq[j])
               PROVE  \E m \in j .. Len(pq) : SliceEnd(pq[m]) /\ pq[m].marker /\ FrameOf(pq[m]) = FrameOf(pq[j])
    BY DEF EndsMarked
  <2>1. CASE j \in 1 .. lp
    <3>1. PICK m \in j .. lp : SliceEnd(p[m]) /\ p[m].marker /\ FrameOf(p[m]) = FrameOf(p[j])
      BY <1>1, <1>3, <2>1 DEF SliceLog, EndsMarked
    <3>2. m \in 1 .. lp /\ m \in j .. Len(pq)
      BY <1>3, <2>1
    <3> QED
      BY <1>3, <2>1, <3>1, <3>2
  <2>2. CASE j \notin 1 .. lp
    <3>1. PICK i \in 1 .. lq : j = lp + i /\ pq[j] = q[i]
      BY <1>a, <2>2
    <3>2. lq \in 1 .. lq /\ SliceEnd(q[lq]) /\ FrameOf(q[i]) = n + 1 /\ FrameOf(q[lq]) = n + 1
      BY <1>8, <3>1
    <3>3. q[lq].marker
      BY <1>1, <3>2
    <3>4. lp + lq \in j .. Len(pq) /\ pq[lp + lq] = q[lq]
      BY <1>3, <3>1, <3>2
    <3> QED
      BY <3>1, <3>2, <3>3, <3>4
  <2> QED
    BY <2>1, <2>2
<1>d. MarksEnd(pq)
  <2> SUFFICES ASSUME NEW m \in 1 .. Len(pq), pq[m].marker, pq[m].units[1].kind \notin V!PS,
                      NEW j \in 1 .. m, NEW k \in m + 1 .. Len(pq), SliceEnd(pq[j]), SliceEnd(pq[k])
               PROVE  FrameOf(pq[j]) < FrameOf(pq[k])
    BY DEF MarksEnd
  <2>0. j \in 1 .. Len(pq) /\ k \in 1 .. Len(pq) /\ m < k /\ j <= m
    BY <1>3
  <2>1. CASE k \in 1 .. lp
    <3>1. j \in 1 .. lp /\ m \in 1 .. lp /\ k \in m + 1 .. lp
      BY <2>0, <2>1
    <3>2. pq[j] = p[j] /\ pq[k] = p[k] /\ pq[m] = p[m]
      BY <1>3, <2>1, <3>1
    <3> QED
      BY <1>1, <3>1, <3>2 DEF SliceLog, MarksEnd
  <2>2. CASE k \notin 1 .. lp
    <3>1. PICK i \in 1 .. lq : k = lp + i /\ pq[k] = q[i]
      BY <1>a, <2>0, <2>2
    <3>2. FrameOf(pq[k]) = n + 1
      BY <1>8, <3>1
    <3>3. CASE j \in 1 .. lp
      <4>1. FrameOf(pq[j]) \in 1 .. n
        BY <1>3, <1>9, <3>3
      <4> QED
        BY <3>2, <4>1
    <3>4. CASE j \notin 1 .. lp
      <4>1. m \notin 1 .. lp
        BY <2>0, <3>4
      <4>2. PICK h \in 1 .. lq : m = lp + h /\ pq[m] = q[h]
        BY <1>a, <4>1
      <4>3. h < i
        BY <2>0, <3>1, <4>2
      <4>4. h # lq
        BY <4>3
      <4>5. q[h].units[1].kind \in V!PS
        BY <1>1, <4>2, <4>4
      <4> QED
        BY <4>2, <4>5
    <3> QED
      BY <3>3, <3>4
  <2> QED
    BY <2>1, <2>2
<1>e. ASSUME NEW j \in 1 .. Len(pq), SliceEnd(pq[j])
      PROVE  FrameOf(pq[j]) \in 1 .. Len(gg) /\ PlaceOf(pq[j]) \in V!Slices(gg[FrameOf(pq[j])])
  <2>1. CASE j \in 1 .. lp
    <3>1. FrameOf(pq[j]) \in 1 .. n /\ PlaceOf(pq[j]) \in V!Slices(ff[FrameOf(pq[j])])
      BY <1>3, <1>9, <1>e, <2>1
    <3> QED
      BY <1>5, <3>1
  <2>2. CASE j \notin 1 .. lp
    <3>1. PICK i \in 1 .. lq : j = lp + i /\ pq[j] = q[i]
      BY <1>a, <2>2
    <3> QED
      BY <1>5, <1>8, <1>e, <3>1
  <2> QED
    BY <2>1, <2>2
<1>f. ASSUME NEW f \in 1 .. Len(gg), NEW z \in V!Slices(gg[f])
      PROVE  \E j \in 1 .. Len(pq) : SliceEnd(pq[j]) /\ FrameOf(pq[j]) = f /\ PlaceOf(pq[j]) = z
  <2>1. CASE f \in 1 .. n
    <3>1. PICK j \in 1 .. lp : SliceEnd(p[j]) /\ FrameOf(p[j]) = f /\ PlaceOf(p[j]) = z
      BY <1>1, <1>5, <2>1 DEF SliceLog, EndsOf
    <3> QED
      BY <1>3, <3>1
  <2>2. CASE f = n + 1
    <3>1. z \in 1 .. lu /\ units[z].kind \in V!Slice
      BY <1>1, <1>5, <2>2 DEF V!Slices
    <3>2. PICK j \in 1 .. lq : SliceEnd(q[j]) /\ q[j].units[1] = units[z]
      BY <1>7, <3>1
    <3>3. FrameOf(q[j]) = f /\ PlaceOf(q[j]) = z
      BY <1>6, <2>2, <3>1, <3>2 DEF FrameOf, PlaceOf
    <3>4. lp + j \in 1 .. Len(pq) /\ pq[lp + j] = q[j]
      BY <1>3
    <3> QED
      BY <3>2, <3>3, <3>4
  <2> QED
    BY <1>5, <2>1, <2>2
<1>g. EndsOf(gg, pq)
  BY <1>e, <1>f DEF EndsOf
<1> QED
  BY <1>2, <1>4, <1>b, <1>c, <1>d, <1>g DEF SliceLog

(* What RTPDepay collects: units, made of pieces. *)
PieceOf == (Nat \X Nat) \X Nat \X Nat
Collectable == [kind : Kind \cup {"ap"}, pieces : Seq(PieceOf)]

(* The pieces of a unit up to the one in p. *)
Pieces(p) == [i \in 1 .. p.k |-> <<p.units[1].id, i, p.n>>]

LEMMA PiecesFacts ==
  ASSUME NEW p, PacketOK(p)
  PROVE  /\ p.units[1] \in NalUnit /\ p.k \in Nat \ {0} /\ p.n \in Nat /\ p.k <= p.n
         /\ V!Piece(p) \in PieceOf /\ Pieces(p) \in Seq(PieceOf) /\ Len(Pieces(p)) = p.k
         /\ \A i \in 1 .. p.k : Pieces(p)[i] = <<p.units[1].id, i, p.n>>
         /\ p.k = 1 => Pieces(p) = <<V!Piece(p)>>
<1>1. p.units \in Seq(NalUnit) /\ p.units # <<>> /\ p.k \in Nat /\ p.n \in Nat /\ p.k \in 1 .. p.n
  BY DEF PacketOK, RtpPacket
<1>2. PICK u \in NalUnit : u = p.units[1]
  <2>1. Len(p.units) \in Nat \ {0}
    BY <1>1, EmptySeq
  <2>2. 1 \in 1 .. Len(p.units)
    BY <2>1
  <2> QED
    BY <1>1, <2>2, ElementOfSeq
<1>3. PICK k \in Nat \ {0}, n \in Nat : k = p.k /\ n = p.n /\ k <= n
  BY <1>1
<1>4. PICK d \in Nat \X Nat : d = u.id
  BY DEF NalUnit
<1>5. PICK e : e = [i \in 1 .. k |-> <<d, i, n>>]
  OBVIOUS
<1>6. Pieces(p) = e
  BY <1>2, <1>3, <1>4, <1>5 DEF Pieces
<1>7. \A i \in 1 .. k : <<d, i, n>> \in PieceOf
  BY <1>3, <1>4 DEF PieceOf
<1>8. e \in Seq(PieceOf) /\ Len(e) = k /\ \A i \in 1 .. k : e[i] = <<d, i, n>>
  BY <1>5, <1>7
<1>9. V!Piece(p) = <<d, k, n>>
  BY <1>2, <1>3, <1>4 DEF V!Piece
<1>a. ASSUME k = 1 PROVE e = <<V!Piece(p)>>
  BY <1>5, <1>9, <1>a
<1>b. <<d, k, n>> \in PieceOf
  BY <1>3, <1>4 DEF PieceOf
<1> QED
  BY <1>2, <1>3, <1>4, <1>6, <1>8, <1>9, <1>a, <1>b

(* One piece more. *)
LEMMA PiecesMore ==
  ASSUME NEW p, NEW q, PacketOK(p), PacketOK(q), Continues(p, q)
  PROVE  Append(Pieces(p), V!Piece(q)) = Pieces(q)
<1>0. PICK k \in Nat \ {0} : k = p.k
  BY PiecesFacts
<1>1. PICK e, f : e = Pieces(p) /\ f = Pieces(q) /\ k = p.k
  BY <1>0
<1>2. PICK x : x = V!Piece(q)
  OBVIOUS
<1>3. /\ e \in Seq(PieceOf) /\ Len(e) = k /\ f \in Seq(PieceOf) /\ Len(f) = k + 1 /\ x \in PieceOf
      /\ \A i \in 1 .. k : e[i] = <<p.units[1].id, i, p.n>>
      /\ \A i \in 1 .. k + 1 : f[i] = <<q.units[1].id, i, q.n>>
      /\ q.units = p.units /\ q.n = p.n /\ q.k = k + 1
  BY <1>1, <1>2, PiecesFacts DEF Continues
<1>4. x = f[k + 1]
  <2>1. k + 1 \in 1 .. k + 1
    OBVIOUS
  <2> QED
    BY <1>2, <1>3, <2>1 DEF V!Piece
<1>5. PICK g : g = Append(e, x)
  OBVIOUS
<1>6. g \in Seq(PieceOf) /\ Len(g) = k + 1 /\ g[k + 1] = x /\ \A i \in 1 .. k : g[i] = e[i]
  BY <1>3, <1>5, AppendProperties
<1>7. ASSUME NEW i \in 1 .. k + 1 PROVE g[i] = f[i]
  <2>1. CASE i = k + 1
    BY <1>4, <1>6, <2>1
  <2>2. CASE i # k + 1
    <3>1. i \in 1 .. k
      BY <2>2
    <3> QED
      BY <1>3, <1>6, <3>1
  <2> QED
    BY <2>1, <2>2
<1>8. g = f
  BY <1>3, <1>6, <1>7, SeqEqual
<1> QED
  BY <1>1, <1>2, <1>5, <1>8

(* With the last piece a unit is whole. *)
LEMMA PiecesWhole ==
  ASSUME NEW p, PacketOK(p), ~ Begun(p), NEW x, x.pieces = Pieces(p)
  PROVE  V!Whole(x) /\ V!Name(x) = p.units[1].id
<1>0. PICK k \in Nat \ {0} : k = p.k
  BY PiecesFacts
<1>1. PICK e : e = Pieces(p) /\ k = p.k
  BY <1>0
<1>2. Len(e) = k /\ \A i \in 1 .. k : e[i] = <<p.units[1].id, i, p.n>>
  BY <1>1, PiecesFacts
<1>3. p.n = k
  BY <1>1, PiecesFacts DEF PacketOK, Begun
<1>4. 1 \in 1 .. k
  OBVIOUS
<1>5. e[1][1] = p.units[1].id /\ \A i \in 1 .. k : e[i] = <<e[1][1], i, k>>
  BY <1>2, <1>3, <1>4
<1> QED
  BY <1>1, <1>2, <1>5 DEF V!Whole, V!Name

(* Units that are whole, but that the last one may end with the pieces up  *)
(* to the one in p.                                                        *)
Gathers(b, p) ==
  /\ b \in Seq(Collectable) /\ b # <<>>
  /\ \A i \in 1 .. Len(b) : i < Len(b) => V!Whole(b[i])
  /\ b[Len(b)].pieces = Pieces(p)

LEMMA GathersAppend ==
  ASSUME NEW p, NEW b \in Seq(Collectable), \A i \in 1 .. Len(b) : V!Whole(b[i]),
         NEW x \in Collectable, x.pieces = Pieces(p)
  PROVE  Gathers(Append(b, x), p)
<1>1. PICK n \in Nat : n = Len(b)
  BY LenProperties
<1>2. PICK c : c = Append(b, x)
  OBVIOUS
<1>3. /\ c \in Seq(Collectable) /\ c # <<>> /\ Len(c) = n + 1 /\ c[n + 1] = x
      /\ \A i \in 1 .. n : c[i] = b[i]
  BY <1>1, <1>2, AppendProperties
<1>4. \A i \in 1 .. n + 1 : i < n + 1 => i \in 1 .. n
  OBVIOUS
<1>5. \A i \in 1 .. n + 1 : i < n + 1 => V!Whole(c[i])
  BY <1>1, <1>3, <1>4
<1> QED
  BY <1>2, <1>3, <1>5 DEF Gathers

LEMMA GathersWhole ==
  ASSUME NEW p, PacketOK(p), NEW b, Gathers(b, p), ~ Begun(p)
  PROVE  \A i \in 1 .. Len(b) : V!Whole(b[i])
<1>1. PICK n \in Nat : n = Len(b)
  BY LenProperties DEF Gathers
<1>2. V!Whole(b[n])
  BY <1>1, PiecesWhole DEF Gathers
<1>3. \A i \in 1 .. n : i = n \/ i < n
  OBVIOUS
<1> QED
  BY <1>1, <1>2, <1>3 DEF Gathers

LEMMA GathersMore ==
  ASSUME NEW p, NEW q, PacketOK(p), PacketOK(q), Continues(p, q), NEW b, Gathers(b, p)
  PROVE  Gathers(Append(V!Front(b), [V!Last(b) EXCEPT !.pieces = Append(@, V!Piece(q))]), q)
<1>0. PICK n \in Nat \ {0} : n = Len(b) /\ b \in Seq(Collectable)
  BY EmptySeq DEF Gathers
<1>1. PICK x \in Collectable : x = b[n]
  BY <1>0, ElementOfSeq
<1>2. PICK y : y = [x EXCEPT !.pieces = Append(@, V!Piece(q))]
  OBVIOUS
<1>3. x.pieces = Pieces(p)
  BY <1>0, <1>1 DEF Gathers
<1>4. Append(x.pieces, V!Piece(q)) = Pieces(q)
  BY <1>3, PiecesMore
<1>5. y.pieces = Pieces(q) /\ y \in Collectable
  <2>1. Pieces(q) \in Seq(PieceOf)
    BY PiecesFacts
  <2>2. y = [x EXCEPT !.pieces = Pieces(q)]
    BY <1>2, <1>4
  <2> QED
    BY <2>1, <2>2 DEF Collectable
<1>6. PICK f : f = V!Front(b)
  OBVIOUS
<1>7. f = SubSeq(b, 1, n - 1)
  BY <1>0, <1>6 DEF V!Front
<1>8. f \in Seq(Collectable) /\ Len(f) = n - 1 /\ \A i \in 1 .. n - 1 : f[i] = b[i]
  <2>1. \A i \in 1 .. n - 1 : b[i] \in Collectable
    BY <1>0, ElementOfSeq
  <2>2. /\ SubSeq(b, 1, n - 1) \in Seq(Collectable)
        /\ Len(SubSeq(b, 1, n - 1)) = IF 1 <= n - 1 THEN n - 1 - 1 + 1 ELSE 0
        /\ \A i \in 1 .. n - 1 - 1 + 1 : SubSeq(b, 1, n - 1)[i] = b[1 + i - 1]
    BY <2>1, SubSeqProperties
  <2>3. \A i \in 1 .. n - 1 : i \in 1 .. n - 1 - 1 + 1 /\ 1 + i - 1 = i
    OBVIOUS
  <2>4. (IF 1 <= n - 1 THEN n - 1 - 1 + 1 ELSE 0) = n - 1
    OBVIOUS
  <2> QED
    BY <1>7, <2>2, <2>3, <2>4
<1>9. \A i \in 1 .. Len(f) : V!Whole(f[i])
  <2>1. \A i \in 1 .. n - 1 : i \in 1 .. n /\ i < n
    OBVIOUS
  <2> QED
    BY <1>0, <1>8, <2>1 DEF Gathers
<1>a. Gathers(Append(f, y), q)
  BY <1>5, <1>8, <1>9, GathersAppend
<1>b. V!Last(b) = x
  BY <1>0, <1>1 DEF V!Last
<1> QED
  BY <1>2, <1>6, <1>a, <1>b

(* The parameter sets of the SDP. *)
LEMMA PsFacts == V!ps \in Seq(Collectable) /\ Len(V!ps) = 1 /\ V!ps[1].kind = "sps" /\ V!Whole(V!ps[1])
<1>1. PICK e : e = <<<<<<0, 0>>, 1, 1>>>>
  OBVIOUS
<1>2. <<<<0, 0>>, 1, 1>> \in PieceOf
  BY DEF PieceOf
<1>3. e \in Seq(PieceOf) /\ Len(e) = 1 /\ e[1] = <<<<0, 0>>, 1, 1>>
  BY <1>1, <1>2
<1>4. PICK x : x = [kind |-> "sps", pieces |-> e]
  OBVIOUS
<1>5. x \in Collectable
  BY <1>3, <1>4 DEF Collectable, Kind
<1>6. V!Whole(x)
  <2>1. \A k \in 1 .. 1 : k = 1
    OBVIOUS
  <2>2. x.pieces = e /\ e[1] = <<e[1][1], 1, 1>>
    BY <1>3, <1>4
  <2> QED
    BY <1>3, <2>1, <2>2 DEF V!Whole
<1>7. V!ps = <<x>>
  BY <1>1, <1>4 DEF V!ps
<1>8. <<x>> \in Seq(Collectable) /\ Len(<<x>>) = 1 /\ <<x>>[1] = x
  BY <1>5
<1> QED
  BY <1>4, <1>6, <1>7, <1>8

(* What there is with one packet more. *)
LEMMA CollectedFacts ==
  ASSUME NEW p, PacketOK(p), buf \in Seq(Collectable),
         \/ buf = <<>>
         \/ \E q : /\ PacketOK(q) /\ Gathers(buf, q)
                   /\ Begun(q) => Continues(q, p)
                   /\ p.k > 1 => Continues(q, p)
  PROVE  \/ buf = <<>> /\ V!Collected(p) = <<>>
         \/ Gathers(V!Collected(p), p)
<1>1. /\ p.units[1] \in NalUnit /\ p.k \in Nat \ {0} /\ V!Piece(p) \in PieceOf
      /\ Pieces(p) \in Seq(PieceOf) /\ (p.k = 1 => Pieces(p) = <<V!Piece(p)>>)
  BY PiecesFacts
<1>2. PICK new : new = [kind |-> p.units[1].kind, pieces |-> <<V!Piece(p)>>]
  OBVIOUS
<1>3. PICK ap : ap = [kind |-> "ap", pieces |-> <<V!Piece(p)>>]
  OBVIOUS
<1>4. PICK b : b = IF buf = <<>> /\ p.units[1].kind = "key" THEN V!ps ELSE buf
  OBVIOUS
<1>5. ASSUME p.k = 1
      PROVE  \A x \in {buf, b} : x \in Seq(Collectable) /\ \A i \in 1 .. Len(x) : V!Whole(x[i])
  <2>1. \A i \in 1 .. Len(buf) : V!Whole(buf[i])
    <3>1. CASE buf = <<>>
      <4>1. 1 .. Len(buf) = {}
        BY <3>1, EmptySeq
      <4> QED
        BY <4>1
    <3>2. CASE buf # <<>>
      <4>1. PICK q : PacketOK(q) /\ Gathers(buf, q) /\ (Begun(q) => Continues(q, p))
        BY <3>2
      <4>2. q.k \in Nat \ {0}
        BY <4>1, PiecesFacts
      <4>3. ~ Begun(q)
        BY <1>5, <4>1, <4>2 DEF Continues
      <4> QED
        BY <4>1, <4>3, GathersWhole
    <3> QED
      BY <3>1, <3>2
  <2>2. V!ps \in Seq(Collectable) /\ \A i \in 1 .. Len(V!ps) : V!Whole(V!ps[i])
    <3>1. \A i \in 1 .. 1 : i = 1
      OBVIOUS
    <3> QED
      BY <3>1, PsFacts
  <2> QED
    BY <1>4, <2>1, <2>2
<1>6. ASSUME p.k = 1
      PROVE  new \in Collectable /\ ap \in Collectable /\ new.pieces = Pieces(p) /\ ap.pieces = Pieces(p)
  BY <1>1, <1>2, <1>3, <1>6 DEF Collectable, NalUnit
<1>7. CASE p.k = 1
  <2>1. Gathers(Append(buf, new), p) /\ Gathers(Append(buf, ap), p) /\ Gathers(Append(b, new), p)
    BY <1>5, <1>6, <1>7, GathersAppend
  <2>2. V!Collected(p) \in {Append(buf, new), Append(buf, ap), Append(b, new)}
    BY <1>2, <1>3, <1>4, <1>7 DEF V!Collected
  <2> QED
    BY <2>1, <2>2
<1>8. CASE p.k # 1
  <2>1. p.type = "fu" /\ p.n # 1 /\ p.k > 1
    BY <1>1, <1>8 DEF PacketOK
  <2>2. V!Collected(p) =
          IF buf = <<>> THEN <<>>
          ELSE Append(V!Front(buf), [V!Last(buf) EXCEPT !.pieces = Append(@, V!Piece(p))])
    BY <1>8, <2>1 DEF V!Collected
  <2>3. CASE buf = <<>>
    BY <2>2, <2>3
  <2>4. CASE buf # <<>>
    <3>1. PICK q : PacketOK(q) /\ Gathers(buf, q) /\ Continues(q, p)
      BY <2>1, <2>4
    <3> QED
      BY <2>2, <2>4, <3>1, GathersMore
  <2> QED
    BY <2>3, <2>4
<1> QED
  BY <1>7, <1>8

AllWhole(o) ==
  /\ o \in Seq(Seq(Collectable))
  /\ \A i \in 1 .. Len(o) : \A j \in 1 .. Len(o[i]) : V!Whole(o[i][j])

LEMMA HandedMore ==
  ASSUME NEW o, AllWhole(o), NEW c \in Seq(Collectable), \A j \in 1 .. Len(c) : V!Whole(c[j])
  PROVE  /\ AllWhole(Append(o, c)) /\ Len(o) \in Nat /\ Len(Append(o, c)) = Len(o) + 1
         /\ Append(o, c)[Len(o) + 1] = c /\ \A i \in 1 .. Len(o) : Append(o, c)[i] = o[i]
         /\ \A i \in 1 .. Len(o) + 1 : i \in 1 .. Len(o) \/ i = Len(o) + 1
<1>1. PICK n \in Nat : n = Len(o)
  BY LenProperties DEF AllWhole
<1>2. PICK q : q = Append(o, c)
  OBVIOUS
<1>3. /\ q \in Seq(Seq(Collectable)) /\ Len(q) = n + 1 /\ q[n + 1] = c
      /\ \A i \in 1 .. n : q[i] = o[i]
  BY <1>1, <1>2, AppendProperties DEF AllWhole
<1>4. \A i \in 1 .. n + 1 : i \in 1 .. n \/ i = n + 1
  OBVIOUS
<1>5. AllWhole(q)
  BY <1>1, <1>3, <1>4 DEF AllWhole
<1> QED
  BY <1>1, <1>2, <1>3, <1>4, <1>5

(* H.265: all packets that were sent have their numbers, and are fewer     *)
(* than there are numbers.                                                 *)
NumbersOf(pp) ==
  /\ number = SeqOf(Len(pp)) /\ Len(pp) <= Len(sent) * (MaxUnits * MaxLen)
  /\ \A j \in 1 .. Len(pp) : pp[j].seq = SeqOf(j)

(* What is on its way is some of them, in any order. *)
SomeOf(w, pp) ==
  /\ w \in Seq(RtpPacket)
  /\ \A i \in 1 .. Len(w) : \E j \in 1 .. Len(pp) : w[i] = pp[j]

(* What is collected ends with the packet of the last number. *)
GatheredOf(pp) ==
  /\ AllWhole(out) /\ buf \in Seq(Collectable) /\ seqNum \in Nat
  /\ buf # <<>> => \E j \in 1 .. Len(pp) : seqNum = pp[j].seq /\ Gathers(buf, pp[j])

SentOK == sent \in Seq(Seq(NalUnit)) /\ Len(sent) <= MaxFrames
H265OK(pp) == Chain(pp) /\ NumbersOf(pp) /\ SomeOf(wire, pp) /\ GatheredOf(pp)

LEMMA Scaled ==
  ASSUME NEW a \in Nat, NEW b \in Nat, a <= b, NEW c \in Nat
  PROVE  a * c <= b * c /\ a * c \in Nat /\ b * c \in Nat
<1>1. PICK d \in Nat : b = a + d
  <2>1. b - a \in Nat /\ b = a + (b - a)
    OBVIOUS
  <2> QED
    BY <2>1
<1>2. b * c = a * c + d * c /\ d * c \in Nat /\ a * c \in Nat
  BY <1>1
<1> QED
  BY <1>2

(* There are fewer packets than numbers. *)
LEMMA FewPackets ==
  ASSUME NEW a \in Nat, a <= MaxFrames, NEW n \in Nat, n <= a * (MaxUnits * MaxLen)
  PROVE  n < Numbers
<1>1. PICK b \in Nat, c \in Nat : b = MaxFrames /\ c = MaxUnits * MaxLen
  <2>1. MaxFrames \in Nat /\ MaxUnits \in Nat /\ MaxLen \in Nat
    BY VideoAssumption
  <2> QED
    BY <2>1
<1>2. a <= b /\ n <= a * c /\ b * c < Numbers /\ Numbers \in Nat
  BY <1>1, VideoAssumption
<1>3. a * c <= b * c /\ a * c \in Nat /\ b * c \in Nat
  BY <1>2, Scaled
<1> QED
  BY <1>2, <1>3

(* The number behind that of a packet is that of the next one only. *)
LEMMA NextNumber ==
  ASSUME NEW i \in Nat \ {0}, NEW j \in Nat \ {0}, i < Numbers, j < Numbers,
         (SeqOf(j) + Numbers - SeqOf(i)) % Numbers = 1
  PROVE  j = i + 1
<1>1. PICK y \in Nat \ {0} : y = Numbers /\ y > 1
  BY VideoAssumption
<1>2. PICK a \in Nat, b \in Nat :
        /\ a = SeqOf(i) /\ b = SeqOf(j)
        /\ a = IF i = 1 THEN y - 1 ELSE i - 2
        /\ b = IF j = 1 THEN y - 1 ELSE j - 2
  <2>1. (IF i = 1 THEN y - 1 ELSE i - 2) \in Nat /\ (IF j = 1 THEN y - 1 ELSE j - 2) \in Nat
    BY <1>1
  <2>2. /\ SeqOf(i) = IF i = 1 THEN y - 1 ELSE i - 2
        /\ SeqOf(j) = IF j = 1 THEN y - 1 ELSE j - 2
    BY <1>1 DEF SeqOf
  <2> QED
    BY <2>1, <2>2
<1>3. a < y /\ b < y
  BY <1>1, <1>2
<1>4. PICK x \in Nat : x = b + y - a /\ x > 0
  <2>1. b + y - a \in Nat /\ b + y - a > 0
    BY <1>3
  <2> QED
    BY <2>1
<1>5. x % y = 1
  BY <1>1, <1>2, <1>4
<1>6. CASE x < y
  <2>1. x = 1
    BY <1>5, <1>6, ModSmall
  <2>2. b = 0 /\ a = y - 1
    BY <1>3, <1>4, <2>1
  <2> QED
    BY <1>1, <1>2, <2>2
<1>7. CASE y <= x
  <2>1. x < y + y
    BY <1>3, <1>4
  <2>2. x - y = 1
    BY <1>5, <1>7, <2>1, ModWrap
  <2>3. b = a + 1
    BY <1>4, <2>2
  <2> QED
    BY <1>1, <1>2, <2>3
<1> QED
  BY <1>6, <1>7

LEMMA ReceiveH265 ==
  ASSUME NEW pp, SentOK, H265OK(pp), codec = "H265", V!Receive
  PROVE  H265OK(pp)'
<1>1. PICK n \in Nat : n = Len(pp) /\ pp \in Seq(RtpPacket)
  BY LenProperties DEF H265OK, Chain
<1>2. PICK m \in Nat \ {0} : m = Len(wire) /\ wire \in Seq(RtpPacket) /\ wire # <<>>
  BY EmptySeq DEF H265OK, SomeOf, V!Receive
<1>3. PICK p : p = Head(wire)
  OBVIOUS
<1>4. PICK j \in 1 .. n : p = pp[j]
  <2>1. p = wire[1] /\ 1 \in 1 .. m
    BY <1>2, <1>3
  <2> QED
    BY <1>1, <1>2, <2>1 DEF H265OK, SomeOf
<1>5. /\ PacketOK(p) /\ p.seq = SeqOf(j) /\ p.seq \in Nat
      /\ p.k > 1 => j - 1 \in 1 .. n /\ Continues(pp[j - 1], p)
  BY <1>1, <1>4 DEF H265OK, Chain, NumbersOf, PacketOK, RtpPacket
<1>6. SomeOf(wire', pp)
  <2>1. /\ wire' \in Seq(RtpPacket) /\ Len(wire') = m - 1
        /\ \A i \in 1 .. m - 1 : wire'[i] = wire[i + 1] /\ i + 1 \in 1 .. m
    BY <1>2, HeadTailProperties DEF V!Receive
  <2>2. \A i \in 1 .. m : \E h \in 1 .. Len(pp) : wire[i] = pp[h]
    BY <1>2 DEF H265OK, SomeOf
  <2> QED
    BY <2>1, <2>2 DEF SomeOf
<1>7. V!DepayH265(p) /\ UNCHANGED <<codec, sent, number>>
  BY <1>3 DEF V!Receive
<1>8. AllWhole(out) /\ buf \in Seq(Collectable) /\ seqNum \in Nat
  BY DEF H265OK, GatheredOf
<1>9. GatheredOf(pp)'
  <2>1. CASE UNCHANGED <<seqNum, buf, out>>
    BY <2>1 DEF H265OK, GatheredOf
  <2>2. CASE buf' = <<>> /\ UNCHANGED <<seqNum, out>>
    BY <1>8, <2>2, EmptySeq DEF GatheredOf
  <2>3. CASE /\ ~ V!Broken(p) /\ seqNum' = p.seq
             /\ \/ /\ p.type # "fu" \/ p.k = p.n
                   /\ ~ (buf = <<>> /\ V!Collected(p) = <<>>)
                   /\ buf' = <<>> /\ V!HandOn(V!Collected(p))
                \/ buf' = V!Collected(p) /\ UNCHANGED out
    <3>1. \/ buf = <<>>
          \/ \E q : /\ PacketOK(q) /\ Gathers(buf, q)
                    /\ Begun(q) => Continues(q, p)
                    /\ p.k > 1 => Continues(q, p)
      <4> SUFFICES ASSUME buf # <<>>
                   PROVE  \E q : /\ PacketOK(q) /\ Gathers(buf, q)
                                 /\ Begun(q) => Continues(q, p)
                                 /\ p.k > 1 => Continues(q, p)
        OBVIOUS
      <4>1. PICK i \in 1 .. n : seqNum = pp[i].seq /\ Gathers(buf, pp[i])
        BY <1>1 DEF H265OK, GatheredOf
      <4>2. seqNum = SeqOf(i)
        BY <1>1, <4>1 DEF H265OK, NumbersOf
      <4>3. (SeqOf(j) + Numbers - SeqOf(i)) % Numbers = 1
        BY <1>5, <2>3, <4>2 DEF V!Broken
      <4>4. i \in Nat \ {0} /\ j \in Nat \ {0} /\ i < Numbers /\ j < Numbers
        <5>1. Len(sent) \in Nat /\ Len(sent) <= MaxFrames /\ n <= Len(sent) * (MaxUnits * MaxLen)
          BY <1>1, LenProperties DEF SentOK, H265OK, NumbersOf
        <5>2. n < Numbers /\ Numbers \in Nat
          BY <5>1, FewPackets, VideoAssumption
        <5> QED
          BY <5>2
      <4>5. j = i + 1
        BY <4>3, <4>4, NextNumber
      <4>6. PacketOK(pp[i]) /\ (Begun(pp[i]) => Continues(pp[i], pp[i + 1]))
        BY <1>1 DEF H265OK, Chain
      <4>7. j - 1 = i
        BY <4>5
      <4> QED
        BY <1>4, <1>5, <4>1, <4>5, <4>6, <4>7
    <3>2. \/ buf = <<>> /\ V!Collected(p) = <<>>
          \/ Gathers(V!Collected(p), p)
      BY <1>5, <1>8, <3>1, CollectedFacts
    <3>3. CASE buf' = V!Collected(p) /\ UNCHANGED out
      <4>1. buf' \in Seq(Collectable) /\ (buf' # <<>> => Gathers(buf', p))
        BY <3>2, <3>3, EmptySeq DEF Gathers
      <4> QED
        BY <1>1, <1>4, <1>5, <1>8, <2>3, <3>3, <4>1 DEF GatheredOf
    <3>4. CASE /\ p.type # "fu" \/ p.k = p.n
               /\ ~ (buf = <<>> /\ V!Collected(p) = <<>>)
               /\ buf' = <<>> /\ V!HandOn(V!Collected(p))
      <4>1. PICK c : c = V!Collected(p)
        OBVIOUS
      <4>2. Gathers(c, p)
        BY <3>2, <3>4, <4>1
      <4>3. ~ Begun(p)
        BY <1>5, <3>4, PiecesFacts DEF Begun
      <4>4. c \in Seq(Collectable) /\ \A i \in 1 .. Len(c) : V!Whole(c[i])
        BY <1>5, <4>2, <4>3, GathersWhole DEF Gathers
      <4>5. out' = Append(out, c)
        BY <3>4, <4>1 DEF V!HandOn
      <4>6. AllWhole(out')
        BY <1>8, <4>4, <4>5, HandedMore
      <4>7. buf' \in Seq(Collectable)
        BY <3>4, EmptySeq
      <4> QED
        BY <1>5, <2>3, <3>4, <4>6, <4>7 DEF GatheredOf
    <3> QED
      BY <2>3, <3>3, <3>4
  <2> QED
    BY <1>7, <2>1, <2>2, <2>3 DEF V!DepayH265
<1>a. NumbersOf(pp)'
  BY <1>7 DEF H265OK, NumbersOf
<1>b. Chain(pp)'
  BY <1>7 DEF H265OK, Chain, PacketOK, Continues, Begun
<1> QED
  BY <1>6, <1>9, <1>a, <1>b DEF H265OK

(* The parameter sets that wait for a slice. *)
HeldOK ==
  /\ stapANalu \in Seq(NalUnit)
  /\ \A j \in 1 .. Len(stapANalu) : stapANalu[j].kind \in V!PS
  /\ camera \/ codec = "H265" => stapANalu = <<>>

CodecOK == codec \in {"H264", "H265"} /\ camera \in BOOLEAN /\ faults \in Nat /\ number \in Nat

(* A frame more, and the packets for it. *)
Sends(units, paid) ==
  /\ Named(units, Len(sent) + 1) /\ Len(units) \in 1 .. MaxUnits
  /\ codec = "H264" =>
       \A i \in 1 .. Len(units) : units[i].kind \in V!Slice => units[Len(units)].kind \in V!Slice
  /\ Len(sent) < MaxFrames /\ sent' = Append(sent, units)
  /\ PaidFor(paid, units) /\ stapANalu' = paid.held
  /\ wire' = wire \o V!Numbered(paid.packets)
  /\ number' = (number + Len(paid.packets)) % Numbers

LEMMA SendFacts ==
  ASSUME CodecOK, HeldOK, SentOK, V!Send
  PROVE  /\ \E units, paid : Sends(units, paid)
         /\ UNCHANGED <<codec, camera, faults, fuaBuffer, seqNum, buf, out>>
<1>1. PICK frame \in Frames :
        LET units == [i \in 1 .. Len(frame) |->
                        [id |-> <<Len(sent) + 1, i>>, kind |-> frame[i].kind, len |-> frame[i].len]]
            paid == V!Payload(units)
        IN  /\ V!Last(frame).kind = "sei" => codec = "H265"
            /\ sent' = Append(sent, units)
            /\ stapANalu' = paid.held
            /\ wire' = wire \o V!Numbered(paid.packets)
            /\ number' = (number + Len(paid.packets)) % Numbers
  BY DEF V!Send
<1>2. PICK f \in Nat : f = Len(sent) + 1 /\ Len(sent) < MaxFrames /\ Len(sent) \in Nat
  <2>1. Len(sent) \in Nat /\ Len(sent) < MaxFrames
    BY LenProperties DEF SentOK, V!Send
  <2> QED
    BY <2>1
<1>3. /\ frame \in Seq([kind : Kind, len : 1 .. MaxLen])
      /\ Len(frame) \in 1 .. MaxUnits
      /\ \A i \in 1 .. Len(frame) :
           frame[i].kind \in {"key", "slice"} => frame[Len(frame)].kind \in {"key", "slice", "sei"}
  BY VideoAssumption DEF Kind
<1>4. PICK n \in Nat : n = Len(frame) /\ n \in 1 .. MaxUnits /\ n > 0
  <2>1. MaxUnits \in Nat
    BY VideoAssumption
  <2> QED
    BY <1>3, <2>1
<1>5. PICK units : units = [i \in 1 .. n |-> [id |-> <<f, i>>, kind |-> frame[i].kind, len |-> frame[i].len]]
  OBVIOUS
<1>6. \A i \in 1 .. n : frame[i] \in [kind : Kind, len : 1 .. MaxLen]
  BY <1>3, <1>4, ElementOfSeq
<1>7. ASSUME NEW i \in 1 .. n
      PROVE  units[i] \in NalUnit /\ units[i].id = <<f, i>> /\ units[i].kind = frame[i].kind
  <2>1. <<f, i>> \in Nat \X Nat
    OBVIOUS
  <2> QED
    BY <1>5, <1>6, <2>1 DEF NalUnit
<1>8. units \in Seq(NalUnit) /\ Len(units) = n
  BY <1>5, <1>7
<1>9. Named(units, f)
  BY <1>7, <1>8 DEF Named
<1>a. PICK paid : paid = V!Payload(units)
  OBVIOUS
<1>b. PaidFor(paid, units)
  BY <1>9, <1>a, PayloadFacts DEF CodecOK, HeldOK
<1>c. ASSUME codec = "H264", NEW i \in 1 .. n, units[i].kind \in V!Slice
      PROVE  units[n].kind \in V!Slice
  <2>1. n \in 1 .. n
    BY <1>4
  <2>2. frame[n].kind \in {"key", "slice", "sei"}
    BY <1>3, <1>4, <1>7, <1>c DEF V!Slice
  <2>3. frame[n].kind # "sei"
    BY <1>1, <1>4, <1>c DEF V!Last
  <2> QED
    BY <1>7, <2>1, <2>2, <2>3 DEF V!Slice
<1>d. /\ sent' = Append(sent, units) /\ stapANalu' = paid.held
      /\ wire' = wire \o V!Numbered(paid.packets)
      /\ number' = (number + Len(paid.packets)) % Numbers
  BY <1>1, <1>2, <1>4, <1>5, <1>a
<1>e. Sends(units, paid)
  BY <1>2, <1>4, <1>8, <1>9, <1>b, <1>c, <1>d DEF Sends
<1>f. UNCHANGED <<codec, camera, faults, fuaBuffer, seqNum, buf, out>>
  BY DEF V!Send
<1> QED
  BY <1>e, <1>f

(* What is common to both codecs. *)
LEMMA SendKeeps ==
  ASSUME CodecOK, HeldOK, SentOK, UNCHANGED <<codec, camera, faults>>,
         NEW units, NEW paid, Sends(units, paid)
  PROVE  CodecOK' /\ HeldOK' /\ SentOK'
<1>1. paid.held \in Seq(NalUnit) /\ Len(paid.packets) \in Nat
  BY LenProperties DEF Sends, PaidFor, PayState
<1>2. number' \in Nat
  BY <1>1, VideoAssumption, SMTT(30) DEF Sends, CodecOK
<1>3. HeldOK'
  BY <1>1 DEF Sends, PaidFor, HeldOK
<1>4. SentOK'
  <2>1. PICK n \in Nat : n = Len(sent)
    BY LenProperties DEF SentOK
  <2>2. sent' \in Seq(Seq(NalUnit)) /\ Len(sent') = n + 1
    BY <2>1, AppendProperties DEF SentOK, Sends, Named
  <2> QED
    BY <2>1, <2>2, VideoAssumption DEF SentOK, Sends
<1> QED
  BY <1>2, <1>3, <1>4 DEF CodecOK

LEMMA SendH265 ==
  ASSUME CodecOK, SentOK, SentOK', codec = "H265", UNCHANGED <<codec, camera, seqNum, buf, out>>,
         NEW units, NEW paid, Sends(units, paid), NEW pp, H265OK(pp)
  PROVE  \E qq : H265OK(qq)'
<1>1. PICK new : new = V!Numbered(paid.packets)
  OBVIOUS
<1>2. PICK lp \in Nat, lq \in Nat : lp = Len(pp) /\ lq = Len(paid.packets)
  <2>1. Len(pp) \in Nat /\ Len(paid.packets) \in Nat
    BY LenProperties DEF H265OK, Chain, Sends, PaidFor
  <2> QED
    BY <2>1
<1>3. /\ Chain(new) /\ Len(new) = lq
      /\ \A j \in 1 .. lq : new[j].seq = (number + j) % Numbers
  BY <1>1, <1>2, NumberedFacts DEF Sends, PaidFor, CodecOK, SamePackets
<1>4. PICK qq : qq = pp \o new
  OBVIOUS
<1>5. Chain(pp) /\ pp \in Seq(RtpPacket) /\ new \in Seq(RtpPacket) /\ Chain(qq)
  BY <1>3, <1>4, ChainConcat DEF H265OK, Chain
<1>6. /\ Len(qq) = lp + lq
      /\ \A j \in 1 .. lp : j \in 1 .. Len(qq) /\ qq[j] = pp[j]
      /\ \A j \in 1 .. lq : lp + j \in 1 .. Len(qq) /\ qq[lp + j] = new[j]
      /\ \A j \in 1 .. Len(qq) : j \in 1 .. lp \/ (j - lp \in 1 .. lq /\ j = lp + (j - lp))
  <2>1. PICK a \in Nat, b \in Nat : a = Len(pp) /\ b = Len(new)
    BY <1>5, LenProperties
  <2>2. pp \in Seq(RtpPacket) /\ new \in Seq(RtpPacket)
    BY <1>5
  <2>3. /\ Len(qq) = a + b
        /\ \A j \in 1 .. a : j \in 1 .. Len(qq) /\ qq[j] = pp[j]
        /\ \A j \in 1 .. b : a + j \in 1 .. Len(qq) /\ qq[a + j] = new[j]
        /\ \A j \in 1 .. Len(qq) : j \in 1 .. a \/ (j - a \in 1 .. b /\ j = a + (j - a))
    BY ONLY <1>4, <2>1, <2>2, Joined
  <2> QED
    BY <1>2, <1>3, <2>1, <2>3
<1>7. PICK s \in Nat, c \in Nat : s = Len(sent) /\ c = MaxUnits * MaxLen /\ Len(sent') = s + 1
  <2>1. Len(sent) \in Nat /\ MaxUnits \in Nat /\ MaxLen \in Nat /\ MaxUnits * MaxLen \in Nat
    BY LenProperties, VideoAssumption DEF SentOK
  <2>2. Len(sent') = Len(sent) + 1
    BY AppendProperties DEF SentOK, Sends, Named
  <2> QED
    BY <2>1, <2>2
<1>8. lp + lq <= (s + 1) * c
  <2>1. lp <= s * c
    BY <1>2, <1>7 DEF H265OK, NumbersOf
  <2>2. PICK u \in Nat, v \in Nat, l \in Nat : u = Len(units) /\ v = MaxUnits /\ l = MaxLen /\ u <= v
    BY VideoAssumption DEF Sends
  <2>3. lq <= u * l
    BY <1>2, <2>2 DEF Sends, PaidFor
  <2>4. u * l <= c /\ u * l \in Nat
    BY <1>7, <2>2, Scaled
  <2>5. (s + 1) * c = s * c + c
    BY OneMore
  <2> QED
    BY <2>1, <2>3, <2>4, <2>5
<1>9. lp + lq < Numbers
  <2>1. s + 1 \in Nat /\ s + 1 <= MaxFrames /\ lp + lq \in Nat
    BY <1>7 DEF SentOK
  <2> QED
    BY <1>7, <1>8, <2>1, FewPackets
<1>a. number = SeqOf(lp)
  BY <1>2 DEF H265OK, NumbersOf
<1>b. \A j \in 0 .. lq : (number + j) % Numbers = SeqOf(lp + j)
  <2> SUFFICES ASSUME NEW j \in 0 .. lq PROVE (number + j) % Numbers = SeqOf(lp + j)
    OBVIOUS
  <2>1. j \in Nat /\ lp + j < Numbers
    BY <1>9, VideoAssumption
  <2> QED
    BY <1>a, <2>1, SeqAfter
<1>c. number' = SeqOf(lp + lq)
  <2>1. lq \in 0 .. lq
    OBVIOUS
  <2> QED
    BY <1>2, <1>b, <2>1 DEF Sends
<1>d. \A j \in 1 .. Len(qq) : qq[j].seq = SeqOf(j)
  <2> SUFFICES ASSUME NEW j \in 1 .. Len(qq) PROVE qq[j].seq = SeqOf(j)
    OBVIOUS
  <2>1. CASE j \in 1 .. lp
    BY <1>2, <1>6, <2>1 DEF H265OK, NumbersOf
  <2>2. CASE j - lp \in 1 .. lq /\ j = lp + (j - lp)
    <3>1. PICK i \in 1 .. lq : j = lp + i
      BY <2>2
    <3>2. i \in 0 .. lq
      OBVIOUS
    <3> QED
      BY <1>3, <1>6, <1>b, <3>1, <3>2
  <2> QED
    BY <1>6, <2>1, <2>2
<1>e. NumbersOf(qq)'
  BY <1>6, <1>7, <1>8, <1>c, <1>d DEF NumbersOf
<1>f. SomeOf(wire', qq)
  <2>1. PICK w : w = wire \o new
    OBVIOUS
  <2>2. wire \in Seq(RtpPacket)
    BY DEF H265OK, SomeOf
  <2>3. PICK lw \in Nat : lw = Len(wire)
    BY <2>2, LenProperties
  <2>4. /\ w \in Seq(RtpPacket)
        /\ \A j \in 1 .. lw : w[j] = wire[j]
        /\ \A j \in 1 .. lq : w[lw + j] = new[j]
        /\ \A j \in 1 .. Len(w) : j \in 1 .. lw \/ (j - lw \in 1 .. lq /\ j = lw + (j - lw))
    <3>1. PICK b \in Nat : b = Len(new)
      BY <1>5, LenProperties
    <3>2. new \in Seq(RtpPacket)
      BY <1>5
    <3>3. /\ w \in Seq(RtpPacket)
          /\ \A j \in 1 .. lw : w[j] = wire[j]
          /\ \A j \in 1 .. b : w[lw + j] = new[j]
          /\ \A j \in 1 .. Len(w) : j \in 1 .. lw \/ (j - lw \in 1 .. b /\ j = lw + (j - lw))
      BY ONLY <2>1, <2>2, <2>3, <3>1, <3>2, Joined
    <3> QED
      BY <1>3, <3>1, <3>3
  <2>5. ASSUME NEW i \in 1 .. Len(w) PROVE \E j \in 1 .. Len(qq) : w[i] = qq[j]
    <3>1. CASE i \in 1 .. lw
      <4>1. PICK j \in 1 .. lp : wire[i] = pp[j]
        BY <1>2, <2>3, <3>1 DEF H265OK, SomeOf
      <4> QED
        BY <1>6, <2>4, <3>1, <4>1
    <3>2. CASE i - lw \in 1 .. lq /\ i = lw + (i - lw)
      <4>1. PICK h \in 1 .. lq : i = lw + h
        BY <3>2
      <4> QED
        BY <1>6, <2>4, <4>1
    <3> QED
      BY <2>4, <3>1, <3>2
  <2>6. wire' = w
    BY <1>1, <2>1 DEF Sends
  <2> QED
    BY <2>4, <2>5, <2>6 DEF SomeOf
<1>g. GatheredOf(qq)'
  <2>1. /\ AllWhole(out) /\ buf \in Seq(Collectable) /\ seqNum \in Nat
        /\ buf # <<>> => \E j \in 1 .. lp : seqNum = pp[j].seq /\ Gathers(buf, pp[j])
    BY <1>2 DEF H265OK, GatheredOf
  <2>2. buf # <<>> => \E j \in 1 .. Len(qq) : seqNum = qq[j].seq /\ Gathers(buf, qq[j])
    BY <1>6, <2>1
  <2> QED
    BY <2>1, <2>2 DEF GatheredOf
<1>h. Chain(qq)'
  BY <1>5 DEF Chain, PacketOK, Continues, Begun
<1> QED
  BY <1>e, <1>f, <1>g, <1>h DEF H265OK

(* Losing or overtaking. *)
LEMMA FaultH265 ==
  ASSUME NEW pp, H265OK(pp), codec = "H265", V!Fault
  PROVE  H265OK(pp)'
<1>1. PICK n \in Nat : n = Len(wire) /\ wire \in Seq(RtpPacket)
  BY LenProperties DEF H265OK, SomeOf
<1>2. PICK i \in 1 .. n : \/ wire' = V!RemoveAt(wire, i)
                          \/ wire' = <<wire[i]>> \o V!RemoveAt(wire, i)
  BY <1>1 DEF V!Fault
<1> DEFINE P == {pp[j] : j \in 1 .. Len(pp)}
<1>3. \A h \in 1 .. n : wire[h] \in P
  BY <1>1 DEF H265OK, SomeOf
<1>4. P \subseteq RtpPacket
  BY ElementOfSeq DEF H265OK, Chain
<1> HIDE DEF P
<1>5. V!RemoveAt(wire, i) \in Seq(P)
  <2>1. \A h \in 1 .. i - 1 : h \in 1 .. n
    OBVIOUS
  <2>2. \A h \in i + 1 .. n : h \in 1 .. n
    OBVIOUS
  <2>3. \A h \in 1 .. i - 1 : wire[h] \in P
    BY <1>3, <2>1
  <2>4. \A h \in i + 1 .. n : wire[h] \in P
    BY <1>3, <2>2
  <2>5. SubSeq(wire, 1, i - 1) \in Seq(P)
    BY <2>3, SubSeqProperties
  <2>6. SubSeq(wire, i + 1, n) \in Seq(P)
    BY <2>4, SubSeqProperties
  <2>7. PICK a \in Seq(P), b \in Seq(P) : a = SubSeq(wire, 1, i - 1) /\ b = SubSeq(wire, i + 1, n)
    BY <2>5, <2>6
  <2>8. a \o b \in Seq(P)
    BY ConcatProperties
  <2> QED
    BY <1>1, <2>7, <2>8 DEF V!RemoveAt
<1>6. wire' \in Seq(P)
  <2>1. PICK r \in Seq(P) : r = V!RemoveAt(wire, i)
    BY <1>5
  <2>0. PICK x \in P : x = wire[i]
    BY <1>3
  <2>2. PICK e \in Seq(P) : e = <<wire[i]>>
    <3>1. <<x>> \in Seq(P)
      OBVIOUS
    <3> QED
      BY <2>0, <3>1
  <2>3. e \o r \in Seq(P)
    BY ConcatProperties
  <2> QED
    BY <1>2, <2>1, <2>2, <2>3
<1>7. wire' \in Seq(RtpPacket)
  BY <1>4, <1>6, SeqMonotonic
<1>8. \A h \in 1 .. Len(wire') : wire'[h] \in P
  BY <1>6, ElementOfSeq
<1>9. SomeOf(wire', pp)
  BY <1>7, <1>8 DEF SomeOf, P
<1>a. UNCHANGED <<codec, sent, number, seqNum, buf, out>>
  BY DEF V!Fault
<1>b. NumbersOf(pp)' /\ GatheredOf(pp)'
  BY <1>a DEF H265OK, NumbersOf, GatheredOf
<1>c. Chain(pp)'
  BY <1>a DEF H265OK, Chain, PacketOK, Continues, Begun
<1> QED
  BY <1>9, <1>b, <1>c DEF H265OK

(* H.264.  The pieces of the unit that has not ended. *)
BegunBefore(f, p) ==
  /\ p.k = 1 => f = <<>>
  /\ p.k > 1 => \E q : PacketOK(q) /\ Continues(q, p) /\ f = Pieces(q)

LEMMA KindFacts ==
  \A k \in Kind : /\ k \in V!PS \/ k \in {"sei", "aud"} \/ k \in V!Slice
                  /\ k \in V!PS => k \notin V!Slice /\ k \notin {"sei", "aud"} /\ k # "key"
                  /\ k \in {"sei", "aud"} => k \notin V!Slice /\ k \notin V!PS /\ k # "key"
                  /\ k \in V!Slice => k \notin V!PS \cup {"sei", "aud"}
BY DEF Kind, V!PS, V!Slice

(* What pion makes of a packet. *)
LEMMA UnmarshalFacts ==
  ASSUME codec = "H264", NEW p, PacketOK(p), BegunBefore(fuaBuffer, p)
  PROVE  /\ Begun(p) => V!Unmarshal(p) = <<>> /\ V!Fragmented(p) = Pieces(p)
         /\ ~ Begun(p) =>
              /\ V!Fragmented(p) = <<>> /\ V!Unmarshal(p) \in Seq(Collectable)
              /\ Len(V!Unmarshal(p)) = Len(p.units) /\ Len(p.units) \in Nat \ {0}
              /\ \A i \in 1 .. Len(p.units) : /\ V!Whole(V!Unmarshal(p)[i])
                                              /\ V!Unmarshal(p)[i].kind = p.units[i].kind
              /\ V!Name(V!Unmarshal(p)[1]) = p.units[1].id
              /\ p.type # "stap" => Len(p.units) = 1
<1>1. /\ p.units[1] \in NalUnit /\ p.k \in Nat \ {0} /\ p.n \in Nat /\ p.k <= p.n
      /\ V!Piece(p) \in PieceOf /\ Pieces(p) \in Seq(PieceOf)
      /\ (p.k = 1 => Pieces(p) = <<V!Piece(p)>>)
  BY PiecesFacts
<1>2. p.units \in Seq(NalUnit) /\ p.units # <<>> /\ p.type \in {"single", "stap", "fu"}
  BY DEF PacketOK, RtpPacket
<1>3. p.type # "fu" => p.n = 1 /\ p.k = 1
  BY <1>1 DEF PacketOK
<1>4. p.type # "stap" => Len(p.units) = 1
  BY <1>2 DEF PacketOK
<1>5. PICK l \in Nat \ {0} : l = Len(p.units)
  BY <1>2, EmptySeq
<1>6. p.type = "fu" => Append(fuaBuffer, V!Piece(p)) = Pieces(p)
  <2>1. CASE p.k = 1
    <3>1. fuaBuffer = <<>>
      BY <2>1 DEF BegunBefore
    <3>2. Append(<<>>, V!Piece(p)) = <<V!Piece(p)>>
      OBVIOUS
    <3> QED
      BY <1>1, <2>1, <3>1, <3>2
  <2>2. CASE p.k > 1
    <3>1. PICK q : PacketOK(q) /\ Continues(q, p) /\ fuaBuffer = Pieces(q)
      BY <2>2 DEF BegunBefore
    <3> QED
      BY <3>1, PiecesMore
  <2> QED
    BY <1>1, <2>1, <2>2
<1>7. ASSUME Begun(p) PROVE V!Unmarshal(p) = <<>> /\ V!Fragmented(p) = Pieces(p)
  BY <1>6, <1>7 DEF Begun, V!Unmarshal, V!Fragmented
<1>8. CASE p.type = "fu" /\ ~ Begun(p)
  <2>1. PICK x : x = [kind |-> p.units[1].kind, pieces |-> Pieces(p)]
    OBVIOUS
  <2>2. V!Unmarshal(p) = <<x>> /\ V!Fragmented(p) = <<>>
    BY <1>6, <1>8, <2>1 DEF Begun, V!Unmarshal, V!Fragmented
  <2>3. x \in Collectable
    BY <1>1, <2>1 DEF Collectable, NalUnit
  <2>4. V!Whole(x) /\ V!Name(x) = p.units[1].id
    BY <1>8, <2>1, PiecesWhole
  <2>5. l = 1 /\ Len(p.units) = 1
    BY <1>4, <1>5, <1>8
  <2>6. <<x>> \in Seq(Collectable) /\ Len(<<x>>) = 1 /\ <<x>>[1] = x
    BY <2>3
  <2>7. \A i \in 1 .. 1 : i = 1
    OBVIOUS
  <2> QED
    BY <1>8, <2>1, <2>2, <2>4, <2>5, <2>6, <2>7
<1>9. CASE p.type # "fu"
  <2>1. ~ Begun(p)
    BY <1>9 DEF Begun
  <2>2. PICK u : u = [i \in 1 .. l |-> V!Nal(p.units[i])]
    OBVIOUS
  <2>3. V!Unmarshal(p) = u /\ V!Fragmented(p) = fuaBuffer
    BY <1>3, <1>5, <1>9, <2>2 DEF V!Unmarshal, V!Fragmented
  <2>4. fuaBuffer = <<>>
    BY <1>3, <1>9 DEF BegunBefore
  <2>5. ASSUME NEW i \in 1 .. l
        PROVE  /\ u[i] \in Collectable /\ V!Whole(u[i]) /\ u[i].kind = p.units[i].kind
               /\ V!Name(u[i]) = p.units[i].id
    <3>1. PICK y \in NalUnit : y = p.units[i]
      BY <1>2, <1>5, ElementOfSeq
    <3>2. PICK d \in Nat \X Nat : d = y.id
      BY DEF NalUnit
    <3>3. PICK e : e = <<<<d, 1, 1>>>>
      OBVIOUS
    <3>4. <<d, 1, 1>> \in PieceOf
      BY DEF PieceOf
    <3>5. e \in Seq(PieceOf) /\ Len(e) = 1 /\ e[1] = <<d, 1, 1>> /\ e[1][1] = d
      BY <3>3, <3>4
    <3>6. u[i] = [kind |-> y.kind, pieces |-> e]
      BY <2>2, <3>1, <3>2, <3>3 DEF V!Nal
    <3>7. PICK x : x = u[i] /\ x.pieces = e /\ x.kind = y.kind
      BY <3>6
    <3>8. V!Whole(x)
      <4>1. \A k \in 1 .. 1 : k = 1
        OBVIOUS
      <4> QED
        BY <3>5, <3>7, <4>1 DEF V!Whole
    <3>9. V!Name(x) = d
      BY <3>5, <3>7 DEF V!Name
    <3>a. u[i] \in Collectable
      BY <3>5, <3>6 DEF Collectable, NalUnit
    <3> QED
      BY <3>1, <3>2, <3>7, <3>8, <3>9, <3>a
  <2>6. u \in Seq(Collectable) /\ Len(u) = l
    BY <2>2, <2>5
  <2>7. 1 \in 1 .. l
    OBVIOUS
  <2> QED
    BY <1>4, <1>5, <2>1, <2>3, <2>4, <2>5, <2>6, <2>7
<1> QED
  BY <1>7, <1>8, <1>9

(* More that is no slice. *)
Padded(b, g) ==
  /\ g \in Seq(Collectable) /\ Len(b) <= Len(g)
  /\ \A i \in 1 .. Len(b) : g[i] = b[i]
  /\ \A i \in 1 .. Len(g) : i > Len(b) => g[i].kind \notin V!Slice /\ V!Whole(g[i])

LEMMA PaddedConcat ==
  ASSUME NEW b \in Seq(Collectable), NEW u \in Seq(Collectable),
         \A i \in 1 .. Len(u) : u[i].kind \notin V!Slice /\ V!Whole(u[i])
  PROVE  Padded(b, b \o u) /\ Len(b \o u) = Len(b) + Len(u)
<1>1. PICK lb \in Nat, lu \in Nat : lb = Len(b) /\ lu = Len(u)
  BY LenProperties
<1>2. PICK g : g = b \o u
  OBVIOUS
<1>3. /\ g \in Seq(Collectable) /\ Len(g) = lb + lu
      /\ \A i \in 1 .. lb + lu : g[i] = IF i <= lb THEN b[i] ELSE u[i - lb]
  BY <1>1, <1>2, ConcatProperties
<1>4. \A i \in 1 .. lb : i \in 1 .. lb + lu /\ i <= lb
  OBVIOUS
<1>5. \A i \in 1 .. lb + lu : i > lb => i - lb \in 1 .. lu /\ ~ (i <= lb)
  OBVIOUS
<1>6. lb <= lb + lu
  OBVIOUS
<1> QED
  BY <1>1, <1>2, <1>3, <1>4, <1>5, <1>6 DEF Padded

LEMMA PaddedSame ==
  ASSUME NEW b \in Seq(Collectable)
  PROVE  Padded(b, b)
<1>1. PICK n \in Nat : n = Len(b)
  BY LenProperties
<1>2. \A i \in 1 .. n : ~ (i > n)
  OBVIOUS
<1> QED
  BY <1>1, <1>2 DEF Padded

LEMMA PaddedPs == Padded(<<>>, V!ps)
<1>1. PICK e \in Seq(Collectable) : e = <<>> /\ Len(e) = 0
  BY EmptySeq
<1>2. \A i \in 1 .. 1 : i = 1
  OBVIOUS
<1>3. 1 .. 0 = {}
  OBVIOUS
<1>4. "sps" \notin V!Slice
  BY DEF V!Slice
<1> QED
  BY <1>1, <1>2, <1>3, <1>4, PsFacts DEF Padded

(* What FromStart leaves of the units of a packet. *)
LEMMA FromStartFacts ==
  ASSUME NEW u \in Seq(Collectable)
  PROVE  /\ u = <<>> => V!FromStart(u) = <<>>
         /\ Len(u) = 1 /\ u[1].kind \in {"sei", "aud"} => V!FromStart(u) = <<>>
         /\ u # <<>> /\ u[1].kind \notin {"sei", "aud"} => V!FromStart(u) = u
<1>1. PICK n \in Nat : n = Len(u)
  BY LenProperties
<1>2. PICK begins : begins = {i \in 1 .. n : u[i].kind \notin {"sei", "aud"}}
  OBVIOUS
<1>3. V!FromStart(u) = IF begins = {} THEN <<>>
                       ELSE SubSeq(u, CHOOSE i \in begins : \A j \in begins : i <= j, n)
  BY <1>1, <1>2 DEF V!FromStart
<1>4. ASSUME u = <<>> PROVE V!FromStart(u) = <<>>
  <2>1. n = 0
    BY <1>1, <1>4, EmptySeq
  <2>2. 1 .. n = {}
    BY <2>1
  <2> QED
    BY <1>2, <1>3, <2>2
<1>5. ASSUME Len(u) = 1, u[1].kind \in {"sei", "aud"} PROVE V!FromStart(u) = <<>>
  <2>1. \A i \in 1 .. n : i = 1
    BY <1>1, <1>5
  <2>2. begins = {}
    BY <1>2, <1>5, <2>1
  <2> QED
    BY <1>3, <2>2
<1>6. ASSUME u # <<>>, u[1].kind \notin {"sei", "aud"} PROVE V!FromStart(u) = u
  <2>1. n > 0
    BY <1>1, <1>6, EmptySeq
  <2>2. 1 \in begins /\ \A j \in begins : 1 <= j /\ j \in Nat
    BY <1>2, <1>6, <2>1
  <2>3. (CHOOSE i \in begins : \A j \in begins : i <= j) = 1
    <3>1. PICK c : c = CHOOSE i \in begins : \A j \in begins : i <= j
      OBVIOUS
    <3>2. \E i \in begins : \A j \in begins : i <= j
      BY <2>2
    <3>3. c \in begins /\ \A j \in begins : c <= j
      BY <3>1, <3>2
    <3>4. c <= 1 /\ 1 <= c /\ c \in Nat
      BY <2>2, <3>3
    <3>5. c = 1
      BY <3>4
    <3> QED
      BY <3>1, <3>5
  <2>4. V!FromStart(u) = SubSeq(u, 1, n)
    BY <1>3, <2>2, <2>3
  <2> QED
    BY <1>1, <2>4, SubSeqFull
<1> QED
  BY <1>4, <1>5, <1>6

(* What RTPDepay may do with a packet: g is what there is with its units,  *)
(* but for a slice s that it ends.                                         *)
Stays(p, g) == ~ SliceEnd(p) /\ buf' = g /\ UNCHANGED out
Passes(p, g) ==
  /\ ~ SliceEnd(p) /\ p.marker /\ p.units[1].kind \notin V!PS
  /\ buf' = <<>> /\ out' = Append(out, g)
SliceOf(p, s) ==
  /\ SliceEnd(p) /\ s \in Collectable /\ s.kind \in V!Slice
  /\ V!Whole(s) /\ V!Name(s) = p.units[1].id
Adds(p, g, s) == SliceOf(p, s) /\ ~ p.marker /\ buf' = Append(g, s) /\ UNCHANGED out
Ends(p, g, s) == SliceOf(p, s) /\ p.marker /\ buf' = <<>> /\ out' = Append(out, Append(g, s))
Does(p, g) == Stays(p, g) \/ Passes(p, g) \/ \E s : Adds(p, g, s) \/ Ends(p, g, s)

LEMMA DepayCases ==
  ASSUME codec = "H264", NEW p, PacketOK(p), BegunBefore(fuaBuffer, p),
         buf \in Seq(Collectable), ~ (Len(buf) > MaxBuf), V!DepayH264(p)
  PROVE  /\ fuaBuffer' = IF Begun(p) THEN Pieces(p) ELSE <<>>
         /\ \E g : Padded(buf, g) /\ Does(p, g)
         /\ buf' \in Seq(Collectable) /\ Weight(p) \in Nat
         /\ Len(buf') <= 1 + Weight(p) \/ Len(buf') <= Len(buf) + Weight(p)
<1>1. PICK u : u = V!Unmarshal(p)
  OBVIOUS
<1>2. PICK fresh \in BOOLEAN : fresh = (buf = <<>>)
  OBVIOUS
<1>3. PICK rest : rest = IF fresh THEN V!FromStart(u) ELSE u
  OBVIOUS
<1>4. PICK b : b = IF fresh /\ rest # <<>> /\ rest[1].kind = "key" THEN V!ps ELSE buf
  OBVIOUS
<1>5. PICK marked \in BOOLEAN :
        marked = (p.marker /\ \A i \in 1 .. Len(u) : u[i].kind \in V!PS \cup {"sei"})
  OBVIOUS
<1>6. /\ fuaBuffer' = V!Fragmented(p)
      /\ \/ u = <<>> /\ UNCHANGED <<buf, out>>
         \/ /\ u # <<>> /\ marked
            /\ buf' = (IF u[1].kind \in V!PS THEN buf \o u ELSE buf)
            /\ UNCHANGED out
         \/ u # <<>> /\ ~ marked /\ rest = <<>> /\ buf' = buf /\ UNCHANGED out
         \/ rest # <<>> /\ ~ marked /\ ~ p.marker /\ buf' = b \o rest /\ UNCHANGED out
         \/ rest # <<>> /\ ~ marked /\ p.marker /\ buf' = <<>> /\ out' = Append(out, b \o rest)
  <2>1. PICK kept : kept = IF Len(buf) > MaxBuf THEN <<>> ELSE buf
    OBVIOUS
  <2>2. kept = buf
    BY <2>1
  <2>3. fresh = (kept = <<>>)
    BY <1>2, <2>2
  <2> QED
    BY <1>1, <1>3, <1>4, <1>5, <2>1, <2>2, <2>3 DEF V!DepayH264, V!HandOn
<1>7. PICK lb \in Nat : lb = Len(buf)
  BY LenProperties
<1>8. Padded(buf, buf)
  BY PaddedSame
<1>9. CASE Begun(p)
  <2>1. u = <<>> /\ V!Fragmented(p) = Pieces(p)
    BY <1>1, <1>9, UnmarshalFacts
  <2>2. rest = <<>>
    BY <1>3, <2>1, EmptySeq, FromStartFacts
  <2>3. UNCHANGED <<buf, out>>
    BY <1>6, <2>1, <2>2
  <2>4. ~ SliceEnd(p) /\ Weight(p) = 0
    BY <1>9 DEF SliceEnd, Weight
  <2>5. Does(p, buf)
    BY <2>3, <2>4 DEF Does, Stays
  <2> QED
    BY <1>6, <1>7, <1>8, <1>9, <2>1, <2>3, <2>4, <2>5
<1>a. CASE ~ Begun(p)
  <2>1. PICK l \in Nat \ {0} : l = Len(p.units)
    BY <1>a, UnmarshalFacts
  <2>2. /\ V!Fragmented(p) = <<>> /\ u \in Seq(Collectable) /\ Len(u) = l /\ u # <<>>
        /\ \A i \in 1 .. l : V!Whole(u[i]) /\ u[i].kind = p.units[i].kind
        /\ V!Name(u[1]) = p.units[1].id /\ (p.type # "stap" => l = 1)
    BY <1>1, <1>a, <2>1, UnmarshalFacts
  <2>3. Weight(p) = l
    BY <1>a, <2>1 DEF Weight
  <2>4. 1 \in 1 .. l
    OBVIOUS
  <2>5. PICK k \in Kind : k = u[1].kind /\ k = p.units[1].kind
    BY <2>2, <2>4, PiecesFacts DEF NalUnit
  <2>6. SliceEnd(p) <=> k \in V!Slice
    BY <1>a, <2>5 DEF SliceEnd
  <2>7. k \notin V!PS => l = 1
    <3>1. p.type = "stap" => p.units[1].kind \in V!PS
      BY <2>1, <2>4 DEF PacketOK
    <3> QED
      BY <2>2, <2>5, <3>1
  <2>8. \A i \in 1 .. l : l = 1 => i = 1
    OBVIOUS
  <2>a. ASSUME NEW g, Padded(buf, g), Does(p, g), buf' \in Seq(Collectable),
               Len(buf') <= 1 + l \/ Len(buf') <= lb + l
        PROVE  /\ fuaBuffer' = IF Begun(p) THEN Pieces(p) ELSE <<>>
               /\ \E h : Padded(buf, h) /\ Does(p, h)
               /\ buf' \in Seq(Collectable) /\ Weight(p) \in Nat
               /\ Len(buf') <= 1 + Weight(p) \/ Len(buf') <= Len(buf) + Weight(p)
    BY <1>6, <1>7, <1>a, <2>2, <2>3, <2>a
  <2>b. ASSUME k \notin V!Slice, k \in V!PS \/ l = 1
        PROVE  Padded(buf, buf \o u) /\ Len(buf \o u) = lb + l
    <3>1. ASSUME NEW i \in 1 .. l PROVE u[i].kind \notin V!Slice
      <4>1. CASE l = 1
        BY <2>5, <2>8, <2>b, <4>1
      <4>2. CASE l # 1
        <5>1. p.type = "stap" /\ u[i].kind \in V!PS
          BY <2>1, <2>2, <4>2 DEF PacketOK
        <5>2. u[i].kind \notin V!Slice
          BY <5>1 DEF V!PS, V!Slice
        <5> QED
          BY <5>2
      <4> QED
        BY <4>1, <4>2
    <3> QED
      BY <1>7, <2>2, <3>1, PaddedConcat
  <2>c. CASE k \in V!PS
    <3>1. k \notin V!Slice /\ k \notin {"sei", "aud"} /\ k # "key"
      BY <2>c, KindFacts
    <3>2. \A i \in 1 .. Len(u) : u[i].kind \in V!PS \cup {"sei"}
      <4>1. ASSUME NEW i \in 1 .. l PROVE u[i].kind \in V!PS
        <5>1. CASE l = 1
          BY <2>5, <2>8, <2>c, <5>1
        <5>2. CASE l # 1
          BY <2>1, <2>2, <5>2 DEF PacketOK
        <5> QED
          BY <5>1, <5>2
      <4> QED
        BY <2>2, <4>1
    <3>3. rest = u
      BY <1>3, <2>2, <2>5, <3>1, FromStartFacts
    <3>4. b = buf
      BY <1>4, <2>5, <3>1, <3>3
    <3>5. p.marker => marked
      BY <1>5, <3>2
    <3>6. buf' = buf \o u /\ UNCHANGED out
      BY <1>6, <2>2, <2>5, <2>c, <3>3, <3>4, <3>5
    <3>7. PICK g : g = buf \o u
      OBVIOUS
    <3>8. Padded(buf, g) /\ Len(g) = lb + l
      BY <2>b, <2>c, <3>1, <3>7
    <3>9. Does(p, g) /\ g \in Seq(Collectable)
      BY <2>6, <3>1, <3>6, <3>7, <3>8 DEF Does, Stays, Padded
    <3> QED
      BY <2>a, <3>6, <3>7, <3>8, <3>9
  <2>d. CASE k \in {"sei", "aud"}
    <3>1. k \notin V!Slice /\ k \notin V!PS /\ k # "key" /\ ~ SliceEnd(p) /\ l = 1
      BY <2>6, <2>7, <2>d, KindFacts
    <3>2. fresh => rest = <<>>
      BY <1>3, <2>2, <2>5, <2>d, <3>1, FromStartFacts
    <3>3. ~ fresh => rest = u /\ b = buf
      BY <1>3, <1>4
    <3>4. PICK g : g = buf \o u
      OBVIOUS
    <3>5. Padded(buf, g) /\ Len(g) = lb + l /\ g \in Seq(Collectable)
      BY <2>b, <3>1, <3>4 DEF Padded
    <3>6. \/ buf' = buf /\ UNCHANGED out
          \/ buf' = g /\ UNCHANGED out
          \/ p.marker /\ buf' = <<>> /\ out' = Append(out, g)
      BY <1>6, <2>2, <2>5, <3>1, <3>2, <3>3, <3>4
    <3>7. CASE buf' = buf /\ UNCHANGED out
      <4>1. Does(p, buf)
        BY <3>1, <3>7 DEF Does, Stays
      <4> QED
        BY <1>7, <1>8, <2>a, <3>7, <4>1
    <3>8. CASE buf' = g /\ UNCHANGED out
      <4>1. Does(p, g)
        BY <3>1, <3>8 DEF Does, Stays
      <4> QED
        BY <2>a, <3>5, <3>8, <4>1
    <3>9. CASE p.marker /\ buf' = <<>> /\ out' = Append(out, g)
      <4>1. Does(p, g)
        BY <2>5, <3>1, <3>9 DEF Does, Passes
      <4>2. buf' \in Seq(Collectable) /\ Len(buf') = 0
        BY <3>9, EmptySeq
      <4> QED
        BY <2>a, <3>5, <4>1, <4>2
    <3> QED
      BY <3>6, <3>7, <3>8, <3>9
  <2>e. CASE k \in V!Slice
    <3>1. k \notin V!PS \cup {"sei", "aud"} /\ SliceEnd(p) /\ l = 1
      BY <2>6, <2>7, <2>e, KindFacts
    <3>2. rest = u
      BY <1>3, <2>2, <2>5, <3>1, FromStartFacts
    <3>3. ~ marked
      BY <1>5, <2>2, <2>4, <2>5, <3>1
    <3>4. PICK s \in Collectable : s = u[1]
      BY <2>2, <2>4, ElementOfSeq
    <3>5. SliceOf(p, s)
      BY <2>2, <2>4, <2>5, <2>e, <3>1, <3>4 DEF SliceOf
    <3>6. b \in Seq(Collectable) /\ Padded(buf, b) /\ (Len(b) = 1 \/ Len(b) = lb)
      <4>1. CASE b = buf
        BY <1>7, <1>8, <4>1
      <4>2. CASE b # buf
        <5>1. buf = <<>> /\ b = V!ps
          BY <1>2, <1>4, <4>2
        <5> QED
          BY <5>1, PaddedPs, PsFacts
      <4> QED
        BY <4>1, <4>2
    <3>7. u = <<s>>
      BY <2>2, <3>1, <3>4
    <3>8. PICK c : c = Append(b, s)
      OBVIOUS
    <3>9. b \o u = c
      BY <3>4, <3>6, <3>7, <3>8, AppendIsConcat
    <3>a. c \in Seq(Collectable) /\ Len(c) = Len(b) + 1
      BY <3>4, <3>6, <3>8, AppendProperties
    <3>b. \/ ~ p.marker /\ buf' = c /\ UNCHANGED out
          \/ p.marker /\ buf' = <<>> /\ out' = Append(out, c)
      BY <1>6, <2>2, <3>2, <3>3, <3>9
    <3>c. CASE ~ p.marker /\ buf' = c /\ UNCHANGED out
      <4>1. Does(p, b)
        BY <3>5, <3>8, <3>c DEF Does, Adds
      <4>2. buf' \in Seq(Collectable) /\ Len(buf') = Len(b) + 1 /\ l = 1
        BY <3>1, <3>a, <3>c
      <4>3. PICK x \in {1, lb} : x = Len(b)
        BY <3>6
      <4>4. Len(buf') = x + 1
        BY <4>2, <4>3
      <4>5. x + 1 <= 1 + l \/ x + 1 <= lb + l
        BY <4>2
      <4>6. Len(buf') <= 1 + l \/ Len(buf') <= lb + l
        BY <4>2, <4>4, <4>5
      <4> QED
        BY <2>a, <3>6, <4>1, <4>2, <4>6
    <3>d. CASE p.marker /\ buf' = <<>> /\ out' = Append(out, c)
      <4>1. Does(p, b)
        BY <3>5, <3>8, <3>d DEF Does, Ends
      <4>2. buf' \in Seq(Collectable) /\ Len(buf') = 0
        BY <3>d, EmptySeq
      <4> QED
        BY <2>a, <3>6, <4>1, <4>2
    <3> QED
      BY <3>b, <3>c, <3>d
  <2> QED
    BY <2>5, <2>c, <2>d, <2>e, KindFacts
<1> QED
  BY <1>9, <1>a

(* H.264.  What is collected is of the frame under way: since the packets  *)
(* its slices come of, no slice has ended with a marker.                   *)
OneFrame(g) ==
  \A x, y \in V!Slices(g) : /\ V!Name(g[x])[1] = V!Name(g[y])[1]
                            /\ x < y => V!Name(g[x])[2] < V!Name(g[y])[2]
Earlier(g, h) ==
  \A x \in V!Slices(g), y \in V!Slices(h) : V!Name(g[x])[1] < V!Name(h[y])[1]
Has(g, id) == \E x \in V!Slices(g) : V!Name(g[x]) = id
EndOf(p, id) == SliceEnd(p) /\ p.units[1].id = id
Holds(b, pp, r) ==
  /\ OneFrame(b)
  /\ \A x \in V!Slices(b) : \E j \in 1 .. r :
       /\ EndOf(pp[j], V!Name(b[x]))
       /\ \A m \in j .. r : ~ (SliceEnd(pp[m]) /\ pp[m].marker)

(* A frame that was handed on is behind all that is still to come. *)
Past(g, pp, r) ==
  /\ OneFrame(g)
  /\ \A x \in V!Slices(g) :
       /\ \E j \in 1 .. r : EndOf(pp[j], V!Name(g[x]))
       /\ \A j \in r + 1 .. Len(pp) : SliceEnd(pp[j]) => V!Name(g[x])[1] < FrameOf(pp[j])

SlicesOK(o, b, pp, r) ==
  /\ Holds(b, pp, r)
  /\ \A i \in 1 .. Len(o) : Past(o[i], pp, r) /\ Earlier(o[i], b)
  /\ \A i, k \in 1 .. Len(o) : i < k => Earlier(o[i], o[k])
  /\ \A j \in 1 .. r : SliceEnd(pp[j]) =>
       Has(b, pp[j].units[1].id) \/ \E i \in 1 .. Len(o) : Has(o[i], pp[j].units[1].id)

LEMMA PaddedSlices ==
  ASSUME NEW b \in Seq(Collectable), NEW g, Padded(b, g)
  PROVE  V!Slices(g) = V!Slices(b) /\ \A x \in V!Slices(b) : g[x] = b[x]
<1>1. PICK lb \in Nat, lg \in Nat : lb = Len(b) /\ lg = Len(g)
  BY LenProperties DEF Padded
<1>2. /\ lb <= lg /\ \A i \in 1 .. lb : g[i] = b[i]
      /\ \A i \in 1 .. lg : i > lb => g[i].kind \notin V!Slice
  BY <1>1 DEF Padded
<1>3. \A i \in 1 .. lb : i \in 1 .. lg
  BY <1>2
<1>4. \A i \in 1 .. lg : i \in 1 .. lb \/ i > lb
  OBVIOUS
<1>5. /\ V!Slices(g) = {i \in 1 .. lg : g[i].kind \in V!Slice}
      /\ V!Slices(b) = {i \in 1 .. lb : b[i].kind \in V!Slice}
  BY <1>1 DEF V!Slices
<1>6. \A x : x \in V!Slices(g) <=> x \in V!Slices(b)
  BY <1>2, <1>3, <1>4, <1>5
<1> QED
  BY <1>2, <1>5, <1>6

LEMMA PaddedOK ==
  ASSUME NEW o, NEW b \in Seq(Collectable), NEW pp, NEW r, SlicesOK(o, b, pp, r), NEW g, Padded(b, g)
  PROVE  SlicesOK(o, g, pp, r)
<1>1. V!Slices(g) = V!Slices(b) /\ \A x \in V!Slices(b) : g[x] = b[x]
  BY PaddedSlices
<1>2. Holds(g, pp, r)
  BY <1>1 DEF SlicesOK, Holds, OneFrame
<1>3. \A i \in 1 .. Len(o) : Earlier(o[i], g)
  BY <1>1 DEF SlicesOK, Earlier
<1>4. \A j \in 1 .. r : Has(b, pp[j].units[1].id) => Has(g, pp[j].units[1].id)
  BY <1>1 DEF Has
<1> QED
  BY <1>2, <1>3, <1>4 DEF SlicesOK

(* A list with a slice more. *)
LEMMA SlicesMore ==
  ASSUME NEW g \in Seq(Collectable), NEW s \in Collectable, s.kind \in V!Slice
  PROVE  /\ Len(g) \in Nat /\ V!Slices(Append(g, s)) = V!Slices(g) \cup {Len(g) + 1}
         /\ Append(g, s)[Len(g) + 1] = s
         /\ \A x \in V!Slices(g) : Append(g, s)[x] = g[x] /\ x \in 1 .. Len(g)
<1>1. PICK n \in Nat : n = Len(g)
  BY LenProperties
<1>2. PICK h : h = Append(g, s)
  OBVIOUS
<1>3. Len(h) = n + 1 /\ h[n + 1] = s /\ \A i \in 1 .. n : h[i] = g[i]
  BY <1>1, <1>2, AppendProperties
<1>4. \A i : i \in 1 .. n + 1 <=> i \in 1 .. n \/ i = n + 1
  OBVIOUS
<1>5. /\ V!Slices(h) = {i \in 1 .. n + 1 : h[i].kind \in V!Slice}
      /\ V!Slices(g) = {i \in 1 .. n : g[i].kind \in V!Slice}
  BY <1>1, <1>3 DEF V!Slices
<1>6. \A x : x \in V!Slices(h) <=> x \in V!Slices(g) \cup {n + 1}
  BY <1>3, <1>4, <1>5
<1> QED
  BY <1>1, <1>2, <1>3, <1>5, <1>6

(* The name that a packet gives. *)
LEMMA IdFacts ==
  ASSUME NEW pp, Chain(pp), NEW j \in 1 .. Len(pp)
  PROVE  /\ pp[j].units[1].id \in Nat \X Nat
         /\ FrameOf(pp[j]) \in Nat /\ PlaceOf(pp[j]) \in Nat
         /\ FrameOf(pp[j]) = pp[j].units[1].id[1] /\ PlaceOf(pp[j]) = pp[j].units[1].id[2]
         /\ pp[j].units[1].id = <<FrameOf(pp[j]), PlaceOf(pp[j])>>
<1>1. PacketOK(pp[j])
  BY DEF Chain
<1>2. PICK d \in Nat \X Nat : d = pp[j].units[1].id
  BY <1>1, PiecesFacts DEF NalUnit
<1> QED
  BY <1>2 DEF FrameOf, PlaceOf

(* The frame under way, f, with one slice more. *)
Added(o, g, s, f) ==
  LET h == Append(g, s)
  IN  /\ OneFrame(h) /\ \A i \in 1 .. Len(o) : Earlier(o[i], h)
      /\ \A x \in V!Slices(h) : /\ V!Name(h[x])[1] = f
                                 /\ ((x \in V!Slices(g) /\ h[x] = g[x]) \/ h[x] = s)
      /\ \A id : Has(h, id) <=> Has(g, id) \/ V!Name(s) = id

LEMMA SliceAdded ==
  ASSUME NEW o, NEW g \in Seq(Collectable), NEW pp, NEW r \in Nat, Chain(pp),
         EndsInOrder(pp), EndsMarked(pp), SlicesOK(o, g, pp, r), r + 1 \in 1 .. Len(pp),
         NEW s \in Collectable, s.kind \in V!Slice, EndOf(pp[r + 1], V!Name(s))
  PROVE  Added(o, g, s, FrameOf(pp[r + 1]))
<1>1. PICK n \in Nat : n = Len(g)
  BY LenProperties
<1>2. PICK h : h = Append(g, s)
  OBVIOUS
<1>3. /\ V!Slices(h) = V!Slices(g) \cup {n + 1} /\ h[n + 1] = s
      /\ \A x \in V!Slices(g) : h[x] = g[x] /\ x \in 1 .. n
  BY <1>1, <1>2, SlicesMore
<1>4. PICK l \in Nat : l = Len(pp)
  BY LenProperties DEF Chain
<1>5. PICK fr \in Nat, pl \in Nat :
        fr = FrameOf(pp[r + 1]) /\ pl = PlaceOf(pp[r + 1]) /\ V!Name(s)[1] = fr /\ V!Name(s)[2] = pl
  <2>1. /\ FrameOf(pp[r + 1]) \in Nat /\ PlaceOf(pp[r + 1]) \in Nat
        /\ FrameOf(pp[r + 1]) = pp[r + 1].units[1].id[1] /\ PlaceOf(pp[r + 1]) = pp[r + 1].units[1].id[2]
    BY IdFacts
  <2>2. pp[r + 1].units[1].id = V!Name(s)
    BY DEF EndOf
  <2> QED
    BY <2>1, <2>2
<1>6. ASSUME NEW x \in V!Slices(g)
      PROVE  V!Name(g[x])[1] = fr /\ V!Name(g[x])[2] < pl
  <2>1. PICK j \in 1 .. r : /\ EndOf(pp[j], V!Name(g[x]))
                            /\ \A m \in j .. r : ~ (SliceEnd(pp[m]) /\ pp[m].marker)
    BY DEF SlicesOK, Holds
  <2>2. j \in 1 .. l /\ j < r + 1 /\ r + 1 \in 1 .. l
    BY <1>4
  <2>3. PICK m \in j .. l : SliceEnd(pp[m]) /\ pp[m].marker /\ FrameOf(pp[m]) = FrameOf(pp[j])
    BY <1>4, <2>1, <2>2 DEF EndsMarked, EndOf
  <2>4. m \notin j .. r
    BY <2>1, <2>3
  <2>5. m \in 1 .. l /\ (m = r + 1 \/ r + 1 < m)
    BY <2>2, <2>4
  <2>6. PICK fj \in Nat, pj \in Nat, fm \in Nat, pm \in Nat :
          /\ fj = FrameOf(pp[j]) /\ pj = PlaceOf(pp[j]) /\ fm = FrameOf(pp[m]) /\ pm = PlaceOf(pp[m])
          /\ pp[j].units[1].id = <<fj, pj>> /\ pp[m].units[1].id = <<fm, pm>>
          /\ pp[r + 1].units[1].id = <<fr, pl>>
    <3>0. j \in 1 .. Len(pp) /\ m \in 1 .. Len(pp)
      BY <1>4, <2>2, <2>5
    <3>1. PICK fj \in Nat, pj \in Nat :
            fj = FrameOf(pp[j]) /\ pj = PlaceOf(pp[j]) /\ pp[j].units[1].id = <<fj, pj>>
      BY <3>0, IdFacts, ZenonT(60)
    <3>2. PICK fm \in Nat, pm \in Nat :
            fm = FrameOf(pp[m]) /\ pm = PlaceOf(pp[m]) /\ pp[m].units[1].id = <<fm, pm>>
      BY <3>0, IdFacts, ZenonT(60)
    <3>3. pp[r + 1].units[1].id = <<fr, pl>>
      BY <1>5, IdFacts
    <3> QED
      BY <3>1, <3>2, <3>3
  <2>7. Before(<<fj, pj>>, <<fr, pl>>)
    BY <1>4, <2>1, <2>2, <2>6 DEF EndsInOrder, EndOf
  <2>8. r + 1 < m => Before(<<fr, pl>>, <<fm, pm>>)
    BY <1>4, <2>2, <2>3, <2>5, <2>6 DEF EndsInOrder, EndOf
  <2>9. fj < fr \/ (fj = fr /\ pj < pl)
    BY <2>7 DEF Before
  <2>a. r + 1 < m => fr < fm \/ (fr = fm /\ pl < pm)
    BY <2>8 DEF Before
  <2>b. m = r + 1 => fm = fr
    BY <1>5, <2>6
  <2>c. fm = fj
    BY <2>3, <2>6
  <2>d. fj = fr /\ pj < pl
    BY <2>5, <2>9, <2>a, <2>b, <2>c
  <2>e. V!Name(g[x]) = <<fj, pj>>
    BY <2>1, <2>6 DEF EndOf
  <2> QED
    BY <2>d, <2>e
<1>7. ASSUME NEW x \in V!Slices(h)
      PROVE  /\ V!Name(h[x])[1] = fr
             /\ \/ x \in V!Slices(g) /\ h[x] = g[x]
                \/ x = n + 1 /\ h[x] = s
  BY <1>3, <1>5, <1>6
<1>8. OneFrame(h)
  <2> SUFFICES ASSUME NEW x \in V!Slices(h), NEW y \in V!Slices(h)
               PROVE  /\ V!Name(h[x])[1] = V!Name(h[y])[1]
                      /\ x < y => V!Name(h[x])[2] < V!Name(h[y])[2]
    BY DEF OneFrame
  <2>1. V!Name(h[x])[1] = V!Name(h[y])[1]
    BY <1>7
  <2>2. ASSUME x < y PROVE V!Name(h[x])[2] < V!Name(h[y])[2]
    <3>1. CASE y = n + 1
      <4>0. ASSUME x = n + 1 PROVE FALSE
        BY <2>2, <3>1, <4>0
      <4>1. x \in V!Slices(g) /\ h[x] = g[x]
        BY <1>7, <4>0
      <4> QED
        BY <1>3, <1>5, <1>6, <3>1, <4>1
    <3>2. CASE y # n + 1
      <4>1. y \in V!Slices(g) /\ h[y] = g[y] /\ y \in 1 .. n
        BY <1>3, <1>7, <3>2
      <4>2. x # n + 1
        BY <2>2, <4>1
      <4>3. x \in V!Slices(g) /\ h[x] = g[x]
        BY <1>7, <4>2
      <4> QED
        BY <2>2, <4>1, <4>3 DEF SlicesOK, Holds, OneFrame
    <3> QED
      BY <3>1, <3>2
  <2> QED
    BY <2>1, <2>2
<1>9. ASSUME NEW i \in 1 .. Len(o) PROVE Earlier(o[i], h)
  <2> SUFFICES ASSUME NEW x \in V!Slices(o[i]), NEW y \in V!Slices(h)
               PROVE  V!Name(o[i][x])[1] < V!Name(h[y])[1]
    BY DEF Earlier
  <2>1. r + 1 \in r + 1 .. l /\ SliceEnd(pp[r + 1])
    BY <1>4 DEF EndOf
  <2>2. V!Name(o[i][x])[1] < fr
    BY <1>4, <1>5, <2>1 DEF SlicesOK, Past
  <2> QED
    BY <1>7, <2>2
<1>a. ASSUME NEW id PROVE Has(h, id) <=> Has(g, id) \/ V!Name(s) = id
  BY <1>3 DEF Has
<1> QED
  BY <1>2, <1>5, <1>7, <1>8, <1>9, <1>a DEF Added

LEMMA NextIndex ==
  ASSUME NEW r \in Nat, NEW l \in Nat, r + 1 \in 1 .. l
  PROVE  /\ \A j \in 1 .. r : j \in 1 .. r + 1 /\ j \in 1 .. l /\ j \in 1 .. r + 1
         /\ \A j \in 1 .. r + 1 : j \in 1 .. l /\ (j \in 1 .. r \/ j = r + 1)
         /\ \A j \in 1 .. r + 1 : \A m \in j .. r + 1 : m \in j .. r \/ m = r + 1
         /\ \A j \in r + 1 + 1 .. l : j \in r + 1 .. l /\ j \in 1 .. l /\ j \in (r + 1) + 1 .. l
         /\ r + 1 \in 1 .. r + 1 /\ \A m \in r + 1 .. r + 1 : m = r + 1
  OBVIOUS

(* What was handed on stays past. *)
LEMMA PastStays ==
  ASSUME NEW g, NEW pp, NEW r \in Nat, NEW l \in Nat, l = Len(pp), r + 1 \in 1 .. l, Past(g, pp, r)
  PROVE  Past(g, pp, r + 1)
<1>1. /\ \A j \in 1 .. r : j \in 1 .. r + 1
      /\ \A j \in r + 1 + 1 .. l : j \in r + 1 .. l
  BY NextIndex
<1> QED
  BY <1>1 DEF Past

(* A packet that ends no slice. *)
LEMMA SlicesStay ==
  ASSUME NEW o, NEW g, NEW pp, NEW r \in Nat, Chain(pp), r + 1 \in 1 .. Len(pp),
         SlicesOK(o, g, pp, r), ~ SliceEnd(pp[r + 1])
  PROVE  SlicesOK(o, g, pp, r + 1)
<1>1. PICK l \in Nat : l = Len(pp)
  BY LenProperties DEF Chain
<1>2. /\ \A j \in 1 .. r : j \in 1 .. r + 1
      /\ \A j \in 1 .. r + 1 : j \in 1 .. r \/ j = r + 1
      /\ \A j \in 1 .. r + 1 : \A m \in j .. r + 1 : m \in j .. r \/ m = r + 1
  BY <1>1, NextIndex
<1>3. Holds(g, pp, r + 1)
  <2>1. OneFrame(g)
    BY DEF SlicesOK, Holds
  <2>2. ASSUME NEW x \in V!Slices(g)
        PROVE  \E j \in 1 .. r + 1 : /\ EndOf(pp[j], V!Name(g[x]))
                                     /\ \A m \in j .. r + 1 : ~ (SliceEnd(pp[m]) /\ pp[m].marker)
    <3>1. PICK j \in 1 .. r : /\ EndOf(pp[j], V!Name(g[x]))
                              /\ \A m \in j .. r : ~ (SliceEnd(pp[m]) /\ pp[m].marker)
      BY DEF SlicesOK, Holds
    <3> QED
      BY <1>2, <3>1
  <2> QED
    BY <2>1, <2>2 DEF Holds
<1>4. \A i \in 1 .. Len(o) : Past(o[i], pp, r + 1)
  BY <1>1, PastStays DEF SlicesOK
<1> QED
  BY <1>2, <1>3, <1>4 DEF SlicesOK

(* One that ends a slice of a frame that goes on. *)
LEMMA SlicesAdd ==
  ASSUME NEW o, NEW g \in Seq(Collectable), NEW pp, NEW r \in Nat, Chain(pp),
         EndsInOrder(pp), EndsMarked(pp), SlicesOK(o, g, pp, r), r + 1 \in 1 .. Len(pp),
         NEW s, SliceOf(pp[r + 1], s), ~ pp[r + 1].marker
  PROVE  SlicesOK(o, Append(g, s), pp, r + 1)
<1>0. s \in Collectable /\ s.kind \in V!Slice /\ EndOf(pp[r + 1], V!Name(s))
  BY DEF SliceOf, EndOf
<1>1. PICK l \in Nat : l = Len(pp)
  BY LenProperties DEF Chain
<1>2. /\ \A j \in 1 .. r : j \in 1 .. r + 1
      /\ \A j \in 1 .. r + 1 : j \in 1 .. r \/ j = r + 1
      /\ \A j \in 1 .. r + 1 : \A m \in j .. r + 1 : m \in j .. r \/ m = r + 1
      /\ r + 1 \in 1 .. r + 1 /\ \A m \in r + 1 .. r + 1 : m = r + 1
  BY <1>1, NextIndex
<1>3. PICK h : h = Append(g, s)
  OBVIOUS
<1>4. /\ OneFrame(h) /\ \A i \in 1 .. Len(o) : Earlier(o[i], h)
      /\ \A x \in V!Slices(h) : \/ x \in V!Slices(g) /\ h[x] = g[x]
                                \/ h[x] = s
      /\ \A id : Has(h, id) <=> Has(g, id) \/ V!Name(s) = id
  <2>1. Added(o, g, s, FrameOf(pp[r + 1]))
    BY <1>0, SliceAdded
  <2> QED
    BY <1>3, <2>1 DEF Added
<1>5. ASSUME NEW x \in V!Slices(h)
      PROVE  \E j \in 1 .. r + 1 : /\ EndOf(pp[j], V!Name(h[x]))
                                   /\ \A m \in j .. r + 1 : ~ (SliceEnd(pp[m]) /\ pp[m].marker)
  <2>1. CASE x \in V!Slices(g) /\ h[x] = g[x]
    <3>1. PICK j \in 1 .. r : /\ EndOf(pp[j], V!Name(g[x]))
                              /\ \A m \in j .. r : ~ (SliceEnd(pp[m]) /\ pp[m].marker)
      BY <2>1 DEF SlicesOK, Holds
    <3> QED
      BY <1>2, <2>1, <3>1
  <2>2. CASE h[x] = s
    BY <1>0, <1>2, <2>2
  <2> QED
    BY <1>4, <2>1, <2>2
<1>6. Holds(h, pp, r + 1)
  BY <1>4, <1>5 DEF Holds
<1>7. \A i \in 1 .. Len(o) : Past(o[i], pp, r + 1)
  BY <1>1, PastStays DEF SlicesOK
<1>8. ASSUME NEW j \in 1 .. r + 1, SliceEnd(pp[j])
      PROVE  Has(h, pp[j].units[1].id) \/ \E i \in 1 .. Len(o) : Has(o[i], pp[j].units[1].id)
  <2>1. CASE j \in 1 .. r
    BY <1>4, <1>8, <2>1 DEF SlicesOK
  <2>2. CASE j = r + 1
    BY <1>0, <1>4, <2>2 DEF EndOf
  <2> QED
    BY <1>2, <2>1, <2>2
<1>9. \A i, k \in 1 .. Len(o) : i < k => Earlier(o[i], o[k])
  BY DEF SlicesOK
<1> QED
  BY <1>3, <1>4, <1>6, <1>7, <1>8, <1>9 DEF SlicesOK

(* A frame is handed on. *)
LEMMA SlicesHand ==
  ASSUME NEW o \in Seq(Seq(Collectable)), NEW g, NEW pp, NEW r \in Nat, Chain(pp),
         SlicesOK(o, g, pp, r), r + 1 \in 1 .. Len(pp),
         NEW h \in Seq(Collectable), Past(h, pp, r + 1), \A i \in 1 .. Len(o) : Earlier(o[i], h),
         \A id : Has(g, id) => Has(h, id),
         SliceEnd(pp[r + 1]) => Has(h, pp[r + 1].units[1].id)
  PROVE  SlicesOK(Append(o, h), <<>>, pp, r + 1)
<1>1. PICK l \in Nat, n \in Nat : l = Len(pp) /\ n = Len(o)
  BY LenProperties DEF Chain
<1>2. \A j \in 1 .. r + 1 : j \in 1 .. r \/ j = r + 1
  BY <1>1, NextIndex
<1>3. PICK oo : oo = Append(o, h)
  OBVIOUS
<1>4. Len(oo) = n + 1 /\ oo[n + 1] = h /\ \A i \in 1 .. n : oo[i] = o[i]
  BY <1>1, <1>3, AppendProperties
<1>5. /\ \A i \in 1 .. n + 1 : i \in 1 .. n \/ i = n + 1
      /\ \A i \in 1 .. n : i \in 1 .. n + 1
      /\ n + 1 \in 1 .. n + 1
      /\ \A i, k \in 1 .. n + 1 : i < k => i \in 1 .. n
  OBVIOUS
<1>6. PICK e : e = <<>>
  OBVIOUS
<1>7. V!Slices(e) = {}
  <2>1. 1 .. Len(e) = {}
    BY <1>6
  <2> QED
    BY <2>1 DEF V!Slices
<1>8. Holds(e, pp, r + 1)
  BY <1>7 DEF Holds, OneFrame
<1>9. ASSUME NEW i \in 1 .. n + 1 PROVE Past(oo[i], pp, r + 1) /\ Earlier(oo[i], e)
  <2>1. Earlier(oo[i], e)
    BY <1>7 DEF Earlier
  <2>2. CASE i \in 1 .. n
    <3>1. Past(o[i], pp, r)
      BY <1>1, <2>2 DEF SlicesOK
    <3>2. Past(o[i], pp, r + 1)
      BY <1>1, <3>1, PastStays
    <3> QED
      BY <1>4, <2>1, <2>2, <3>2
  <2>3. CASE i = n + 1
    BY <1>4, <2>1, <2>3
  <2> QED
    BY <1>5, <2>2, <2>3
<1>a. ASSUME NEW i \in 1 .. n + 1, NEW k \in 1 .. n + 1, i < k PROVE Earlier(oo[i], oo[k])
  <2>1. i \in 1 .. n /\ oo[i] = o[i]
    BY <1>4, <1>5, <1>a
  <2>2. CASE k \in 1 .. n
    BY <1>1, <1>4, <1>a, <2>1, <2>2 DEF SlicesOK
  <2>3. CASE k = n + 1
    BY <1>1, <1>4, <2>1, <2>3
  <2> QED
    BY <1>5, <2>2, <2>3
<1>b. ASSUME NEW j \in 1 .. r + 1, SliceEnd(pp[j])
      PROVE  \E i \in 1 .. n + 1 : Has(oo[i], pp[j].units[1].id)
  <2>1. CASE j \in 1 .. r
    <3>1. Has(g, pp[j].units[1].id) \/ \E i \in 1 .. n : Has(o[i], pp[j].units[1].id)
      BY <1>1, <1>b, <2>1 DEF SlicesOK
    <3> QED
      BY <1>4, <1>5, <3>1
  <2>2. CASE j = r + 1
    BY <1>4, <1>5, <1>b, <2>2
  <2> QED
    BY <1>2, <2>1, <2>2
<1>c. SlicesOK(oo, e, pp, r + 1)
  BY <1>4, <1>8, <1>9, <1>a, <1>b DEF SlicesOK
<1> QED
  BY <1>3, <1>6, <1>c

(* One that ends the last slice of a frame. *)
LEMMA SlicesEnd ==
  ASSUME NEW o \in Seq(Seq(Collectable)), NEW g \in Seq(Collectable), NEW pp, NEW r \in Nat, Chain(pp),
         EndsInOrder(pp), EndsMarked(pp), MarksEnd(pp), SlicesOK(o, g, pp, r), r + 1 \in 1 .. Len(pp),
         NEW s, SliceOf(pp[r + 1], s), pp[r + 1].marker
  PROVE  SlicesOK(Append(o, Append(g, s)), <<>>, pp, r + 1)
<1>0. s \in Collectable /\ s.kind \in V!Slice /\ EndOf(pp[r + 1], V!Name(s))
  BY DEF SliceOf, EndOf
<1>1. PICK l \in Nat : l = Len(pp)
  BY LenProperties DEF Chain
<1>2. PICK h : h = Append(g, s)
  OBVIOUS
<1>3. /\ OneFrame(h) /\ \A i \in 1 .. Len(o) : Earlier(o[i], h)
      /\ \A x \in V!Slices(h) : /\ V!Name(h[x])[1] = FrameOf(pp[r + 1])
                                /\ \/ x \in V!Slices(g) /\ h[x] = g[x]
                                   \/ h[x] = s
      /\ \A id : Has(h, id) <=> Has(g, id) \/ V!Name(s) = id
  <2>1. Added(o, g, s, FrameOf(pp[r + 1]))
    BY <1>0, SliceAdded
  <2> QED
    BY <1>2, <2>1 DEF Added
<1>4. h \in Seq(Collectable)
  BY <1>0, <1>2, AppendProperties
<1>5. pp[r + 1].units[1].kind \notin V!PS
  BY <1>0 DEF EndOf, SliceEnd, V!Slice, V!PS
<1>6. /\ \A j \in 1 .. r : j \in 1 .. r + 1
      /\ r + 1 \in 1 .. r + 1
  BY <1>1, NextIndex
<1>7. ASSUME NEW j \in (r + 1) + 1 .. Len(pp), SliceEnd(pp[j])
      PROVE  FrameOf(pp[r + 1]) < FrameOf(pp[j])
  BY <1>0, <1>5, <1>6, <1>7 DEF MarksEnd, EndOf
<1>8. ASSUME NEW x \in V!Slices(h) PROVE \E j \in 1 .. r + 1 : EndOf(pp[j], V!Name(h[x]))
  <2>1. CASE x \in V!Slices(g) /\ h[x] = g[x]
    <3>1. PICK j \in 1 .. r : EndOf(pp[j], V!Name(g[x]))
      BY <2>1 DEF SlicesOK, Holds
    <3> QED
      BY <1>6, <2>1, <3>1
  <2>2. CASE h[x] = s
    BY <1>0, <1>6, <2>2
  <2> QED
    BY <1>3, <2>1, <2>2
<1>9. Past(h, pp, r + 1)
  BY <1>3, <1>7, <1>8 DEF Past
<1>a. Has(h, pp[r + 1].units[1].id)
  BY <1>0, <1>3 DEF EndOf
<1> QED
  BY <1>2, <1>3, <1>4, <1>9, <1>a, SlicesHand

(* A marker behind all the slices that have arrived. *)
LEMMA SlicesPass ==
  ASSUME NEW o \in Seq(Seq(Collectable)), NEW g \in Seq(Collectable), NEW pp, NEW r \in Nat, Chain(pp),
         EndsMarked(pp), MarksEnd(pp), SlicesOK(o, g, pp, r), r + 1 \in 1 .. Len(pp),
         ~ SliceEnd(pp[r + 1]), pp[r + 1].marker, pp[r + 1].units[1].kind \notin V!PS
  PROVE  SlicesOK(Append(o, g), <<>>, pp, r + 1)
<1>1. PICK l \in Nat : l = Len(pp)
  BY LenProperties DEF Chain
<1>2. ASSUME NEW x \in V!Slices(g) PROVE FALSE
  <2>1. PICK j \in 1 .. r : /\ EndOf(pp[j], V!Name(g[x]))
                            /\ \A m \in j .. r : ~ (SliceEnd(pp[m]) /\ pp[m].marker)
    BY DEF SlicesOK, Holds
  <2>2. j \in 1 .. l /\ j \in 1 .. r + 1 /\ j \in Nat
    BY <1>1
  <2>3. PICK m \in j .. l : SliceEnd(pp[m]) /\ pp[m].marker /\ FrameOf(pp[m]) = FrameOf(pp[j])
    BY <1>1, <2>1, <2>2 DEF EndsMarked, EndOf
  <2>4. m \notin j .. r /\ m # r + 1
    BY <2>1, <2>3
  <2>5. m \in (r + 1) + 1 .. l /\ m \in 1 .. l
    BY <2>2, <2>4
  <2>6. FrameOf(pp[j]) < FrameOf(pp[m])
    BY <1>1, <2>1, <2>2, <2>3, <2>5 DEF MarksEnd, EndOf
  <2>7. FrameOf(pp[j]) \in Nat
    BY <1>1, <2>2, IdFacts
  <2> QED
    BY <2>3, <2>6, <2>7
<1>3. Past(g, pp, r + 1)
  BY <1>2 DEF Past, OneFrame
<1>4. \A i \in 1 .. Len(o) : Earlier(o[i], g)
  BY <1>2 DEF Earlier
<1> QED
  BY <1>3, <1>4, SlicesHand

(* H.264: all packets that were sent, the units that they complete.        *)
LogOK(pp, q) ==
  /\ Chain(pp) /\ SliceLog(sent, pp) /\ Counts(pp, q)
  /\ q[Len(pp)] + Len(stapANalu) <= Len(sent) * MaxUnits

(* While nothing is lost, the first r have arrived and the others are on   *)
(* their way.                                                              *)
WireOK(pp, r) ==
  /\ r \in 0 .. Len(pp) /\ wire \in Seq(RtpPacket) /\ r + Len(wire) = Len(pp)
  /\ \A i \in 1 .. Len(wire) : wire[i] = pp[r + i]

HandOK(pp, q, r) ==
  /\ fuaBuffer = IF r > 0 /\ Begun(pp[r]) THEN Pieces(pp[r]) ELSE <<>>
  /\ AllWhole(out) /\ buf \in Seq(Collectable) /\ \A i \in 1 .. Len(buf) : V!Whole(buf[i])
  /\ Len(buf) <= 1 + q[r]
  /\ SlicesOK(out, buf, pp, r)

H264OK(pp, q, r) == LogOK(pp, q) /\ WireOK(pp, r) /\ HandOK(pp, q, r)

LEMMA WeightFacts ==
  ASSUME NEW p \in RtpPacket
  PROVE  Weight(p) \in Nat
<1>1. Len(p.units) \in Nat
  BY LenProperties DEF RtpPacket
<1> QED
  BY <1>1 DEF Weight

(* The counts grow. *)
LEMMA CountsGrow ==
  ASSUME NEW pp \in Seq(RtpPacket), NEW q, Counts(pp, q), NEW n \in Nat, n = Len(pp), NEW r \in 0 .. n
  PROVE  q[r] \in Nat /\ q[n] \in Nat /\ q[r] <= q[n]
<1> DEFINE T == {j \in Nat : r + j <= n => q[r] <= q[r + j]}
<1>1. \A j \in 0 .. n : q[j] \in Nat
  BY DEF Counts
<1>2. 0 \in T
  <2>1. r + 0 = r /\ q[r] \in Nat
    BY <1>1
  <2>2. q[r] <= q[r]
    BY <2>1
  <2> QED
    BY <2>1, <2>2
<1>3. \A j \in Nat : j \in T => j + 1 \in T
  <2> SUFFICES ASSUME NEW j \in Nat, j \in T, r + (j + 1) <= n PROVE q[r] <= q[r + (j + 1)]
    OBVIOUS
  <2>1. r + j <= n /\ r + j \in 0 .. n /\ r + (j + 1) \in 1 .. n /\ (r + (j + 1)) - 1 = r + j
        /\ r + (j + 1) \in 0 .. n
    OBVIOUS
  <2>2. q[r] <= q[r + j]
    BY <2>1
  <2>3. q[r + j] + Weight(pp[r + (j + 1)]) <= q[r + (j + 1)]
    BY <2>1 DEF Counts
  <2>4. Weight(pp[r + (j + 1)]) \in Nat
    <3>1. pp[r + (j + 1)] \in RtpPacket
      BY <2>1, ElementOfSeq
    <3> QED
      BY <3>1, WeightFacts
  <2> QED
    BY <1>1, <2>1, <2>2, <2>3, <2>4
<1> HIDE DEF T
<1>4. Nat \subseteq T
  BY <1>2, <1>3, L!Induction
<1>5. n - r \in Nat /\ r + (n - r) = n
  OBVIOUS
<1>6. PICK j \in Nat : j \in T /\ r + j = n
  BY <1>4, <1>5
<1>7. q[r] <= q[n]
  BY <1>6 DEF T
<1>8. r \in 0 .. n /\ n \in 0 .. n
  OBVIOUS
<1> QED
  BY <1>1, <1>7, <1>8

(* What is collected is less than RTPDepay throws away. *)
LEMMA FewUnits ==
  ASSUME NEW a \in Nat, a <= MaxFrames, NEW x \in Nat, x <= a * MaxUnits
  PROVE  ~ (1 + x > MaxBuf)
<1>1. PICK f \in Nat, u \in Nat, b \in Nat : f = MaxFrames /\ u = MaxUnits /\ b = MaxBuf /\ f * u < b
  BY VideoAssumption
<1>2. a * u <= f * u /\ a * u \in Nat /\ f * u \in Nat
  BY <1>1, Scaled
<1> QED
  BY <1>1, <1>2

LEMMA PaddedWhole ==
  ASSUME NEW b \in Seq(Collectable), \A i \in 1 .. Len(b) : V!Whole(b[i]), NEW g, Padded(b, g)
  PROVE  g \in Seq(Collectable) /\ \A i \in 1 .. Len(g) : V!Whole(g[i])
<1>1. PICK lb \in Nat, lg \in Nat : lb = Len(b) /\ lg = Len(g)
  BY LenProperties DEF Padded
<1>2. \A i \in 1 .. lg : i \in 1 .. lb \/ i > lb
  OBVIOUS
<1> QED
  BY <1>1, <1>2 DEF Padded

LEMMA WholeMore ==
  ASSUME NEW g \in Seq(Collectable), \A i \in 1 .. Len(g) : V!Whole(g[i]),
         NEW s \in Collectable, V!Whole(s)
  PROVE  Append(g, s) \in Seq(Collectable) /\ \A i \in 1 .. Len(Append(g, s)) : V!Whole(Append(g, s)[i])
<1>1. PICK n \in Nat : n = Len(g)
  BY LenProperties
<1>2. PICK h : h = Append(g, s)
  OBVIOUS
<1>3. h \in Seq(Collectable) /\ Len(h) = n + 1 /\ h[n + 1] = s /\ \A i \in 1 .. n : h[i] = g[i]
  BY <1>1, <1>2, AppendProperties
<1>4. \A i \in 1 .. n + 1 : i \in 1 .. n \/ i = n + 1
  OBVIOUS
<1> QED
  BY <1>1, <1>2, <1>3, <1>4

(* The packet that comes next. *)
LEMMA NextPacket ==
  ASSUME NEW pp, NEW q, NEW r, H264OK(pp, q, r), V!Receive
  PROVE  /\ r \in Nat /\ r + 1 \in 1 .. Len(pp) /\ Head(wire) = pp[r + 1]
         /\ WireOK(pp, r + 1)'
         /\ PacketOK(pp[r + 1]) /\ BegunBefore(fuaBuffer, pp[r + 1])
<1>1. PICK l \in Nat : l = Len(pp)
  BY LenProperties DEF H264OK, LogOK, Chain
<1>2. PICK m \in Nat \ {0} : m = Len(wire) /\ wire \in Seq(RtpPacket) /\ wire # <<>>
  BY EmptySeq DEF H264OK, WireOK, V!Receive
<1>3. r \in 0 .. l /\ r + m = l /\ \A i \in 1 .. m : wire[i] = pp[r + i]
  BY <1>1, <1>2 DEF H264OK, WireOK
<1>4. r \in Nat /\ r + 1 \in 1 .. l /\ r + 1 \in 0 .. l
  BY <1>3
<1>5. Head(wire) = pp[r + 1]
  <2>1. Head(wire) = wire[1] /\ 1 \in 1 .. m
    BY <1>2
  <2> QED
    BY <1>3, <2>1
<1>6. WireOK(pp, r + 1)'
  <2>1. /\ wire' \in Seq(RtpPacket) /\ Len(wire') = m - 1
        /\ \A i \in 1 .. m - 1 : wire'[i] = wire[i + 1] /\ i + 1 \in 1 .. m
    BY <1>2, HeadTailProperties DEF V!Receive
  <2>2. (r + 1) + (m - 1) = l /\ \A i \in 1 .. m - 1 : r + (i + 1) = (r + 1) + i
    BY <1>3, <1>4
  <2>3. \A i \in 1 .. m - 1 : wire'[i] = pp[(r + 1) + i]
    BY <1>3, <2>1, <2>2
  <2> QED
    BY <1>1, <1>4, <2>1, <2>2, <2>3 DEF WireOK
<1>7. /\ PacketOK(pp[r + 1])
      /\ pp[r + 1].k > 1 => r \in 1 .. l /\ Continues(pp[r], pp[r + 1])
  <2>1. (r + 1) - 1 = r
    BY <1>4
  <2> QED
    BY <1>1, <1>4, <2>1 DEF H264OK, LogOK, Chain
<1>8. r > 0 => PacketOK(pp[r]) /\ (Begun(pp[r]) => Continues(pp[r], pp[r + 1]))
  <2>1. r > 0 => r \in 1 .. l
    BY <1>3
  <2> QED
    BY <1>1, <2>1 DEF H264OK, LogOK, Chain
<1>9. fuaBuffer = IF r > 0 /\ Begun(pp[r]) THEN Pieces(pp[r]) ELSE <<>>
  BY DEF H264OK, HandOK
<1>a. /\ pp[r + 1].k \in Nat \ {0} /\ pp[r + 1].n \in Nat /\ pp[r + 1].k <= pp[r + 1].n
      /\ r > 0 => pp[r].k \in Nat \ {0} /\ pp[r].n \in Nat
  BY <1>7, <1>8, PiecesFacts
<1>b. ASSUME pp[r + 1].k = 1 PROVE fuaBuffer = <<>>
  <2>1. ASSUME r > 0, Begun(pp[r]) PROVE FALSE
    <3>1. pp[r + 1].k = pp[r].k + 1 /\ pp[r].k \in Nat \ {0}
      BY <1>8, <1>a, <2>1 DEF Continues
    <3> QED
      BY <1>b, <3>1
  <2> QED
    BY <1>9, <2>1
<1>c. ASSUME pp[r + 1].k > 1
      PROVE  PacketOK(pp[r]) /\ Continues(pp[r], pp[r + 1]) /\ fuaBuffer = Pieces(pp[r])
  <2>1. r > 0 /\ Continues(pp[r], pp[r + 1])
    BY <1>7, <1>c
  <2>2. Begun(pp[r])
    BY <1>a, <2>1 DEF Continues, Begun
  <2> QED
    BY <1>8, <1>9, <2>1, <2>2
<1> QED
  BY <1>1, <1>4, <1>5, <1>6, <1>7, <1>b, <1>c DEF BegunBefore

LEMMA ReceiveH264 ==
  ASSUME SentOK, HeldOK, codec = "H264", NEW pp, NEW q, NEW r, H264OK(pp, q, r), V!Receive
  PROVE  H264OK(pp, q, r + 1)'
<1>1. /\ r \in Nat /\ r + 1 \in 1 .. Len(pp) /\ Head(wire) = pp[r + 1]
      /\ WireOK(pp, r + 1)'
      /\ PacketOK(pp[r + 1]) /\ BegunBefore(fuaBuffer, pp[r + 1])
  BY NextPacket
<1>2. PICK l \in Nat : l = Len(pp) /\ pp \in Seq(RtpPacket)
  BY LenProperties DEF H264OK, LogOK, Chain
<1>3. PICK p : p = pp[r + 1]
  OBVIOUS
<1>4. V!DepayH264(p) /\ UNCHANGED <<codec, camera, sent, stapANalu, number>>
  BY <1>1, <1>3 DEF V!Receive
<1>5. AllWhole(out) /\ buf \in Seq(Collectable) /\ \A i \in 1 .. Len(buf) : V!Whole(buf[i])
  BY DEF H264OK, HandOK
<1>6. PICK a \in Nat, x \in Nat, y \in Nat, b \in Nat :
        /\ a = q[r] /\ x = q[l] /\ y = q[r + 1] /\ b = Len(buf)
        /\ a <= x /\ b <= 1 + a /\ a + Weight(p) <= y
  <2>1. Counts(pp, q) /\ Len(buf) <= 1 + q[r]
    BY DEF H264OK, LogOK, HandOK
  <2>2. r \in 0 .. l /\ r + 1 \in 0 .. l /\ r + 1 \in 1 .. l /\ (r + 1) - 1 = r
    BY <1>1, <1>2
  <2>3. q[r] \in Nat /\ q[l] \in Nat /\ q[r] <= q[l] /\ q[r + 1] \in Nat
    BY <1>2, <2>1, <2>2, CountsGrow
  <2>4. q[r] + Weight(p) <= q[r + 1]
    BY <1>2, <1>3, <2>1, <2>2 DEF Counts
  <2>5. Len(buf) \in Nat
    BY <1>5, LenProperties
  <2> QED
    BY <2>1, <2>3, <2>4, <2>5
<1>7. ~ (Len(buf) > MaxBuf)
  <2>1. PICK s \in Nat, h \in Nat : s = Len(sent) /\ h = Len(stapANalu) /\ s <= MaxFrames
    BY LenProperties DEF SentOK, HeldOK
  <2>2. x + h <= s * MaxUnits
    BY <1>2, <1>6, <2>1 DEF H264OK, LogOK
  <2>3. s * MaxUnits \in Nat /\ MaxBuf \in Nat
    BY <2>1, VideoAssumption
  <2>4. x <= s * MaxUnits
    BY <2>2, <2>3
  <2>5. ~ (1 + x > MaxBuf)
    BY <2>1, <2>4, FewUnits
  <2> QED
    BY <1>6, <2>3, <2>5
<1>8. /\ fuaBuffer' = IF Begun(p) THEN Pieces(p) ELSE <<>>
      /\ \E g : Padded(buf, g) /\ Does(p, g)
      /\ buf' \in Seq(Collectable) /\ Weight(p) \in Nat
      /\ Len(buf') <= 1 + Weight(p) \/ Len(buf') <= Len(buf) + Weight(p)
  BY <1>1, <1>3, <1>4, <1>5, <1>7, DepayCases
<1>9. Len(buf') <= 1 + y
  <2>1. PICK w \in Nat, z \in Nat : w = Weight(p) /\ z = Len(buf')
    BY <1>8, LenProperties
  <2>2. a + w <= y /\ b <= 1 + a /\ (z <= 1 + w \/ z <= b + w)
    BY <1>6, <1>8, <2>1
  <2>3. z <= 1 + y
    BY <2>2
  <2> QED
    BY <2>1, <2>3
<1>a. PICK g : Padded(buf, g) /\ Does(p, g)
  BY <1>8
<1>b. g \in Seq(Collectable) /\ \A i \in 1 .. Len(g) : V!Whole(g[i])
  BY <1>5, <1>a, PaddedWhole
<1>c. SlicesOK(out, g, pp, r)
  BY <1>5, <1>a, PaddedOK DEF H264OK, HandOK
<1>d. EndsInOrder(pp) /\ EndsMarked(pp) /\ MarksEnd(pp) /\ Chain(pp)
  BY DEF H264OK, LogOK, SliceLog
<1>e. out \in Seq(Seq(Collectable))
  BY <1>5 DEF AllWhole
<1>f. PICK e : e = <<>>
  OBVIOUS
<1>g. \A i \in 1 .. Len(e) : V!Whole(e[i])
  <2>1. 1 .. Len(e) = {}
    BY <1>f
  <2> QED
    BY <2>1
<1>h. /\ AllWhole(out') /\ \A i \in 1 .. Len(buf') : V!Whole(buf'[i])
      /\ SlicesOK(out', buf', pp, r + 1)
  <2>1. CASE Stays(p, g)
    <3>1. SlicesOK(out, g, pp, r + 1)
      BY <1>1, <1>3, <1>c, <1>d, <2>1, SlicesStay DEF Stays
    <3> QED
      BY <1>5, <1>b, <2>1, <3>1 DEF Stays
  <2>2. CASE Passes(p, g)
    <3>1. ~ SliceEnd(pp[r + 1]) /\ pp[r + 1].marker /\ pp[r + 1].units[1].kind \notin V!PS
      BY <1>3, <2>2 DEF Passes
    <3>2. SlicesOK(Append(out, g), <<>>, pp, r + 1)
      BY <1>1, <1>b, <1>c, <1>d, <1>e, <3>1, SlicesPass
    <3>3. AllWhole(Append(out, g))
      BY <1>5, <1>b, HandedMore
    <3>4. buf' = e /\ out' = Append(out, g)
      BY <1>f, <2>2 DEF Passes
    <3> QED
      BY <1>f, <1>g, <3>2, <3>3, <3>4
  <2>3. ASSUME NEW s, Adds(p, g, s)
        PROVE  /\ AllWhole(out') /\ \A i \in 1 .. Len(buf') : V!Whole(buf'[i])
               /\ SlicesOK(out', buf', pp, r + 1)
    <3>1. SliceOf(pp[r + 1], s) /\ ~ pp[r + 1].marker /\ s \in Collectable /\ V!Whole(s)
      BY <1>3, <2>3 DEF Adds, SliceOf
    <3>2. SlicesOK(out, Append(g, s), pp, r + 1)
      BY <1>1, <1>b, <1>c, <1>d, <3>1, SlicesAdd
    <3>3. \A i \in 1 .. Len(Append(g, s)) : V!Whole(Append(g, s)[i])
      BY <1>b, <3>1, WholeMore
    <3> QED
      BY <1>5, <2>3, <3>2, <3>3 DEF Adds
  <2>4. ASSUME NEW s, Ends(p, g, s)
        PROVE  /\ AllWhole(out') /\ \A i \in 1 .. Len(buf') : V!Whole(buf'[i])
               /\ SlicesOK(out', buf', pp, r + 1)
    <3>1. SliceOf(pp[r + 1], s) /\ pp[r + 1].marker /\ s \in Collectable /\ V!Whole(s)
      BY <1>3, <2>4 DEF Ends, SliceOf
    <3>2. SlicesOK(Append(out, Append(g, s)), <<>>, pp, r + 1)
      BY <1>1, <1>b, <1>c, <1>d, <1>e, <3>1, SlicesEnd
    <3>3. PICK h : h = Append(g, s)
      OBVIOUS
    <3>4. h \in Seq(Collectable) /\ \A i \in 1 .. Len(h) : V!Whole(h[i])
      BY <1>b, <3>1, <3>3, WholeMore
    <3>5. AllWhole(Append(out, h))
      BY <1>5, <3>4, HandedMore
    <3>6. buf' = e /\ out' = Append(out, h)
      BY <1>f, <2>4, <3>3 DEF Ends
    <3> QED
      BY <1>f, <1>g, <3>2, <3>3, <3>5, <3>6
  <2> QED
    BY <1>a, <2>1, <2>2, <2>3, <2>4 DEF Does
<1>i. LogOK(pp, q)'
  <2>1. Chain(pp)'
    BY <1>4 DEF H264OK, LogOK, Chain, PacketOK, Continues, Begun
  <2> QED
    BY <1>4, <2>1 DEF H264OK, LogOK
<1>j. fuaBuffer' = IF r + 1 > 0 /\ Begun(pp[r + 1]) THEN Pieces(pp[r + 1]) ELSE <<>>
  <2>1. r + 1 > 0
    BY <1>1
  <2> QED
    BY <1>3, <1>8, <2>1
<1>k. HandOK(pp, q, r + 1)'
  BY <1>6, <1>8, <1>9, <1>h, <1>j DEF HandOK
<1> QED
  BY <1>1, <1>i, <1>k DEF H264OK

(* More packets, of a later frame. *)
LEMMA SlicesLonger ==
  ASSUME NEW o, NEW b, NEW pp, NEW r, SlicesOK(o, b, pp, r),
         NEW lp \in Nat, lp = Len(pp), r \in 0 .. lp, NEW qq, NEW f \in Nat,
         \A j \in 1 .. lp : qq[j] = pp[j] /\ (SliceEnd(pp[j]) => FrameOf(pp[j]) < f),
         \A j \in 1 .. Len(qq) : j \notin 1 .. lp /\ SliceEnd(qq[j]) => FrameOf(qq[j]) = f
  PROVE  SlicesOK(o, b, qq, r)
<1>1. \A j \in 1 .. r : j \in 1 .. lp /\ qq[j] = pp[j]
  OBVIOUS
<1>2. \A j \in 1 .. r : \A m \in j .. r : m \in 1 .. r
  OBVIOUS
<1>3. Holds(b, qq, r)
  <2>1. OneFrame(b)
    BY DEF SlicesOK, Holds
  <2>2. ASSUME NEW x \in V!Slices(b)
        PROVE  \E j \in 1 .. r : /\ EndOf(qq[j], V!Name(b[x]))
                                 /\ \A m \in j .. r : ~ (SliceEnd(qq[m]) /\ qq[m].marker)
    <3>1. PICK j \in 1 .. r : /\ EndOf(pp[j], V!Name(b[x]))
                              /\ \A m \in j .. r : ~ (SliceEnd(pp[m]) /\ pp[m].marker)
      BY DEF SlicesOK, Holds
    <3> QED
      BY <1>1, <1>2, <3>1
  <2> QED
    BY <2>1, <2>2 DEF Holds
<1>4. ASSUME NEW i \in 1 .. Len(o) PROVE Past(o[i], qq, r)
  <2>1. Past(o[i], pp, r)
    BY DEF SlicesOK
  <2>2. ASSUME NEW x \in V!Slices(o[i])
        PROVE  /\ \E j \in 1 .. r : EndOf(qq[j], V!Name(o[i][x]))
               /\ \A j \in r + 1 .. Len(qq) : SliceEnd(qq[j]) => V!Name(o[i][x])[1] < FrameOf(qq[j])
    <3>1. PICK j \in 1 .. r : EndOf(pp[j], V!Name(o[i][x]))
      BY <2>1 DEF Past
    <3>2. V!Name(o[i][x])[1] < f
      BY <1>1, <3>1 DEF EndOf, FrameOf
    <3>3. ASSUME NEW h \in r + 1 .. Len(qq), SliceEnd(qq[h]) PROVE V!Name(o[i][x])[1] < FrameOf(qq[h])
      <4>1. CASE h \in 1 .. lp
        <5>1. h \in r + 1 .. lp
          BY <4>1
        <5> QED
          BY <2>1, <3>3, <4>1, <5>1 DEF Past
      <4>2. CASE h \notin 1 .. lp
        <5>1. h \in 1 .. Len(qq)
          OBVIOUS
        <5>2. FrameOf(qq[h]) = f
          BY <3>3, <4>2, <5>1
        <5> QED
          BY <3>2, <5>2
      <4> QED
        BY <4>1, <4>2
    <3> QED
      BY <1>1, <3>1, <3>3
  <2> QED
    BY <2>1, <2>2 DEF Past
<1>5. \A j \in 1 .. r : SliceEnd(qq[j]) =>
        Has(b, qq[j].units[1].id) \/ \E i \in 1 .. Len(o) : Has(o[i], qq[j].units[1].id)
  BY <1>1 DEF SlicesOK
<1> QED
  BY <1>3, <1>4, <1>5 DEF SlicesOK

LEMMA SendH264 ==
  ASSUME CodecOK, SentOK, HeldOK, codec = "H264", UNCHANGED <<codec, camera, fuaBuffer, buf, out>>,
         NEW units, NEW paid, Sends(units, paid), NEW pp, NEW q, NEW r, H264OK(pp, q, r)
  PROVE  \E qq, c : H264OK(qq, c, r)'
<1>1. PICK new : new = V!Numbered(paid.packets)
  OBVIOUS
<1>2. PICK lp \in Nat, lq \in Nat, lw \in Nat : lp = Len(pp) /\ lq = Len(paid.packets) /\ lw = Len(wire)
  <2>1. Len(pp) \in Nat /\ Len(paid.packets) \in Nat /\ Len(wire) \in Nat
    BY LenProperties DEF H264OK, LogOK, WireOK, Chain, Sends, PaidFor
  <2> QED
    BY <2>1
<1>3. /\ SamePackets(paid.packets, new) /\ Chain(new) /\ Len(new) = lq
      /\ \A j \in 1 .. lq : new[j].marker = (j = lq \/ (camera /\ paid.packets[j].units[1].kind \in V!PS))
  BY <1>1, <1>2, NumberedFacts DEF Sends, PaidFor, CodecOK, SamePackets
<1>4. PICK qq : qq = pp \o new
  OBVIOUS
<1>5. Chain(pp) /\ pp \in Seq(RtpPacket) /\ new \in Seq(RtpPacket) /\ wire \in Seq(RtpPacket) /\ Chain(qq)
  BY <1>3, <1>4, ChainConcat DEF H264OK, LogOK, WireOK, Chain
<1>6. PICK w : w = wire \o new
  OBVIOUS
<1>7. /\ Len(qq) = lp + lq
      /\ \A j \in 1 .. lp : qq[j] = pp[j]
      /\ \A j \in 1 .. lq : qq[lp + j] = new[j]
      /\ \A j \in 1 .. Len(qq) : j \in 1 .. lp \/ (j - lp \in 1 .. lq /\ j = lp + (j - lp))
  <2>1. PICK a \in Nat, b \in Nat : a = Len(pp) /\ b = Len(new)
    BY <1>5, LenProperties
  <2>2. pp \in Seq(RtpPacket) /\ new \in Seq(RtpPacket)
    BY <1>5
  <2>3. /\ Len(qq) = a + b
        /\ \A j \in 1 .. a : j \in 1 .. Len(qq) /\ qq[j] = pp[j]
        /\ \A j \in 1 .. b : a + j \in 1 .. Len(qq) /\ qq[a + j] = new[j]
        /\ \A j \in 1 .. Len(qq) : j \in 1 .. a \/ (j - a \in 1 .. b /\ j = a + (j - a))
    BY ONLY <1>4, <2>1, <2>2, Joined
  <2> QED
    BY <1>2, <1>3, <2>1, <2>3
<1>8. /\ w \in Seq(RtpPacket) /\ Len(w) = lw + lq
      /\ \A j \in 1 .. lw : w[j] = wire[j]
      /\ \A j \in 1 .. lq : w[lw + j] = new[j]
      /\ \A j \in 1 .. Len(w) : j \in 1 .. lw \/ (j - lw \in 1 .. lq /\ j = lw + (j - lw))
  <2>1. PICK a \in Nat, b \in Nat : a = Len(wire) /\ b = Len(new)
    BY <1>5, LenProperties
  <2>2. wire \in Seq(RtpPacket) /\ new \in Seq(RtpPacket)
    BY <1>5
  <2>3. /\ w \in Seq(RtpPacket) /\ Len(w) = a + b
        /\ \A j \in 1 .. a : j \in 1 .. Len(w) /\ w[j] = wire[j]
        /\ \A j \in 1 .. b : a + j \in 1 .. Len(w) /\ w[a + j] = new[j]
        /\ \A j \in 1 .. Len(w) : j \in 1 .. a \/ (j - a \in 1 .. b /\ j = a + (j - a))
    BY ONLY <1>6, <2>1, <2>2, Joined
  <2> QED
    BY <1>2, <1>3, <2>1, <2>3
<1>9. PICK s \in Nat, u \in Nat, l \in Nat, h \in Nat, hh \in Nat :
        /\ s = Len(sent) /\ u = MaxUnits /\ l = Len(units) /\ l <= u
        /\ h = Len(stapANalu) /\ hh = Len(paid.held) /\ Len(sent') = s + 1
  <2>1. Len(sent) \in Nat /\ MaxUnits \in Nat /\ Len(stapANalu) \in Nat /\ Len(paid.held) \in Nat
    BY LenProperties, VideoAssumption DEF SentOK, HeldOK, Sends, PaidFor, PayState
  <2>2. Len(sent') = Len(sent) + 1 /\ Len(units) \in Nat /\ Len(units) <= MaxUnits
    BY <2>1, AppendProperties, LenProperties DEF SentOK, Sends, Named
  <2> QED
    BY <2>1, <2>2
<1>a. /\ Named(units, s + 1) /\ SlicesPaid(units, l, paid.packets)
      /\ \A i \in 1 .. Len(units) : units[i].kind \in V!Slice => units[Len(units)].kind \in V!Slice
      /\ SlicesPaid(units, l, new)
  BY <1>3, <1>9, AlikeSlices DEF Sends, PaidFor
<1>b. SliceLog(sent', qq)
  <2>1. \A j \in 1 .. Len(new) : new[j].marker = (j = Len(new) \/ (camera /\ new[j].units[1].kind \in V!PS))
    BY <1>2, <1>3 DEF SamePackets
  <2>2. SliceLog(sent, pp) /\ camera \in BOOLEAN /\ sent \in Seq(Seq(NalUnit))
    BY DEF H264OK, LogOK, CodecOK, SentOK
  <2>3. SlicesPaid(units, Len(units), new)
    BY <1>9, <1>a
  <2>4. SliceLog(Append(sent, units), pp \o new)
    BY <1>3, <1>5, <1>9, <1>a, <2>1, <2>2, <2>3, SliceLogJoin
  <2> QED
    BY <1>4, <2>4 DEF Sends
<1>c. PICK c : /\ Counts(qq, c) /\ \A j \in 0 .. lp : c[j] = q[j]
               /\ c[lp + lq] + hh <= (s + 1) * u
  <2>1. PICK v \in Nat : Paid(paid.packets, v) /\ v + hh <= h + l
    BY <1>9 DEF Sends, PaidFor
  <2>2. Paid(new, v)
    BY <1>3, <2>1, AlikeSlices
  <2>3. PICK b : Counts(new, b) /\ b[lq] <= v
    BY <1>3, <2>2 DEF Paid
  <2>4. Counts(pp, q) /\ q[lp] + h <= s * u
    BY <1>2, <1>9 DEF H264OK, LogOK
  <2>5. PICK c : /\ Counts(qq, c) /\ c[lp + lq] = q[lp] + b[lq] - b[0]
                 /\ \A j \in 0 .. lp : c[j] = q[j]
    <3>1. \E c : /\ Counts(pp \o new, c) /\ c[lp + lq] = q[lp] + b[lq] - b[0]
                 /\ \A j \in 0 .. lp : c[j] = q[j]
      <4>1. PICK a \in Nat, d \in Nat : a = Len(pp) /\ d = Len(new)
        BY <1>5, LenProperties
      <4>2. pp \in Seq(RtpPacket) /\ new \in Seq(RtpPacket) /\ Counts(pp, q) /\ Counts(new, b)
        BY <1>5, <2>3, <2>4
      <4>3. \E c : CountsOn(pp \o new, c, q, b, a, d)
        BY ONLY <4>1, <4>2, CountsJoin
      <4>4. a = lp /\ d = lq
        BY <1>2, <1>3, <4>1
      <4> QED
        BY <4>3, <4>4 DEF CountsOn
    <3> QED
      BY <1>4, <3>1
  <2>6. lp \in 0 .. lp /\ lq \in 0 .. lq /\ 0 \in 0 .. lq
    OBVIOUS
  <2>7. PICK x \in Nat, y \in Nat, z \in Nat : x = q[lp] /\ y = b[lq] /\ z = b[0]
    BY <1>2, <1>3, <2>3, <2>4, <2>6 DEF Counts
  <2>8. (s + 1) * u = s * u + u /\ s * u \in Nat
    BY OneMore
  <2>9. PICK t \in Nat : t = s * u
    BY <2>8
  <2>a. x + h <= t /\ y <= v /\ v + hh <= h + l /\ l <= u
    BY <1>9, <2>1, <2>3, <2>4, <2>7, <2>9
  <2>b. x + y - z + hh <= t + u
    BY <2>a
  <2>c. x + y - z + hh <= (s + 1) * u
    BY <2>8, <2>9, <2>b
  <2> QED
    BY <2>5, <2>7, <2>c
<1>d. LogOK(qq, c)'
  <2>1. Chain(qq)'
    BY <1>5 DEF Chain, PacketOK, Continues, Begun
  <2>2. stapANalu' = paid.held
    BY DEF Sends
  <2> QED
    BY <1>7, <1>9, <1>b, <1>c, <2>1, <2>2 DEF LogOK
<1>e. r \in 0 .. lp /\ r + lw = lp /\ \A i \in 1 .. lw : wire[i] = pp[r + i]
  BY <1>2 DEF H264OK, WireOK
<1>f. WireOK(qq, r)'
  <2>1. wire' = w
    BY <1>1, <1>6 DEF Sends
  <2>2. ASSUME NEW i \in 1 .. Len(w) PROVE w[i] = qq[r + i]
    <3>1. CASE i \in 1 .. lw
      <4>1. r + i \in 1 .. lp
        BY <1>e, <3>1
      <4> QED
        BY <1>7, <1>8, <1>e, <3>1, <4>1
    <3>2. CASE i - lw \in 1 .. lq /\ i = lw + (i - lw)
      <4>1. PICK j \in 1 .. lq : i = lw + j
        BY <3>2
      <4>2. r + i = lp + j
        BY <1>e, <4>1
      <4> QED
        BY <1>7, <1>8, <4>1, <4>2
    <3> QED
      BY <1>8, <3>1, <3>2
  <2>3. r \in 0 .. lp + lq /\ r + (lw + lq) = lp + lq
    BY <1>e
  <2> QED
    BY <1>7, <1>8, <2>1, <2>2, <2>3 DEF WireOK
<1>g. SlicesOK(out, buf, qq, r)
  <2>1. SlicesOK(out, buf, pp, r)
    BY DEF H264OK, HandOK
  <2>2. ASSUME NEW j \in 1 .. lp PROVE qq[j] = pp[j] /\ (SliceEnd(pp[j]) => FrameOf(pp[j]) < s + 1)
    <3>1. SliceEnd(pp[j]) => FrameOf(pp[j]) \in 1 .. s
      BY <1>2, <1>9 DEF H264OK, LogOK, SliceLog, EndsOf
    <3> QED
      BY <1>7, <3>1
  <2>3. ASSUME NEW j \in 1 .. Len(qq), j \notin 1 .. lp, SliceEnd(qq[j]) PROVE FrameOf(qq[j]) = s + 1
    <3>1. j - lp \in 1 .. lq /\ j = lp + (j - lp)
      BY <1>7, <2>3
    <3>2. PICK i \in 1 .. lq : j = lp + i
      BY <3>1
    <3>3. qq[j] = new[i] /\ SliceEnd(new[i])
      BY <1>7, <2>3, <3>2
    <3>4. PICK x \in 1 .. l : new[i].units[1] = units[x]
      BY <1>3, <1>a, <3>3 DEF SlicesPaid
    <3>5. units[x].id[1] = s + 1
      BY <1>9, <1>a, <3>4 DEF Named
    <3> QED
      BY <3>3, <3>4, <3>5 DEF FrameOf
  <2>4. s + 1 \in Nat
    OBVIOUS
  <2> QED
    BY <1>2, <1>e, <2>1, <2>2, <2>3, <2>4, SlicesLonger
<1>h. HandOK(qq, c, r)'
  <2>1. /\ fuaBuffer = IF r > 0 /\ Begun(pp[r]) THEN Pieces(pp[r]) ELSE <<>>
        /\ AllWhole(out) /\ buf \in Seq(Collectable) /\ \A i \in 1 .. Len(buf) : V!Whole(buf[i])
        /\ Len(buf) <= 1 + q[r]
    BY DEF H264OK, HandOK
  <2>2. r > 0 => qq[r] = pp[r]
    BY <1>7, <1>e
  <2>3. c[r] = q[r]
    BY <1>c, <1>e
  <2>4. fuaBuffer = IF r > 0 /\ Begun(qq[r]) THEN Pieces(qq[r]) ELSE <<>>
    BY <2>1, <2>2
  <2> QED
    BY <1>g, <2>1, <2>3, <2>4 DEF HandOK
<1> QED
  BY <1>d, <1>f, <1>h DEF H264OK

(* What holds in every state. *)
VideoInv ==
  /\ CodecOK /\ HeldOK /\ SentOK
  /\ codec = "H265" => \E pp : H265OK(pp)
  /\ codec = "H264" /\ faults = 0 => \E pp, q, r : H264OK(pp, q, r)

(* Nothing is sent. *)
LEMMA VideoBegins ==
  ASSUME V!Init
  PROVE  VideoInv
<1>1. PICK e : e = <<>>
  OBVIOUS
<1>2. /\ \A T : e \in Seq(T)
      /\ Len(e) = 0
  BY <1>1, EmptySeq
<1>3. 1 .. 0 = {} /\ 0 \in 0 .. 0
  OBVIOUS
<1>4. /\ sent = e /\ wire = e /\ stapANalu = e /\ fuaBuffer = e /\ buf = e /\ out = e
      /\ faults = 0 /\ seqNum = 0 /\ number = Numbers - 2
      /\ codec \in {"H264", "H265"} /\ camera \in BOOLEAN
  BY <1>1 DEF V!Init
<1>5. number \in Nat /\ number = SeqOf(0)
  BY <1>4, VideoAssumption DEF SeqOf
<1>6. CodecOK /\ HeldOK /\ SentOK
  <2>1. SentOK
    BY <1>2, <1>4, VideoAssumption DEF SentOK
  <2>2. HeldOK
    BY <1>1, <1>2, <1>3, <1>4 DEF HeldOK
  <2> QED
    BY <1>4, <1>5, <2>1, <2>2 DEF CodecOK
<1>7. Chain(e) /\ AllWhole(out)
  BY <1>1, <1>2, <1>3, <1>4, ChainEmpty DEF AllWhole
<1>8. MaxUnits \in Nat /\ MaxLen \in Nat /\ MaxUnits * MaxLen \in Nat
  BY VideoAssumption
<1>9. 0 * (MaxUnits * MaxLen) = 0 /\ 0 * MaxUnits = 0
  BY <1>8
<1>a. H265OK(e)
  <2>1. NumbersOf(e)
    BY <1>2, <1>3, <1>4, <1>5, <1>9 DEF NumbersOf
  <2>2. SomeOf(wire, e)
    BY <1>2, <1>3, <1>4 DEF SomeOf
  <2>3. GatheredOf(e)
    BY <1>1, <1>2, <1>4, <1>7 DEF GatheredOf
  <2> QED
    BY <1>7, <2>1, <2>2, <2>3 DEF H265OK
<1>b. PICK q : Counts(e, q) /\ q[0] = 0
  <2>1. PICK q : Counts(e, q) /\ q[0] <= 0
    BY <1>1, <1>2, PaidEmpty DEF Paid
  <2>2. q[0] \in Nat
    BY <1>2, <1>3, <2>1 DEF Counts
  <2> QED
    BY <2>1, <2>2
<1>c. H264OK(e, q, 0)
  <2>1. SliceLog(sent, e)
    BY <1>2, <1>3, <1>4 DEF SliceLog, EndsInOrder, EndsMarked, MarksEnd, EndsOf
  <2>2. LogOK(e, q)
    BY <1>2, <1>4, <1>7, <1>9, <1>b, <2>1 DEF LogOK
  <2>3. WireOK(e, 0)
    BY <1>2, <1>3, <1>4 DEF WireOK
  <2>4. V!Slices(e) = {}
    BY <1>2, <1>3 DEF V!Slices
  <2>5. SlicesOK(e, e, e, 0)
    BY <1>2, <1>3, <2>4 DEF SlicesOK, Holds, OneFrame
  <2>6. HandOK(e, q, 0)
    BY <1>1, <1>2, <1>3, <1>4, <1>7, <1>b, <2>5 DEF HandOK
  <2> QED
    BY <2>2, <2>3, <2>6 DEF H264OK
<1> QED
  BY <1>6, <1>a, <1>c DEF VideoInv

LEMMA VideoStep ==
  ASSUME VideoInv, [V!Next]_rtpVars
  PROVE  VideoInv'
<1>1. CASE V!Send
  <2>1. PICK units, paid : Sends(units, paid)
    BY <1>1, SendFacts DEF VideoInv
  <2>2. UNCHANGED <<codec, camera, faults, fuaBuffer, seqNum, buf, out>>
    BY <1>1, SendFacts DEF VideoInv
  <2>3. CodecOK' /\ HeldOK' /\ SentOK'
    BY <2>1, <2>2, SendKeeps DEF VideoInv
  <2>4. ASSUME codec = "H265" PROVE \E qq : H265OK(qq)'
    <3>1. PICK pp : H265OK(pp)
      BY <2>4 DEF VideoInv
    <3> QED
      BY <2>1, <2>2, <2>3, <2>4, <3>1, SendH265 DEF VideoInv
  <2>5. ASSUME codec = "H264", faults = 0 PROVE \E qq, c, r : H264OK(qq, c, r)'
    <3>1. PICK pp, q, r : H264OK(pp, q, r)
      BY <2>5 DEF VideoInv
    <3>2. \E qq, c : H264OK(qq, c, r)'
      BY <2>1, <2>2, <2>5, <3>1, SendH264 DEF VideoInv
    <3> QED
      BY <3>2
  <2> QED
    BY <2>2, <2>3, <2>4, <2>5 DEF VideoInv
<1>2. CASE V!Fault
  <2>1. /\ UNCHANGED <<codec, camera, sent, stapANalu, number>>
        /\ faults' = faults + 1 /\ faults \in Nat
    BY <1>2 DEF V!Fault, VideoInv, CodecOK
  <2>2. faults' # 0 /\ faults' \in Nat
    BY <2>1
  <2>3. CodecOK' /\ HeldOK' /\ SentOK'
    BY <2>1, <2>2 DEF VideoInv, CodecOK, HeldOK, SentOK
  <2>4. ASSUME codec = "H265" PROVE \E qq : H265OK(qq)'
    <3>1. PICK pp : H265OK(pp)
      BY <2>4 DEF VideoInv
    <3> QED
      BY <1>2, <2>4, <3>1, FaultH265
  <2> QED
    BY <2>1, <2>2, <2>3, <2>4 DEF VideoInv
<1>3. CASE V!Receive
  <2>1. UNCHANGED <<codec, camera, sent, stapANalu, number, faults>>
    BY <1>3 DEF V!Receive
  <2>2. CodecOK' /\ HeldOK' /\ SentOK'
    BY <2>1 DEF VideoInv, CodecOK, HeldOK, SentOK
  <2>3. ASSUME codec = "H265" PROVE \E qq : H265OK(qq)'
    <3>1. PICK pp : H265OK(pp)
      BY <2>3 DEF VideoInv
    <3> QED
      BY <1>3, <2>3, <3>1, ReceiveH265 DEF VideoInv
  <2>4. ASSUME codec = "H264", faults = 0 PROVE \E qq, c, r : H264OK(qq, c, r)'
    <3>1. PICK pp, q, r : H264OK(pp, q, r)
      BY <2>4 DEF VideoInv
    <3>2. H264OK(pp, q, r + 1)'
      BY <1>3, <2>4, <3>1, ReceiveH264 DEF VideoInv
    <3> QED
      BY <3>2
  <2> QED
    BY <2>1, <2>2, <2>3, <2>4 DEF VideoInv
<1>4. CASE UNCHANGED rtpVars
  <2>1. UNCHANGED <<codec, camera, sent, stapANalu, number, wire, faults, fuaBuffer, seqNum, buf, out>>
    BY <1>4 DEF rtpVars
  <2>2. CodecOK' /\ HeldOK' /\ SentOK'
    BY <2>1 DEF VideoInv, CodecOK, HeldOK, SentOK
  <2>3. ASSUME NEW pp, Chain(pp) PROVE Chain(pp)'
    BY <2>1, <2>3 DEF Chain, PacketOK, Continues, Begun
  <2>4. ASSUME NEW pp, H265OK(pp) PROVE H265OK(pp)'
    BY <2>1, <2>3, <2>4 DEF H265OK, NumbersOf, SomeOf, GatheredOf
  <2>5. ASSUME NEW pp, NEW q, NEW r, H264OK(pp, q, r) PROVE H264OK(pp, q, r)'
    BY <2>1, <2>3, <2>5 DEF H264OK, LogOK, WireOK, HandOK
  <2>6. codec = "H265" => \E pp : H265OK(pp)'
    BY <2>4 DEF VideoInv
  <2>7. codec = "H264" /\ faults = 0 => \E pp, q, r : H264OK(pp, q, r)'
    BY <2>5 DEF VideoInv
  <2> QED
    BY <2>1, <2>2, <2>6, <2>7 DEF VideoInv
<1> QED
  BY <1>1, <1>2, <1>3, <1>4 DEF V!Next

(* A frame that was handed on is one that was sent. *)
LEMMA WasSent ==
  ASSUME NEW pp, NEW q, NEW r, H264OK(pp, q, r),
         NEW i \in 1 .. Len(out), NEW x \in V!Slices(out[i])
  PROVE  /\ V!Name(out[i][x])[1] \in 1 .. Len(sent)
         /\ V!Name(out[i][x])[2] \in V!Slices(sent[V!Name(out[i][x])[1]])
         /\ V!Name(out[i][x])[1] \in Nat
<1>1. PICK l \in Nat : l = Len(pp)
  BY LenProperties DEF H264OK, LogOK, Chain
<1>2. PICK j \in 1 .. r : EndOf(pp[j], V!Name(out[i][x]))
  BY DEF H264OK, HandOK, SlicesOK, Past
<1>3. j \in 1 .. l
  BY <1>1 DEF H264OK, WireOK
<1>4. /\ FrameOf(pp[j]) = V!Name(out[i][x])[1] /\ PlaceOf(pp[j]) = V!Name(out[i][x])[2]
      /\ FrameOf(pp[j]) \in Nat
  BY <1>1, <1>2, <1>3, IdFacts, SMTT(30) DEF H264OK, LogOK, EndOf
<1>5. FrameOf(pp[j]) \in 1 .. Len(sent) /\ PlaceOf(pp[j]) \in V!Slices(sent[FrameOf(pp[j])])
  BY <1>1, <1>2, <1>3 DEF H264OK, LogOK, SliceLog, EndsOf, EndOf
<1> QED
  BY <1>4, <1>5

LEMMA EachOneFrame ==
  ASSUME NEW pp, NEW q, NEW r, H264OK(pp, q, r)
  PROVE  V!OneFrameEach
<1> SUFFICES ASSUME NEW i \in 1 .. Len(out), NEW k \in 1 .. Len(out),
                    NEW x \in V!Slices(out[i]), NEW y \in V!Slices(out[k])
             PROVE  LET a == V!Name(out[i][x])
                        b == V!Name(out[k][y])
                    IN  /\ a[1] \in 1 .. Len(sent) /\ a[2] \in V!Slices(sent[a[1]])
                        /\ i < k => a[1] < b[1]
                        /\ i = k => a[1] = b[1] /\ (x < y => a[2] < b[2])
  BY DEF V!OneFrameEach
<1>1. PICK a, b : a = V!Name(out[i][x]) /\ b = V!Name(out[k][y])
  OBVIOUS
<1>2. a[1] \in 1 .. Len(sent) /\ a[2] \in V!Slices(sent[a[1]])
  BY <1>1, WasSent
<1>3. i < k => a[1] < b[1]
  BY <1>1 DEF H264OK, HandOK, SlicesOK, Earlier
<1>4. i = k => a[1] = b[1] /\ (x < y => a[2] < b[2])
  BY <1>1 DEF H264OK, HandOK, SlicesOK, Past, OneFrame
<1> QED
  BY <1>1, <1>2, <1>3, <1>4

LEMMA NoneMissing ==
  ASSUME NEW pp, NEW q, NEW r, H264OK(pp, q, r)
  PROVE  V!NoSliceMissing
<1> SUFFICES ASSUME NEW f \in 1 .. Len(sent),
                    \/ wire = <<>>
                    \/ \E i \in 1 .. Len(out) : \E x \in V!Slices(out[i]) : f <= V!Name(out[i][x])[1],
                    NEW z \in V!Slices(sent[f])
             PROVE  V!Arrived(f, z)
  BY DEF V!NoSliceMissing
<1>1. PICK l \in Nat : l = Len(pp)
  BY LenProperties DEF H264OK, LogOK, Chain
<1>2. /\ EndsMarked(pp) /\ EndsOf(sent, pp) /\ Chain(pp) /\ SlicesOK(out, buf, pp, r)
      /\ r \in 0 .. l /\ r + Len(wire) = l
  BY <1>1 DEF H264OK, LogOK, SliceLog, HandOK, WireOK
<1>3. PICK j \in 1 .. l : SliceEnd(pp[j]) /\ FrameOf(pp[j]) = f /\ PlaceOf(pp[j]) = z
  BY <1>1, <1>2 DEF EndsOf
<1>4. pp[j].units[1].id = <<f, z>> /\ f \in Nat
  BY <1>1, <1>2, <1>3, IdFacts
<1>5. CASE wire = <<>>
  <2>1. r = l
    BY <1>2, <1>5
  <2>2. ASSUME Has(buf, <<f, z>>) PROVE FALSE
    <3>1. PICK x \in V!Slices(buf) : V!Name(buf[x]) = <<f, z>>
      BY <2>2 DEF Has
    <3>2. PICK h \in 1 .. r : /\ EndOf(pp[h], V!Name(buf[x]))
                              /\ \A m \in h .. r : ~ (SliceEnd(pp[m]) /\ pp[m].marker)
      BY <1>2 DEF SlicesOK, Holds
    <3>3. \E m \in h .. l : SliceEnd(pp[m]) /\ pp[m].marker
      BY <1>1, <1>2, <2>1, <3>2 DEF EndsMarked, EndOf
    <3> QED
      BY <2>1, <3>2, <3>3
  <2>3. PICK i \in 1 .. Len(out) : Has(out[i], <<f, z>>)
    BY <1>2, <1>3, <1>4, <2>1, <2>2 DEF SlicesOK
  <2> QED
    BY <2>3 DEF Has, V!Arrived
<1>6. ASSUME NEW i \in 1 .. Len(out), NEW x \in V!Slices(out[i]), f <= V!Name(out[i][x])[1]
      PROVE  V!Arrived(f, z)
  <2>1. PICK g \in Nat : g = V!Name(out[i][x])[1]
    BY WasSent
  <2>2. ~ (g < f)
    BY <1>4, <1>6, <2>1
  <2>3. j \in 1 .. r
    <3>1. j \in r + 1 .. l => g < f
      BY <1>1, <1>2, <1>3, <2>1 DEF SlicesOK, Past
    <3> QED
      BY <1>2, <2>2, <3>1
  <2>4. ASSUME Has(buf, <<f, z>>) PROVE FALSE
    <3>1. PICK y \in V!Slices(buf) : V!Name(buf[y]) = <<f, z>>
      BY <2>4 DEF Has
    <3>2. g < V!Name(buf[y])[1]
      BY <1>2, <2>1 DEF SlicesOK, Earlier
    <3> QED
      BY <2>2, <3>1, <3>2
  <2>5. PICK k \in 1 .. Len(out) : Has(out[k], <<f, z>>)
    BY <1>2, <1>3, <1>4, <2>3, <2>4 DEF SlicesOK
  <2> QED
    BY <2>5 DEF Has, V!Arrived
<1> QED
  BY <1>5, <1>6

LEMMA VideoHolds == VideoInv => UnitsWhole
<1> SUFFICES ASSUME VideoInv PROVE UnitsWhole
  OBVIOUS
<1>1. ASSUME codec = "H264", faults = 0
      PROVE  AllWhole(out) /\ V!OneFrameEach /\ V!NoSliceMissing
  <2>1. PICK pp, q, r : H264OK(pp, q, r)
    BY <1>1 DEF VideoInv
  <2> QED
    BY <2>1, EachOneFrame, NoneMissing DEF H264OK, HandOK
<1>2. ASSUME codec = "H265" PROVE AllWhole(out)
  BY <1>2 DEF VideoInv, H265OK, GatheredOf
<1>3. codec \in {"H264", "H265"}
  BY DEF VideoInv, CodecOK
<1> QED
  BY <1>1, <1>2, <1>3 DEF UnitsWhole, V!UnitsWhole, AllWhole

(* What RTPDepay of h264 and h265 hands on are units that were sent, whole *)
(* - for H.265 whatever is lost or overtaken, for H.264 while nothing is - *)
(* and H.264 hands on every frame, once, in order and with all its slices: *)
(* for any frames, any size of a packet and any number of losses.          *)
THEOREM UnitsWholeSafe == MediaSpec => []UnitsWhole
<1>1. V!Init => VideoInv
  BY VideoBegins
<1>2. VideoInv /\ [V!Next]_rtpVars => VideoInv'
  BY VideoStep
<1>3. VideoMove => []VideoInv
  BY <1>1, <1>2, PTL DEF VideoMove
<1> QED
  BY <1>3, VideoMoves, VideoHolds, PTL
=============================================================================
