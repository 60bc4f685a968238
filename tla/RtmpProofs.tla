----------------------------- MODULE RtmpProofs -----------------------------
(* Proofs about a session of RTMP (Rtmp), for packets and tags of any size,*)
(* any number of messages and whatever is kept while probing.              *)
EXTENDS MediaProofs

(* Rtmp *)

(* What the run does to a session of RTMP. *)
RtmpMove == R!Init /\ [][R!Next]_rtmpVars

(* The run's other parts leave the session alone. *)
LEMMA RtmpMoves == MediaSpec => RtmpMove
<1>1. MediaInit => R!Init
  BY DEF MediaInit
<1>2. [MediaNext]_mediaVars => [R!Next]_rtmpVars
  BY DEF MediaNext, mediaVars, rtmpVars
<1> QED
  BY <1>1, <1>2, PTL DEF MediaSpec, RtmpMove

(* A message that has been written: its header, what it says, and the size *)
(* of the chunks it was cut into.                                          *)
Cmds == [cmd : {"connect", "releaseStream", "FCPublish", "createStream", "publish", "play",
                "_result", "onStatus"}, id : Nat]
Sayings == Nat \cup Cmds
MediaTags == {"audio", "video", "data"}
Tags == {"size", "command"} \cup MediaTags
Message ==
  {e \in [type : 0 .. 3, raw : Nat, size : Nat, tag : Tags, of : Sayings, max : Nat \ {0}] :
     e.tag = "command" => e.of \in Cmds /\ e.size > 0}

RtmpMark ==
  [mark : {"header"}, type : Nat, raw : Nat, size : Nat, tag : Tags, of : {0}, at : {0}]
    \cup [mark : {"time", "byte"}, of : Sayings, at : Nat]

(* The marks it was written as, and where its i-th byte is among them.     *)
Laid(e) == R!Chunks(e.type, e.raw, e.size, e.tag, e.of, e.max)
Extra(e) == IF e.raw = Ext THEN 1 ELSE 0
At(e, i) == 1 + Extra(e) + i + ((i - 1) \div e.max) * (1 + Extra(e))
LaidLen(e) == IF e.size = 0 THEN 1 + Extra(e) ELSE At(e, e.size)

(* What a quotient is. *)
LEMMA Quotient ==
  ASSUME NEW a \in Nat, NEW d \in Nat \ {0}
  PROVE  a \div d \in Nat /\ (a \div d) * d <= a /\ a < (a \div d) * d + d
OBVIOUS

(* Nothing else is one. *)
LEMMA QuotientIs ==
  ASSUME NEW a \in Nat, NEW k \in Nat, NEW d \in Nat \ {0}, k * d <= a, a < k * d + d
  PROVE  a \div d = k
<1>1. PICK q \in Nat : q = a \div d /\ q * d <= a /\ a < q * d + d
  BY Quotient
<1>2. ASSUME NEW m \in Nat, NEW n \in Nat, m < n PROVE m * d + d <= n * d
  <2>1. PICK z \in Nat : n = (m + 1) + z
    <3>1. n - (m + 1) \in Nat /\ n = (m + 1) + (n - (m + 1))
      BY <1>2
    <3> QED
      BY <3>1
  <2>2. n * d = (m * d + d) + z * d /\ z * d \in Nat /\ m * d \in Nat
    BY <2>1
  <2> QED
    BY <2>2
<1>3. ~ q < k /\ ~ k < q
  <2>1. q * d \in Nat /\ k * d \in Nat
    OBVIOUS
  <2>2. ASSUME q < k PROVE FALSE
    BY <1>1, <1>2, <2>1, <2>2
  <2>3. ASSUME k < q PROVE FALSE
    BY <1>1, <1>2, <2>1, <2>3
  <2> QED
    BY <2>2, <2>3
<1> QED
  BY <1>1, <1>3

(* FlattenSeq is one operator, under either name; so is what the reader    *)
(* of the FLV stream does.                                                 *)
LEMMA SameFlattenR == \A s : R!FlattenSeq(s) = L!FlattenSeq(s)
  BY DEF R!FlattenSeq, L!FlattenSeq

(* A chunk has its header, perhaps a time, and n bytes from the a-th on.   *)
Top(e, i) == R!Header(IF i = 1 THEN e.type ELSE 3, e.raw, e.size, e.tag)
Front(e, i) == <<Top(e, i)>>
               \o (IF e.raw = Ext THEN <<R!Time>> ELSE <<>>)
Piecewise(e, a, n) == [j \in 1 .. n |-> R!Byte(e.of, a + j)]

ChunkOf(e, i, a, n) == Front(e, i) \o Piecewise(e, a, n)
IsChunk(c, e, i, a, n) ==
  /\ c \in Seq(RtmpMark) /\ Len(c) = 1 + Extra(e) + n
  /\ c[1] = Top(e, i)
  /\ \A j \in 1 .. n : c[1 + Extra(e) + j] = R!Byte(e.of, a + j)

(* What a chunk is. *)
LEMMA ChunkIs ==
  ASSUME NEW e \in Message, NEW i, NEW a \in Nat, NEW n \in Nat
  PROVE  IsChunk(ChunkOf(e, i, a, n), e, i, a, n)
<1>0. PICK h \in Nat : h = 1 + Extra(e)
  BY DEF Extra
<1>b. PICK c : c = ChunkOf(e, i, a, n)
  OBVIOUS
<1>1. PICK p, q : p = Front(e, i) /\ q = Piecewise(e, a, n)
  OBVIOUS
<1>3. PICK hd \in RtmpMark : hd = Top(e, i)
  <2>1. /\ e.type \in Nat /\ e.raw \in Nat /\ e.size \in Nat /\ e.tag \in Tags /\ 3 \in Nat
    BY DEF Message
  <2>2. R!Header(IF i = 1 THEN e.type ELSE 3, e.raw, e.size, e.tag) \in RtmpMark
    BY <2>1 DEF R!Header, RtmpMark
  <2> QED
    BY <2>2 DEF Top
<1>4. p \in Seq(RtmpMark) /\ Len(p) = h /\ p[1] = hd /\ h >= 1
  <2>1. R!Time \in RtmpMark
    BY DEF R!Time, RtmpMark, Sayings
  <2>2. CASE e.raw = Ext
    <3>1. h = 2 /\ p = <<hd>> \o <<R!Time>>
      BY <1>0, <1>1, <1>3, <2>2 DEF Front, Extra
    <3> QED
      BY <2>1, <3>1
  <2>3. CASE e.raw # Ext
    <3>1. h = 1 /\ p = <<hd>> \o <<>>
      BY <1>0, <1>1, <1>3, <2>3 DEF Front, Extra
    <3> QED
      BY <3>1
  <2> QED
    BY <2>2, <2>3
<1>5. q \in Seq(RtmpMark) /\ Len(q) = n /\ \A j \in 1 .. n : q[j] = R!Byte(e.of, a + j)
  <2>1. q = [j \in 1 .. n |-> R!Byte(e.of, a + j)]
    BY <1>1 DEF Piecewise
  <2>2. ASSUME NEW j \in 1 .. n PROVE R!Byte(e.of, a + j) \in RtmpMark
    <3>1. a + j \in Nat /\ e.of \in Sayings
      BY DEF Message
    <3> QED
      BY <3>1 DEF R!Byte, RtmpMark
  <2> QED
    BY <2>1, <2>2
<1>6. c = p \o q
  BY <1>1, <1>b DEF ChunkOf
<1>a. p \in Seq(RtmpMark) /\ q \in Seq(RtmpMark) /\ Len(p) = h /\ Len(q) = n
  BY <1>4, <1>5
<1>7. /\ c \in Seq(RtmpMark) /\ Len(c) = h + n
      /\ \A j \in 1 .. h + n : c[j] = IF j <= h THEN p[j] ELSE q[j - h]
  BY ONLY <1>6, <1>a, ConcatProperties
<1>8. c[1] = hd
  <2>1. 1 \in 1 .. h + n /\ 1 <= h
    BY <1>4
  <2> QED
    BY <1>4, <1>7, <2>1
<1>9. ASSUME NEW j \in 1 .. n PROVE c[h + j] = R!Byte(e.of, a + j)
  <2>1. h + j \in 1 .. h + n /\ ~ (h + j <= h) /\ (h + j) - h = j
    BY <1>4
  <2> QED
    BY <1>5, <1>7, <2>1
<1> QED
  BY <1>0, <1>b, <1>3, <1>7, <1>8, <1>9 DEF IsChunk

(* How many chunks there are, and what the i-th of them is.                *)
ChunkCount(e) == IF e.size = 0 THEN 1 ELSE (e.size + e.max - 1) \div e.max
ChunkSize(e, i) == IF i * e.max <= e.size THEN e.max ELSE e.size - (i - 1) * e.max
ChunkAt(e, i) == ChunkOf(e, i, (i - 1) * e.max, ChunkSize(e, i))
ChunkList(e) == [i \in 1 .. ChunkCount(e) |-> ChunkAt(e, i)]

(* How many bytes are in the first k of them.                              *)
InChunks(e, k) == IF k * e.max <= e.size THEN k * e.max ELSE e.size

(* A message is its chunks, one behind the other. *)
LEMMA LaidIs == \A e : Laid(e) = L!FlattenSeq(ChunkList(e))
<1> SUFFICES ASSUME NEW e PROVE Laid(e) = L!FlattenSeq(ChunkList(e))
  OBVIOUS
<1> DEFINE front(i) == (IF i = 1 THEN <<R!Header(e.type, e.raw, e.size, e.tag)>>
                        ELSE <<R!Header(3, e.raw, e.size, e.tag)>>)
                       \o (IF e.raw = Ext THEN <<R!Time>> ELSE <<>>)
           bytes(i) == [j \in 1 .. (IF i * e.max <= e.size THEN e.max ELSE e.size - (i - 1) * e.max) |->
                          R!Byte(e.of, (i - 1) * e.max + j)]
<1>1. Laid(e) = R!FlattenSeq([i \in 1 .. (IF e.size = 0 THEN 1 ELSE (e.size + e.max - 1) \div e.max) |->
                                front(i) \o bytes(i)])
  BY DEF Laid, R!Chunks
<1>2. \A i : front(i) = Front(e, i)
  <2> SUFFICES ASSUME NEW i PROVE front(i) = Front(e, i)
    OBVIOUS
  <2>1. CASE i = 1
    BY <2>1 DEF Front, Top
  <2>2. CASE i # 1
    BY <2>2 DEF Front, Top
  <2> QED
    BY <2>1, <2>2
<1>3. \A i : bytes(i) = Piecewise(e, (i - 1) * e.max, ChunkSize(e, i))
  BY DEF Piecewise, ChunkSize
<1> HIDE DEF front, bytes
<1>4. \A i : front(i) \o bytes(i) = ChunkAt(e, i)
  BY <1>2, <1>3 DEF ChunkAt, ChunkOf
<1>5. [i \in 1 .. (IF e.size = 0 THEN 1 ELSE (e.size + e.max - 1) \div e.max) |-> front(i) \o bytes(i)]
        = ChunkList(e)
  BY <1>4, Zenon DEF ChunkList, ChunkCount
<1> QED
  BY <1>1, <1>5, SameFlattenR

(* All but the last chunk are full. *)
LEMMA ChunkNumbers ==
  ASSUME NEW e \in Message
  PROVE  /\ e.size \in Nat /\ e.max \in Nat \ {0} /\ Extra(e) \in {0, 1}
         /\ ChunkCount(e) \in Nat \ {0}
         /\ ChunkCount(e) * e.max >= e.size
         /\ \A k \in 0 .. ChunkCount(e) - 1 :
              k * e.max \in Nat /\ k * e.max <= e.size /\ (e.size > 0 => k * e.max < e.size)
         /\ e.size > 0 => (e.size - 1) \div e.max = ChunkCount(e) - 1
<1>1. PICK z \in Nat, d \in Nat \ {0} : z = e.size /\ d = e.max
  BY DEF Message
<1>2. CASE z = 0
  <2>1. PICK n \in Nat : n = 1 /\ ChunkCount(e) = n
    BY <1>1, <1>2 DEF ChunkCount
  <2>2. \A k \in 0 .. n - 1 : k = 0
    BY <2>1
  <2>3. \A k \in 0 .. n - 1 : k * d \in Nat /\ k * d <= z
    BY <1>2, <2>2
  <2>4. n * d >= z /\ n \in Nat \ {0}
    BY <1>2, <2>1
  <2> QED
    BY <1>1, <1>2, <2>1, <2>3, <2>4 DEF Extra
<1>3. CASE z # 0
  <2>1. PICK a \in Nat : a = z + d - 1
    BY <1>3
  <2>2. PICK n \in Nat : n = a \div d /\ n * d <= a /\ a < n * d + d
    BY Quotient
  <2>3. ChunkCount(e) = n
    BY <1>1, <1>3, <2>1, <2>2 DEF ChunkCount
  <2>4. PICK nd \in Nat : nd = n * d
    BY <2>2
  <2>5. nd >= z
    BY <2>1, <2>2, <2>4
  <2>6. n # 0
    BY <1>3, <2>4, <2>5
  <2>7. PICK m \in Nat : n = m + 1
    <3>1. n - 1 \in Nat /\ n = (n - 1) + 1
      BY <2>6
    <3> QED
      BY <3>1
  <2>8. PICK md \in Nat : md = m * d /\ nd = md + d
    <3>1. m * d \in Nat /\ (m + 1) * d = m * d + d
      OBVIOUS
    <3> QED
      BY <2>4, <2>7, <3>1
  <2>9. md < z
    BY <2>1, <2>2, <2>4, <2>8
  <2>10. ASSUME NEW k \in 0 .. n - 1 PROVE k * d \in Nat /\ k * d <= md
    <3>1. PICK y \in Nat : k + y = m
      <4>1. m - k \in Nat /\ k + (m - k) = m
        BY <2>7
      <4> QED
        BY <4>1
    <3>2. k * d \in Nat /\ y * d \in Nat /\ (k + y) * d = k * d + y * d
      OBVIOUS
    <3> QED
      BY <2>8, <3>1, <3>2
  <2>11. (z - 1) \div d = m
    <3>1. PICK b \in Nat : b = z - 1
      BY <1>3
    <3>2. m * d <= b /\ b < m * d + d
      BY <2>4, <2>5, <2>8, <2>9, <3>1
    <3> QED
      BY <3>1, <3>2, QuotientIs
  <2>12. \A k \in 0 .. n - 1 : k * d \in Nat /\ k * d <= z /\ k * d < z
    BY <2>9, <2>10
  <2>13. n - 1 = m
    BY <2>7
  <2> QED
    BY <1>1, <2>3, <2>4, <2>5, <2>6, <2>11, <2>12, <2>13 DEF Extra
<1> QED
  BY <1>2, <1>3

(* The chunks are lists of marks. *)
LEMMA ChunkFacts ==
  ASSUME NEW e \in Message, NEW i \in 1 .. ChunkCount(e)
  PROVE  /\ ChunkAt(e, i) \in Seq(RtmpMark) /\ ChunkSize(e, i) \in Nat
         /\ Len(ChunkAt(e, i)) = 1 + Extra(e) + ChunkSize(e, i)
         /\ ChunkAt(e, i)[1] = Top(e, i)
         /\ \A j \in 1 .. ChunkSize(e, i) :
              ChunkAt(e, i)[1 + Extra(e) + j] = R!Byte(e.of, (i - 1) * e.max + j)
<1>1. PICK k \in Nat : k = i - 1 /\ k \in 0 .. ChunkCount(e) - 1
  <2>1. PICK n \in Nat : n = ChunkCount(e)
    BY ChunkNumbers
  <2>2. i \in 1 .. n
    BY <2>1
  <2>3. i - 1 \in Nat /\ i - 1 \in 0 .. n - 1
    BY <2>2
  <2> QED
    BY <2>1, <2>3
<1>2. PICK a \in Nat : a = k * e.max /\ a <= e.size
  BY <1>1, ChunkNumbers
<1>3. PICK n \in Nat : n = ChunkSize(e, i)
  <2>1. e.size \in Nat /\ e.max \in Nat /\ e.size - a \in Nat
    BY <1>2, ChunkNumbers
  <2> QED
    BY <1>1, <1>2, <2>1 DEF ChunkSize
<1>4. ChunkAt(e, i) = ChunkOf(e, i, a, n)
  BY <1>1, <1>2, <1>3 DEF ChunkAt
<1>5. (i - 1) * e.max = a
  BY <1>1, <1>2
<1>6. IsChunk(ChunkAt(e, i), e, i, a, n)
  BY <1>4, ChunkIs
<1> QED
  BY <1>3, <1>5, <1>6 DEF IsChunk

(* What the first k chunks are. *)
LaidUpto(e, k) ==
  LET g == L!Firsts(ChunkList(e), k)
      h == 1 + Extra(e)
  IN  /\ g \in Seq(RtmpMark) /\ Len(g) = k * h + InChunks(e, k)
      /\ k > 0 => g[1] = Top(e, 1)
      /\ \A i \in 1 .. InChunks(e, k) :
           g[(1 + (i - 1) \div e.max) * h + i] = R!Byte(e.of, i)

(* One chunk more. *)
LEMMA ChunkMore ==
  ASSUME NEW e \in Message, NEW k \in 0 .. ChunkCount(e) - 1, LaidUpto(e, k)
  PROVE  LaidUpto(e, k + 1)
<1>1. PICK h \in Nat \ {0}, d \in Nat \ {0}, z \in Nat : h = 1 + Extra(e) /\ d = e.max /\ z = e.size
  BY ChunkNumbers
<1>2. PICK kd \in Nat : kd = k * d /\ kd <= z
  BY <1>1, ChunkNumbers
<1>3. PICK l \in Nat : l = k + 1 /\ l \in 1 .. ChunkCount(e) /\ l - 1 = k /\ k \in Nat
  <2>1. PICK n \in Nat : n = ChunkCount(e)
    BY ChunkNumbers
  <2>2. k \in 0 .. n - 1
    BY <2>1
  <2>3. k + 1 \in Nat /\ k + 1 \in 1 .. n /\ (k + 1) - 1 = k /\ k \in Nat
    BY <2>2
  <2> QED
    BY <2>1, <2>3
<1>4. PICK c \in Seq(RtmpMark), n \in Nat : c = ChunkAt(e, l) /\ n = ChunkSize(e, l)
  <2>1. ChunkAt(e, l) \in Seq(RtmpMark) /\ ChunkSize(e, l) \in Nat
    BY <1>3, ChunkFacts
  <2> QED
    BY <2>1
<1>5. /\ c \in Seq(RtmpMark) /\ Len(c) = h + n
      /\ c[1] = Top(e, l)
      /\ \A j \in 1 .. n : c[h + j] = R!Byte(e.of, kd + j)
  <2>1. /\ Len(ChunkAt(e, l)) = 1 + Extra(e) + ChunkSize(e, l)
        /\ ChunkAt(e, l)[1] = Top(e, l)
        /\ \A j \in 1 .. ChunkSize(e, l) :
             ChunkAt(e, l)[1 + Extra(e) + j] = R!Byte(e.of, (l - 1) * e.max + j)
    BY <1>3, ChunkFacts
  <2>2. (l - 1) * e.max = kd
    BY <1>1, <1>2, <1>3
  <2> QED
    BY <1>1, <1>4, <2>1, <2>2
<1>6. InChunks(e, k) = kd
  BY <1>1, <1>2 DEF InChunks
<1>7. l * d = kd + d
  <2>1. (k + 1) * d = k * d + d
    BY <1>3
  <2> QED
    BY <1>2, <1>3, <2>1
<1>8. InChunks(e, l) = kd + n /\ n <= d
  <2>1. n = IF kd + d <= z THEN d ELSE z - kd
    BY <1>1, <1>2, <1>3, <1>4, <1>7 DEF ChunkSize
  <2>2. InChunks(e, l) = IF kd + d <= z THEN kd + d ELSE z
    BY <1>1, <1>7 DEF InChunks
  <2> QED
    BY <1>2, <2>1, <2>2
<1>9. PICK g, gg : g = L!Firsts(ChunkList(e), k) /\ gg = L!Firsts(ChunkList(e), l)
  OBVIOUS
<1>10. PICK kh \in Nat : kh = k * h /\ l * h = kh + h
  <2>1. k * h \in Nat /\ (k + 1) * h = k * h + h
    BY <1>3
  <2> QED
    BY <1>3, <2>1
<1>11. /\ g \in Seq(RtmpMark) /\ Len(g) = kh + kd
       /\ k > 0 => g[1] = Top(e, 1)
       /\ \A i \in 1 .. kd : g[(1 + (i - 1) \div d) * h + i] = R!Byte(e.of, i)
  BY <1>1, <1>6, <1>9, <1>10 DEF LaidUpto
<1>12. gg = g \o c
  <2>1. PICK f : f = ChunkList(e)
    OBVIOUS
  <2>2. f \in Seq(Seq(RtmpMark)) /\ Len(f) = ChunkCount(e) /\ f[l] = c
    <3>1. f = [i \in 1 .. ChunkCount(e) |-> ChunkAt(e, i)]
      BY <2>1 DEF ChunkList
    <3>2. ChunkCount(e) \in Nat /\ \A i \in 1 .. ChunkCount(e) : ChunkAt(e, i) \in Seq(RtmpMark)
      BY ChunkFacts, ChunkNumbers
    <3> QED
      BY <1>3, <1>4, <3>1, <3>2
  <2>3. k \in Nat /\ k + 1 <= Len(f)
    BY <1>3, <2>2, ChunkNumbers
  <2>4. L!Firsts(f, k + 1) = L!Firsts(f, k) \o f[k + 1]
    BY <2>2, <2>3, L!FirstsStep
  <2> QED
    BY <1>3, <1>9, <2>1, <2>2, <2>4
<1>13. PICK m \in Nat : m = kh + kd
  OBVIOUS
<1>14. /\ gg \in Seq(RtmpMark) /\ Len(gg) = m + (h + n)
       /\ \A j \in 1 .. m + (h + n) : gg[j] = IF j <= m THEN g[j] ELSE c[j - m]
  <2>1. PICK hn \in Nat : hn = h + n
    OBVIOUS
  <2>2. Len(g) = m /\ Len(c) = hn /\ g \in Seq(RtmpMark) /\ c \in Seq(RtmpMark)
    BY <1>5, <1>11, <1>13, <2>1
  <2>3. /\ gg \in Seq(RtmpMark) /\ Len(gg) = m + hn
        /\ \A j \in 1 .. m + hn : gg[j] = IF j <= m THEN g[j] ELSE c[j - m]
    BY <1>12, <2>2, ConcatProperties
  <2> QED
    BY <2>1, <2>3
<1>15. gg[1] = Top(e, 1)
  <2>1. CASE k = 0
    <3>1. m = 0 /\ l = 1
      <4>1. 0 * h = 0 /\ 0 * d = 0
        BY <1>1
      <4> QED
        BY <1>2, <1>3, <1>10, <1>13, <2>1, <4>1
    <3>2. gg[1] = c[1]
      <4>1. 1 \in 1 .. m + (h + n) /\ ~ 1 <= m /\ 1 - m = 1
        BY <3>1
      <4> QED
        BY <1>14, <4>1
    <3> QED
      BY <1>5, <3>1, <3>2
  <2>2. CASE k > 0
    <3>1. m >= 1
      <4>1. PICK y \in Nat : k = y + 1
        <5>1. k - 1 \in Nat /\ k = (k - 1) + 1
          BY <2>2
        <5> QED
          BY <5>1
      <4>2. k * h = y * h + h /\ y * h \in Nat
        BY <4>1
      <4> QED
        BY <1>10, <1>13, <4>2
    <3>2. gg[1] = g[1]
      <4>1. 1 \in 1 .. m + (h + n) /\ 1 <= m
        BY <3>1
      <4> QED
        BY <1>14, <4>1
    <3> QED
      BY <1>11, <2>2, <3>2
  <2> QED
    BY <2>1, <2>2
<1>16. ASSUME NEW i \in 1 .. kd + n
       PROVE  gg[(1 + (i - 1) \div d) * h + i] = R!Byte(e.of, i)
  <2>1. PICK b \in Nat, q \in Nat : b = i - 1 /\ q = b \div d /\ q * d <= b /\ b < q * d + d
    <3>1. i - 1 \in Nat
      OBVIOUS
    <3> QED
      BY <3>1, Quotient
  <2>2. PICK qh \in Nat : qh = q * h /\ (1 + q) * h = qh + h
    <3>1. q * h \in Nat /\ (1 + q) * h = q * h + h
      OBVIOUS
    <3> QED
      BY <3>1
  <2>3. PICK x \in Nat : x = (qh + h) + i /\ x = (1 + (i - 1) \div d) * h + i
    <3>1. (i - 1) \div d = q
      BY <2>1
    <3>2. (1 + (i - 1) \div d) * h = qh + h
      BY <2>2, <3>1
    <3>3. PICK x \in Nat : x = (qh + h) + i
      OBVIOUS
    <3> QED
      BY <3>2, <3>3
  <2>4. CASE i <= kd
    <3>1. g[x] = R!Byte(e.of, i)
      <4>1. i \in 1 .. kd
        BY <2>4
      <4> QED
        BY <1>11, <2>3, <4>1
    <3>2. q + 1 <= k
      <4> SUFFICES ASSUME k <= q PROVE FALSE
        BY <1>3
      <4>1. PICK y \in Nat : q = k + y
        <5>1. q - k \in Nat /\ q = k + (q - k)
          OBVIOUS
        <5> QED
          BY <5>1
      <4>2. q * d = k * d + y * d /\ y * d \in Nat
        BY <4>1
      <4> QED
        BY <1>2, <2>1, <2>4, <4>2
    <3>3. qh + h <= kh
      <4>1. PICK y \in Nat : k = (q + 1) + y
        <5>1. k - (q + 1) \in Nat /\ k = (q + 1) + (k - (q + 1))
          BY <3>2
        <5> QED
          BY <5>1
      <4>2. k * h = (q * h + h) + y * h /\ y * h \in Nat
        BY <4>1
      <4> QED
        BY <1>10, <2>2, <4>2
    <3>4. x \in 1 .. m + (h + n) /\ x <= m
      BY <1>13, <2>3, <2>4, <3>3
    <3> QED
      BY <1>14, <2>3, <3>1, <3>4
  <2>5. CASE i > kd
    <3>1. PICK j \in Nat : i = kd + j /\ j \in 1 .. n
      <4>1. i - kd \in Nat /\ i = kd + (i - kd) /\ i - kd \in 1 .. n
        BY <2>5
      <4> QED
        BY <4>1
    <3>2. q = k
      <4>1. k * d <= b /\ b < k * d + d
        BY <1>2, <1>8, <2>1, <3>1
      <4> QED
        BY <1>3, <2>1, <4>1, QuotientIs
    <3>3. x = m + (h + j)
      BY <1>10, <1>13, <2>2, <2>3, <3>1, <3>2
    <3>4. x \in 1 .. m + (h + n) /\ ~ x <= m /\ x - m = h + j
      BY <3>1, <3>3
    <3>5. gg[x] = c[h + j]
      BY <1>14, <3>4
    <3> QED
      BY <1>5, <2>3, <3>1, <3>5
  <2> QED
    BY <2>4, <2>5
<1>17. Len(gg) = l * h + InChunks(e, l)
  BY <1>8, <1>10, <1>13, <1>14
<1> QED
  BY <1>1, <1>3, <1>8, <1>9, <1>14, <1>15, <1>16, <1>17 DEF LaidUpto

(* A message on the wire: its header, and its bytes where the reader looks *)
(* for them.                                                               *)
IsLaid(c, e) ==
  /\ c \in Seq(RtmpMark) /\ Len(c) = LaidLen(e) /\ LaidLen(e) \in Nat \ {0}
  /\ c[1] = Top(e, 1)
  /\ \A i \in 1 .. e.size : At(e, i) \in 1 .. Len(c) /\ c[At(e, i)] = R!Byte(e.of, i)

(* Every message is written so. *)
LEMMA LaidOut ==
  ASSUME NEW e \in Message
  PROVE  IsLaid(Laid(e), e)
<1>1. PICK h \in Nat \ {0}, d \in Nat \ {0}, z \in Nat, n \in Nat \ {0} :
         h = 1 + Extra(e) /\ d = e.max /\ z = e.size /\ n = ChunkCount(e)
  BY ChunkNumbers
<1>2. LaidUpto(e, n)
  <2> DEFINE T == {k \in Nat : k <= n => LaidUpto(e, k)}
  <2>1. 0 \in T
    <3>1. PICK f : f = ChunkList(e)
      OBVIOUS
    <3>2. f \in Seq(Seq(RtmpMark))
      <4>1. f = [i \in 1 .. n |-> ChunkAt(e, i)]
        BY <1>1, <3>1 DEF ChunkList
      <4>2. \A i \in 1 .. n : ChunkAt(e, i) \in Seq(RtmpMark)
        BY <1>1, ChunkFacts
      <4> QED
        BY <4>1, <4>2
    <3>3. L!Firsts(f, 0) = <<>>
      BY <3>2, L!FirstsStep
    <3>4. InChunks(e, 0) = 0 /\ 0 * h = 0 /\ <<>> \in Seq(RtmpMark) /\ Len(<<>>) = 0
      <4>1. 0 * d = 0 /\ 0 <= z
        BY <1>1
      <4> QED
        BY <1>1, <4>1, EmptySeq DEF InChunks
    <3>5. PICK g : g = L!Firsts(ChunkList(e), 0)
      OBVIOUS
    <3>6. g \in Seq(RtmpMark) /\ Len(g) = 0
      BY <3>1, <3>3, <3>4, <3>5
    <3>7. LaidUpto(e, 0)
      <4>1. Len(g) = 0 * (1 + Extra(e)) + InChunks(e, 0)
        BY <1>1, <3>4, <3>6
      <4>2. PICK k \in Nat : k = 0
        OBVIOUS
      <4>3. /\ g = L!Firsts(ChunkList(e), k) /\ Len(g) = k * (1 + Extra(e)) + InChunks(e, k)
            /\ ~ k > 0 /\ \A i \in 1 .. InChunks(e, k) : FALSE
        BY <3>4, <3>5, <4>1, <4>2
      <4>4. LaidUpto(e, k)
        BY <3>6, <4>3 DEF LaidUpto
      <4> QED
        BY <4>2, <4>4
    <3> QED
      BY <3>7
  <2>2. ASSUME NEW k \in Nat, k \in T PROVE k + 1 \in T
    <3> SUFFICES ASSUME k + 1 <= n PROVE LaidUpto(e, k + 1)
      OBVIOUS
    <3>1. k \in 0 .. ChunkCount(e) - 1
      BY <1>1
    <3>2. LaidUpto(e, k)
      BY <2>2
    <3> QED
      BY <3>1, <3>2, ChunkMore
  <2> HIDE DEF T
  <2>3. Nat \subseteq T
    BY <2>1, <2>2, L!Induction
  <2>4. n \in T /\ n <= n
    BY <2>3
  <2> QED
    BY <2>4 DEF T
<1>3. PICK c : c = Laid(e)
  OBVIOUS
<1>4. c = L!Firsts(ChunkList(e), n)
  <2>1. ChunkList(e) = [i \in 1 .. n |-> ChunkList(e)[i]]
    BY <1>1 DEF ChunkList
  <2> QED
    BY <1>3, <2>1, LaidIs DEF L!Firsts
<1>5. PICK nd \in Nat, nh \in Nat, m \in Nat :
         nd = n * d /\ nd >= z /\ n = m + 1 /\ nh = m * h /\ n * h = nh + h
  <2>1. PICK m \in Nat : n = m + 1
    <3>1. n - 1 \in Nat /\ n = (n - 1) + 1
      OBVIOUS
    <3> QED
      BY <3>1
  <2>2. n * d \in Nat /\ m * h \in Nat /\ (m + 1) * h = m * h + h
    OBVIOUS
  <2> QED
    BY <1>1, <2>1, <2>2, ChunkNumbers
<1>6. /\ c \in Seq(RtmpMark) /\ Len(c) = (nh + h) + z
      /\ c[1] = Top(e, 1)
      /\ \A i \in 1 .. z : c[(1 + (i - 1) \div d) * h + i] = R!Byte(e.of, i)
  <2>1. InChunks(e, n) = z
    BY <1>1, <1>5 DEF InChunks
  <2> QED
    BY <1>1, <1>2, <1>4, <1>5, <2>1, SMTT(30) DEF LaidUpto
<1>7. LaidLen(e) = (nh + h) + z
  <2>1. CASE z = 0
    <3>1. m = 0
      <4>1. n = 1
        BY <1>1, <2>1 DEF ChunkCount
      <4> QED
        BY <1>5, <4>1
    <3>2. 0 * h = 0
      OBVIOUS
    <3> QED
      BY <1>1, <1>5, <2>1, <3>1, <3>2 DEF LaidLen
  <2>2. CASE z # 0
    <3>1. (z - 1) \div d = m
      <4>1. (z - 1) \div d = n - 1
        BY <1>1, <2>2, ChunkNumbers
      <4> QED
        BY <1>5, <4>1
    <3>2. At(e, z) = h + z + m * h
      BY <1>1, <3>1 DEF At
    <3> QED
      BY <1>1, <1>5, <2>2, <3>2 DEF LaidLen
  <2> QED
    BY <2>1, <2>2
<1>8. ASSUME NEW i \in 1 .. z
      PROVE  At(e, i) \in 1 .. Len(c) /\ c[At(e, i)] = R!Byte(e.of, i)
  <2>1. PICK b \in Nat, q \in Nat : b = i - 1 /\ q = b \div d /\ q * d <= b
    <3>1. i - 1 \in Nat
      OBVIOUS
    <3> QED
      BY <3>1, Quotient
  <2>2. PICK y \in Nat : m = q + y
    <3>1. ~ n <= q
      <4> SUFFICES ASSUME n <= q PROVE FALSE
        OBVIOUS
      <4>1. PICK y \in Nat : q = n + y
        <5>1. q - n \in Nat /\ q = n + (q - n)
          OBVIOUS
        <5> QED
          BY <5>1
      <4>2. q * d = n * d + y * d /\ y * d \in Nat
        BY <4>1
      <4> QED
        BY <1>5, <2>1, <4>2
    <3>2. m - q \in Nat /\ m = q + (m - q)
      BY <1>5, <3>1
    <3> QED
      BY <3>2
  <2>3. PICK qh \in Nat, yh \in Nat : qh = q * h /\ (1 + q) * h = h + qh /\ nh = qh + yh
    <3>1. q * h \in Nat /\ y * h \in Nat /\ (1 + q) * h = h + q * h /\ (q + y) * h = q * h + y * h
      OBVIOUS
    <3> QED
      BY <1>5, <2>2, <3>1
  <2>4. (i - 1) \div d = q
    BY <2>1
  <2>5. At(e, i) = h + i + qh
    BY <1>1, <2>3, <2>4 DEF At
  <2>6. (1 + (i - 1) \div d) * h + i = (h + qh) + i
    BY <2>3, <2>4
  <2>7. (h + qh) + i = h + i + qh /\ h + i + qh \in 1 .. (nh + h) + z
    BY <2>3
  <2> QED
    BY <1>6, <2>5, <2>6, <2>7
<1>9. (nh + h) + z \in Nat \ {0}
  OBVIOUS
<1> QED
  BY <1>1, <1>3, <1>6, <1>7, <1>8, <1>9 DEF IsLaid

(* What messages are on the wire, one behind the other. *)
LaidList(w) == [j \in 1 .. Len(w) |-> Laid(w[j])]
OnWire(w) == L!FlattenSeq(LaidList(w))

(* They are lists of marks. *)
LEMMA LaidLists ==
  ASSUME NEW w \in Seq(Message)
  PROVE  LaidList(w) \in Seq(Seq(RtmpMark)) /\ Len(LaidList(w)) = Len(w)
         /\ \A j \in 1 .. Len(w) : LaidList(w)[j] = Laid(w[j])
<1>1. PICK n \in Nat : n = Len(w)
  BY LenProperties
<1>2. \A j \in 1 .. n : Laid(w[j]) \in Seq(RtmpMark)
  BY <1>1, ElementOfSeq, LaidOut DEF IsLaid
<1>3. LaidList(w) = [j \in 1 .. n |-> Laid(w[j])]
  BY <1>1 DEF LaidList
<1> QED
  BY <1>1, <1>2, <1>3

(* One more message goes behind the others. *)
LEMMA WireMore ==
  ASSUME NEW w \in Seq(Message), NEW e \in Message
  PROVE  OnWire(w) \in Seq(RtmpMark) /\ OnWire(Append(w, e)) = OnWire(w) \o Laid(e)
<1>1. PICK v \in Seq(Message) : v = Append(w, e)
  BY AppendProperties
<1>2. PICK f, g : f = LaidList(w) /\ g = LaidList(v)
  OBVIOUS
<1>3. PICK n \in Nat : n = Len(w)
  BY LenProperties
<1>4. Len(v) = n + 1 /\ v[n + 1] = e /\ \A j \in 1 .. n : v[j] = w[j]
  BY <1>1, <1>3, AppendProperties
<1>5. /\ f \in Seq(Seq(RtmpMark)) /\ Len(f) = n /\ \A j \in 1 .. n : f[j] = Laid(w[j])
      /\ g \in Seq(Seq(RtmpMark)) /\ Len(g) = n + 1 /\ \A j \in 1 .. n + 1 : g[j] = Laid(v[j])
  BY <1>2, <1>3, <1>4, LaidLists
<1>6. PICK l \in Seq(RtmpMark) : l = Laid(e)
  BY LaidOut DEF IsLaid
<1>7. g = Append(f, l)
  <2>1. PICK h : h = Append(f, l)
    OBVIOUS
  <2>2. h \in Seq(Seq(RtmpMark)) /\ Len(h) = n + 1 /\ h[n + 1] = l /\ \A j \in 1 .. n : h[j] = f[j]
    BY <1>5, <2>1, AppendProperties
  <2>3. ASSUME NEW j \in 1 .. n + 1 PROVE h[j] = g[j]
    <3>1. CASE j = n + 1
      BY <1>4, <1>5, <1>6, <2>2, <3>1
    <3>2. CASE j # n + 1
      <4>1. j \in 1 .. n
        BY <3>2
      <4> QED
        BY <1>4, <1>5, <2>2, <4>1
    <3> QED
      BY <3>1, <3>2
  <2>4. h = g
    BY <1>5, <2>2, <2>3, SeqEqual
  <2> QED
    BY <2>1, <2>4
<1>8. L!FlattenSeq(f) \in Seq(RtmpMark) /\ L!FlattenSeq(Append(f, l)) = L!FlattenSeq(f) \o l
  BY <1>5, L!FlattenAppend
<1> QED
  BY <1>1, <1>2, <1>6, <1>7, <1>8 DEF OnWire

(* Nothing is on the wire without a message. *)
LEMMA WireEmpty == OnWire(<<>>) = <<>>
<1>1. <<>> \in Seq(Message)
  BY EmptySeq
<1>2. PICK f : f = LaidList(<<>>)
  OBVIOUS
<1>3. f \in Seq(Seq(RtmpMark)) /\ Len(f) = 0
  BY <1>1, <1>2, LaidLists, EmptySeq
<1>4. f = <<>>
  BY <1>3, EmptySeq
<1> QED
  BY <1>2, <1>4, L!FlattenEmpty DEF OnWire

(* The first message is in front. *)
LEMMA WireFirst ==
  ASSUME NEW w \in Seq(Message), w # <<>>
  PROVE  /\ Head(w) \in Message /\ Tail(w) \in Seq(Message)
         /\ IsLaid(Laid(Head(w)), Head(w)) /\ OnWire(Tail(w)) \in Seq(RtmpMark)
         /\ OnWire(w) = Laid(Head(w)) \o OnWire(Tail(w))
<1>1. PICK e \in Message, v \in Seq(Message) : e = Head(w) /\ v = Tail(w)
  BY HeadTailProperties
<1>2. PICK n \in Nat : Len(v) = n /\ Len(w) = n + 1 /\ w[1] = e /\ \A j \in 1 .. n : v[j] = w[j + 1]
  <2>1. PICK n \in Nat : n = Len(v)
    BY LenProperties
  <2>2. Len(w) \in Nat /\ Len(v) = Len(w) - 1
    BY <1>1, HeadTailProperties, LenProperties
  <2>3. \A j \in 1 .. Len(v) : v[j] = w[j + 1]
    BY <1>1, HeadTailProperties
  <2> QED
    BY <1>1, <2>1, <2>2, <2>3
<1>3. PICK f, g : f = LaidList(w) /\ g = LaidList(v)
  OBVIOUS
<1>4. /\ f \in Seq(Seq(RtmpMark)) /\ Len(f) = n + 1 /\ \A j \in 1 .. n + 1 : f[j] = Laid(w[j])
      /\ g \in Seq(Seq(RtmpMark)) /\ Len(g) = n /\ \A j \in 1 .. n : g[j] = Laid(v[j])
  BY <1>2, <1>3, LaidLists
<1>5. f # <<>>
  BY <1>4, EmptySeq
<1>6. Head(f) = Laid(e)
  BY <1>2, <1>4, <1>5
<1>7. Tail(f) = g
  <2>1. PICK h : h = Tail(f)
    OBVIOUS
  <2>2. h \in Seq(Seq(RtmpMark)) /\ Len(h) = n /\ \A j \in 1 .. n : h[j] = f[j + 1]
    <3>1. h \in Seq(Seq(RtmpMark)) /\ Len(h) = Len(f) - 1 /\ \A j \in 1 .. Len(h) : h[j] = f[j + 1]
      BY <1>4, <1>5, <2>1, HeadTailProperties
    <3> QED
      BY <1>4, <3>1
  <2>3. \A j \in 1 .. n : f[j + 1] = Laid(w[j + 1])
    BY <1>4
  <2>4. \A j \in 1 .. n : h[j] = g[j]
    BY <1>2, <1>4, <2>2, <2>3
  <2>5. h = g
    BY <1>4, <2>2, <2>4, SeqEqual
  <2> QED
    BY <2>1, <2>5
<1>8. L!FlattenSeq(f) = Head(f) \o L!FlattenSeq(Tail(f)) /\ L!FlattenSeq(Tail(f)) \in Seq(RtmpMark)
  BY <1>4, <1>5, L!FlattenHead
<1>9. IsLaid(Laid(e), e)
  BY LaidOut
<1> QED
  BY <1>1, <1>3, <1>6, <1>7, <1>8, <1>9 DEF OnWire

(* z is x, and then y. *)
Joined(z, x, y) == z \in Seq(RtmpMark) /\ y \in Seq(RtmpMark) /\ z = x \o y

(* What begins with a header begins with a mark that says so. *)
LEMMA WireBegins ==
  ASSUME NEW e \in Message, NEW x, IsLaid(x, e), NEW y, NEW z, Joined(z, x, y)
  PROVE  /\ z # <<>> /\ Head(z) = Top(e, 1) /\ Head(z).mark = "header" /\ z[1] = Head(z)
         /\ Len(z) = Len(x) + Len(y) /\ Len(x) \in Nat \ {0} /\ Len(y) \in Nat
         /\ \A i \in 1 .. Len(x) : z[i] = x[i]
         /\ SubSeq(z, Len(x) + 1, Len(z)) = y
<1>1. PICK m \in Nat \ {0}, n \in Nat : m = Len(x) /\ n = Len(y) /\ x \in Seq(RtmpMark)
  BY LenProperties DEF IsLaid, Joined
<1>2. /\ Len(z) = m + n /\ y \in Seq(RtmpMark) /\ z \in Seq(RtmpMark)
      /\ \A i \in 1 .. m + n : z[i] = IF i <= m THEN x[i] ELSE y[i - m]
  BY <1>1, ConcatProperties DEF Joined
<1>3. z # <<>>
  BY <1>2, EmptySeq
<1>4. \A i \in 1 .. m : z[i] = x[i]
  BY <1>2
<1>5. z[1] = Top(e, 1) /\ Head(z) = z[1]
  BY <1>1, <1>3, <1>4 DEF IsLaid
<1>6. Top(e, 1).mark = "header"
  BY DEF Top, R!Header
<1>7. PICK u : u = SubSeq(z, m + 1, m + n)
  OBVIOUS
<1>8. u \in Seq(RtmpMark) /\ Len(u) = n /\ \A i \in 1 .. n : u[i] = z[m + i]
  <2>1. m + 1 \in 1 .. (m + n) + 1 /\ m + n \in (m + 1) - 1 .. m + n
    OBVIOUS
  <2>2. /\ u \in Seq(RtmpMark) /\ Len(u) = ((m + n) - (m + 1)) + 1
        /\ \A i \in 1 .. ((m + n) - (m + 1)) + 1 : u[i] = z[(m + 1) + i - 1]
    BY <1>2, <1>7, <2>1, SubSeqProperties
  <2>3. ((m + n) - (m + 1)) + 1 = n /\ \A i \in 1 .. n : (m + 1) + i - 1 = m + i
    OBVIOUS
  <2> QED
    BY <2>2, <2>3
<1>9. \A i \in 1 .. n : u[i] = y[i]
  <2> SUFFICES ASSUME NEW i \in 1 .. n PROVE u[i] = y[i]
    OBVIOUS
  <2>1. m + i \in 1 .. m + n /\ ~ m + i <= m /\ (m + i) - m = i
    OBVIOUS
  <2> QED
    BY <1>2, <1>8, <2>1
<1>10. u = y
  BY <1>1, <1>2, <1>8, <1>9, SeqEqual
<1> QED
  BY <1>1, <1>2, <1>3, <1>4, <1>5, <1>6, <1>7, <1>10

(* The header that a reader keeps, and a message whose header, if it says  *)
(* less, says it because the last one was the same.                        *)
ChunkHead == [raw : Nat, size : Nat, tag : Tags \cup {"none"}]
HeadOf(e) == [raw |-> e.raw, size |-> e.size, tag |-> e.tag]
Continues(c, e) ==
  /\ e.type = 3 => HeadOf(e) = c /\ e.raw # Ext
  /\ e.type = 2 => e.size = c.size /\ e.tag = c.tag

(* What a reader of s finds on the wire: e is in front, and y behind it.   *)
Finds(s, e, x, y) ==
  /\ e \in Message /\ IsLaid(x, e) /\ Joined(rWire[s], x, y)
  /\ chunks[s] \in ChunkHead /\ Continues(chunks[s], e)
  /\ rdSize[s] \in Nat \ {0} /\ (rdSize[s] = e.max \/ e.size <= 1)

(* It takes the header for what it is. *)
LEMMA HeaderFound ==
  ASSUME NEW s, NEW e, NEW x, NEW y, Finds(s, e, x, y)
  PROVE  /\ R!HeaderRead(s) = HeadOf(e) /\ HeadOf(e) \in ChunkHead
         /\ R!Extended(s) = Extra(e) /\ R!First(s) = 1 + Extra(e)
         /\ rWire[s] # <<>> /\ Head(rWire[s]).mark = "header"
<1>1. rWire[s] # <<>> /\ Head(rWire[s]) = Top(e, 1) /\ Head(rWire[s]).mark = "header"
  <2>1. e \in Message /\ IsLaid(x, e) /\ Joined(rWire[s], x, y)
    BY DEF Finds
  <2> QED
    BY <2>1, WireBegins
<1>2. e \in Message /\ chunks[s] \in ChunkHead /\ Continues(chunks[s], e)
  BY DEF Finds
<1>3. HeadOf(e) \in ChunkHead
  BY <1>2 DEF HeadOf, ChunkHead, Message
<1>4. /\ Top(e, 1).type = e.type /\ Top(e, 1).raw = e.raw /\ Top(e, 1).size = e.size
      /\ Top(e, 1).tag = e.tag
  BY DEF Top, R!Header
<1>5. R!HeaderRead(s) = HeadOf(e)
  <2>1. CASE e.type = 3
    BY <1>1, <1>2, <1>4, <2>1 DEF R!HeaderRead, Continues
  <2>2. CASE e.type = 2
    <3>1. R!HeaderRead(s) = [chunks[s] EXCEPT !.raw = e.raw]
      BY <1>1, <1>4, <2>2 DEF R!HeaderRead
    <3>2. chunks[s].size = e.size /\ chunks[s].tag = e.tag
      BY <1>2, <2>2 DEF Continues
    <3> QED
      BY <1>2, <3>1, <3>2 DEF HeadOf, ChunkHead
  <2>3. CASE e.type # 3 /\ e.type # 2
    BY <1>1, <1>4, <2>3 DEF R!HeaderRead, HeadOf
  <2> QED
    BY <2>1, <2>2, <2>3
<1>6. R!Extended(s) = Extra(e)
  <2>1. R!HeaderRead(s).raw = e.raw
    BY <1>5 DEF HeadOf
  <2> QED
    BY <2>1 DEF R!Extended, Extra
<1>7. R!First(s) = 1 + Extra(e)
  <2>1. CASE e.type = 3
    <3>1. Extra(e) = 0
      BY <1>2, <2>1 DEF Continues, Extra
    <3>2. R!First(s) = 1 + 0
      BY <1>1, <1>4, <2>1 DEF R!First
    <3> QED
      BY <3>1, <3>2
  <2>2. CASE e.type # 3
    <3>1. e.type \in 0 .. 3
      BY <1>2 DEF Message
    <3>2. Head(rWire[s]).type < 3
      BY <1>1, <1>4, <2>2, <3>1
    <3> QED
      BY <1>6, <3>2 DEF R!First
  <2> QED
    BY <2>1, <2>2
<1> QED
  BY <1>1, <1>3, <1>5, <1>6, <1>7

(* And the bytes: they are those of the message, and what is left begins   *)
(* behind them.                                                            *)
LEMMA MessageFound ==
  ASSUME NEW s, NEW e, NEW x, NEW y, Finds(s, e, x, y)
  PROVE  /\ R!MessageLen(s) = Len(x)
         /\ SubSeq(rWire[s], R!MessageLen(s) + 1, Len(rWire[s])) = y
         /\ R!Data(s) = [i \in 1 .. e.size |-> R!Byte(e.of, i)]
         /\ (y # <<>> => Head(y).mark = "header") => R!OneMessage(s)
<1>1. /\ R!HeaderRead(s) = HeadOf(e) /\ R!Extended(s) = Extra(e) /\ R!First(s) = 1 + Extra(e)
  BY HeaderFound
<1>2. /\ e \in Message /\ IsLaid(x, e) /\ Joined(rWire[s], x, y) /\ y \in Seq(RtmpMark)
      /\ rdSize[s] \in Nat \ {0} /\ (rdSize[s] = e.max \/ e.size <= 1)
  BY DEF Finds, Joined
<1>3. PICK z \in Nat, h \in Nat : z = e.size /\ h = 1 + Extra(e)
  BY <1>2, ChunkNumbers
<1>4. R!HeaderRead(s).size = z
  BY <1>1, <1>3 DEF HeadOf
<1>5. ASSUME NEW i \in 1 .. z PROVE R!Place(s, i) = At(e, i)
  <2>1. (i - 1) \div rdSize[s] = (i - 1) \div e.max
    <3>1. CASE rdSize[s] = e.max
      BY <3>1
    <3>2. CASE e.size <= 1
      <4>1. i - 1 = 0 /\ e.max \in Nat \ {0}
        BY <1>2, <1>3, <3>2 DEF Message
      <4>2. \A d \in Nat \ {0} : 0 \div d = 0
        OBVIOUS
      <4> QED
        BY <1>2, <4>1, <4>2
    <3> QED
      BY <1>2, <3>1, <3>2
  <2> QED
    BY <1>1, <2>1 DEF R!Place, At
<1>6. R!MessageLen(s) = Len(x)
  <2>1. R!MessageLen(s) = LaidLen(e)
    <3>1. CASE z = 0
      BY <1>1, <1>3, <1>4, <3>1 DEF R!MessageLen, LaidLen
    <3>2. CASE z # 0
      <4>1. R!Place(s, z) = At(e, z)
        BY <1>5, <3>2
      <4> QED
        BY <1>3, <1>4, <3>2, <4>1 DEF R!MessageLen, LaidLen
    <3> QED
      BY <3>1, <3>2
  <2> QED
    BY <1>2, <2>1 DEF IsLaid
<1>7. /\ \A i \in 1 .. Len(x) : rWire[s][i] = x[i]
      /\ SubSeq(rWire[s], Len(x) + 1, Len(rWire[s])) = y
  BY <1>2, WireBegins
<1>8. SubSeq(rWire[s], R!MessageLen(s) + 1, Len(rWire[s])) = y
  BY <1>6, <1>7
<1>9. ASSUME NEW i \in 1 .. z PROVE rWire[s][R!Place(s, i)] = R!Byte(e.of, i)
  <2>1. At(e, i) \in 1 .. Len(x) /\ x[At(e, i)] = R!Byte(e.of, i)
    BY <1>2, <1>3 DEF IsLaid
  <2> QED
    BY <1>5, <1>7, <2>1
<1>10. PICK d : d = R!Data(s)
  OBVIOUS
<1>11. d = [i \in 1 .. z |-> R!Byte(e.of, i)]
  <2>1. d = [i \in 1 .. z |-> rWire[s][R!Place(s, i)]]
    BY <1>4, <1>10 DEF R!Data
  <2> QED
    BY <1>9, <2>1
<1>12. ASSUME y # <<>> => Head(y).mark = "header" PROVE R!OneMessage(s)
  <2>1. \A i \in 1 .. Len(d) : d[i].mark = "byte" /\ d[i].of = d[1].of /\ d[i].at = i
    <3>1. Len(d) = z /\ \A i \in 1 .. z : d[i].mark = "byte" /\ d[i].of = e.of /\ d[i].at = i
      BY <1>11 DEF R!Byte
    <3>2. \A i \in 1 .. z : 1 \in 1 .. z
      OBVIOUS
    <3> QED
      BY <3>1, <3>2
  <2>2. y # <<>> => y[1].mark = "header"
    BY <1>2, <1>12
  <2> QED
    BY <1>8, <1>10, <2>1, <2>2 DEF R!OneMessage
<1> QED
  BY <1>3, <1>6, <1>8, <1>10, <1>11, <1>12

(* The messages w that a side has not read yet: they are what is on its    *)
(* wire, each is read as the one before it says, and the size of the       *)
(* chunks is known when it is needed.  phase: 0, the other side has not    *)
(* begun; 1, it has; 2, it has said its last command; 3, that was read.    *)
Carries(w, x, c, rdsize, wrsize, phase) ==
  /\ w \in Seq(Message) /\ x = OnWire(w)
  /\ c \in ChunkHead /\ rdsize \in Nat \ {0} /\ wrsize \in Nat \ {0}
  /\ \A j \in 1 .. Len(w) :
       /\ Continues(IF j = 1 THEN c ELSE HeadOf(w[j - 1]), w[j])
       /\ w[j].max = wrsize
       /\ w[j].tag = "size" => j = 1 /\ w[j].size = 1 /\ w[j].of = wrsize
  /\ w = <<>> => phase = 0 \/ rdsize = wrsize
  /\ w # <<>> => w[1].tag = "size" \/ rdsize = wrsize

LastHead(c, w) == IF w = <<>> THEN c ELSE HeadOf(w[Len(w)])

(* The first b of them are commands, and the last of these is the last     *)
(* command there is, when it has been said; the others are media.          *)
Commands == {"size", "command"}
Final(s, e) ==
  /\ e.tag = "command"
  /\ IF s = "client" THEN e.of = R!Command("onStatus", 0) ELSE e.of.cmd \in {"publish", "play"}
Order(s, w, b, phase) ==
  /\ b \in 0 .. Len(w) /\ phase \in 0 .. 3
  /\ phase = 0 => w = <<>>
  /\ \A j \in 1 .. b : w[j].tag \in Commands /\ (Final(s, w[j]) => j = b /\ phase = 2)
  /\ \A j \in b + 1 .. Len(w) : w[j].tag \in MediaTags
  /\ b < Len(w) => phase >= 2
  /\ phase = 2 => b > 0 /\ Final(s, w[b])
  /\ phase = 3 => b = 0

(* A list and one more. *)
LEMMA OneMore ==
  ASSUME NEW Q, NEW w \in Seq(Q), NEW e \in Q
  PROVE  /\ Append(w, e) \in Seq(Q) /\ Append(w, e) # <<>>
         /\ Len(w) \in Nat /\ Len(Append(w, e)) = Len(w) + 1
         /\ Append(w, e)[Len(w) + 1] = e
         /\ \A j \in 1 .. Len(w) : Append(w, e)[j] = w[j]
<1>1. /\ Append(w, e) \in Seq(Q) /\ Len(w) \in Nat /\ Len(Append(w, e)) = Len(w) + 1
      /\ Append(w, e)[Len(w) + 1] = e
      /\ \A j \in 1 .. Len(w) : Append(w, e)[j] = w[j]
  BY AppendProperties, LenProperties
<1>2. Append(w, e) # <<>>
  <2>1. Len(Append(w, e)) # 0
    BY <1>1
  <2> QED
    BY <2>1, EmptySeq
<1> QED
  BY <1>1, <1>2

(* A list and all but its first. *)
LEMMA OneLess ==
  ASSUME NEW Q, NEW w \in Seq(Q), w # <<>>
  PROVE  /\ Tail(w) \in Seq(Q) /\ Head(w) \in Q /\ Head(w) = w[1]
         /\ Len(Tail(w)) \in Nat /\ Len(w) = Len(Tail(w)) + 1
         /\ \A j \in 1 .. Len(Tail(w)) : Tail(w)[j] = w[j + 1]
<1>1. PICK n \in Nat : n = Len(w)
  BY LenProperties
<1>2. /\ Tail(w) \in Seq(Q) /\ Head(w) \in Q /\ Len(Tail(w)) = n - 1
      /\ \A j \in 1 .. Len(Tail(w)) : Tail(w)[j] = w[j + 1]
  BY <1>1, HeadTailProperties
<1>3. n # 0
  BY <1>1, EmptySeq
<1> QED
  BY <1>1, <1>2, <1>3

(* One message more is written. *)
LEMMA CarriesMore ==
  ASSUME NEW w, NEW x, NEW c, NEW rdsize, NEW wrsize, NEW phase, NEW e \in Message, NEW after,
         Carries(w, x, c, rdsize, wrsize, phase), Continues(LastHead(c, w), e), e.max = wrsize,
         e.tag = "size" => w = <<>> /\ e.size = 1 /\ e.of = wrsize,
         e.tag = "size" \/ phase # 0 \/ w # <<>>
  PROVE  /\ Carries(Append(w, e), x \o Laid(e), c, rdsize, wrsize, after)
         /\ LastHead(c, Append(w, e)) = HeadOf(e)
<1>1. /\ w \in Seq(Message) /\ x = OnWire(w)
      /\ c \in ChunkHead /\ rdsize \in Nat \ {0} /\ wrsize \in Nat \ {0}
      /\ \A j \in 1 .. Len(w) :
           /\ Continues(IF j = 1 THEN c ELSE HeadOf(w[j - 1]), w[j])
           /\ w[j].max = wrsize
           /\ w[j].tag = "size" => j = 1 /\ w[j].size = 1 /\ w[j].of = wrsize
      /\ w = <<>> => phase = 0 \/ rdsize = wrsize
      /\ w # <<>> => w[1].tag = "size" \/ rdsize = wrsize
  BY DEF Carries
<1>2. PICK v : v = Append(w, e)
  OBVIOUS
<1>3. PICK n \in Nat : /\ n = Len(w) /\ v \in Seq(Message) /\ v # <<>> /\ Len(v) = n + 1
                       /\ v[n + 1] = e /\ \A j \in 1 .. n : v[j] = w[j]
  BY <1>1, <1>2, OneMore
<1>4. w = <<>> <=> n = 0
  BY <1>1, <1>3, EmptySeq
<1>5. ASSUME NEW j \in 1 .. n + 1
      PROVE  /\ Continues(IF j = 1 THEN c ELSE HeadOf(v[j - 1]), v[j])
             /\ v[j].max = wrsize
             /\ v[j].tag = "size" => j = 1 /\ v[j].size = 1 /\ v[j].of = wrsize
  <2>1. CASE j = n + 1
    <3>1. LastHead(c, w) = IF j = 1 THEN c ELSE HeadOf(v[j - 1])
      <4>1. CASE n = 0
        BY <1>4, <2>1, <4>1 DEF LastHead
      <4>2. CASE n # 0
        <5>1. j # 1 /\ j - 1 = n /\ n \in 1 .. n
          BY <2>1, <4>2
        <5> QED
          BY <1>3, <1>4, <4>2, <5>1 DEF LastHead
      <4> QED
        BY <4>1, <4>2
    <3>2. v[j] = e
      BY <1>3, <2>1
    <3>3. e.tag = "size" => j = 1
      BY <1>4, <2>1
    <3> QED
      BY <3>1, <3>2, <3>3
  <2>2. CASE j # n + 1
    <3>1. j \in 1 .. n /\ (j # 1 => j - 1 \in 1 .. n)
      BY <2>2
    <3>2. v[j] = w[j] /\ (j # 1 => v[j - 1] = w[j - 1])
      BY <1>3, <3>1
    <3> QED
      BY <1>1, <1>3, <3>1, <3>2
  <2> QED
    BY <2>1, <2>2
<1>6. v[1].tag = "size" \/ rdsize = wrsize
  <2>1. CASE n = 0
    BY <1>1, <1>3, <1>4, <2>1
  <2>2. CASE n # 0
    <3>1. 1 \in 1 .. n
      BY <2>2
    <3> QED
      BY <1>1, <1>3, <1>4, <2>2, <3>1
  <2> QED
    BY <2>1, <2>2
<1>7. PICK y : y = x \o Laid(e)
  OBVIOUS
<1>8. y = OnWire(v)
  BY <1>1, <1>2, <1>7, WireMore
<1>9. Carries(v, y, c, rdsize, wrsize, after)
  BY <1>1, <1>3, <1>5, <1>6, <1>8 DEF Carries
<1>10. LastHead(c, v) = HeadOf(e)
  BY <1>3 DEF LastHead
<1> QED
  BY <1>2, <1>7, <1>9, <1>10

(* The first message is read. *)
LEMMA CarriesLess ==
  ASSUME NEW w, NEW x, NEW c, NEW rdsize, NEW wrsize, NEW phase, NEW after,
         Carries(w, x, c, rdsize, wrsize, phase), w # <<>>
  PROVE  LET e == Head(w) IN
         /\ Carries(Tail(w), OnWire(Tail(w)), HeadOf(e), IF e.tag = "size" THEN e.of ELSE rdsize,
                    wrsize, after)
         /\ LastHead(HeadOf(e), Tail(w)) = LastHead(c, w)
<1>1. /\ w \in Seq(Message)
      /\ c \in ChunkHead /\ rdsize \in Nat \ {0} /\ wrsize \in Nat \ {0}
      /\ \A j \in 1 .. Len(w) :
           /\ Continues(IF j = 1 THEN c ELSE HeadOf(w[j - 1]), w[j])
           /\ w[j].max = wrsize
           /\ w[j].tag = "size" => j = 1 /\ w[j].size = 1 /\ w[j].of = wrsize
      /\ w[1].tag = "size" \/ rdsize = wrsize
  BY DEF Carries
<1>2. PICK e, v : e = Head(w) /\ v = Tail(w)
  OBVIOUS
<1>3. PICK n \in Nat : /\ n = Len(v) /\ Len(w) = n + 1 /\ v \in Seq(Message) /\ e \in Message
                       /\ e = w[1] /\ \A j \in 1 .. n : v[j] = w[j + 1]
  BY <1>1, <1>2, OneLess
<1>4. HeadOf(e) \in ChunkHead
  BY <1>3 DEF HeadOf, ChunkHead, Message
<1>5. PICK r : r = IF e.tag = "size" THEN e.of ELSE rdsize
  OBVIOUS
<1>6. r = wrsize
  <2>1. 1 \in 1 .. Len(w)
    BY <1>3
  <2> QED
    BY <1>1, <1>3, <1>5, <2>1
<1>7. ASSUME NEW j \in 1 .. n
      PROVE  /\ Continues(IF j = 1 THEN HeadOf(e) ELSE HeadOf(v[j - 1]), v[j])
             /\ v[j].max = wrsize
             /\ v[j].tag # "size"
  <2>1. PICK i \in 1 .. Len(w) : i = j + 1 /\ i # 1 /\ i - 1 = j /\ v[j] = w[i]
    BY <1>3
  <2>2. w[i - 1] = IF j = 1 THEN e ELSE v[j - 1]
    <3>1. CASE j = 1
      BY <1>3, <2>1, <3>1
    <3>2. CASE j # 1
      <4>1. j - 1 \in 1 .. n /\ (j - 1) + 1 = j
        BY <3>2
      <4> QED
        BY <1>3, <2>1, <3>2, <4>1
    <3> QED
      BY <3>1, <3>2
  <2> QED
    BY <1>1, <2>1, <2>2
<1>8. PICK y : y = OnWire(v)
  OBVIOUS
<1>9. Carries(v, y, HeadOf(e), r, wrsize, after)
  BY <1>1, <1>3, <1>4, <1>6, <1>7, <1>8 DEF Carries
<1>10. LastHead(HeadOf(e), v) = LastHead(c, w)
  <2>1. CASE n = 0
    <3>1. v = <<>> /\ w # <<>> /\ Len(w) = 1
      <4>1. v \in Seq(Message) /\ Len(v) = 0
        BY <1>3, <2>1
      <4>2. Len(w) = 0 + 1
        BY <1>3, <2>1
      <4> QED
        BY <4>1, <4>2, EmptySeq
    <3> QED
      BY <1>3, <3>1 DEF LastHead
  <2>2. CASE n # 0
    <3>1. v # <<>> /\ n \in 1 .. n
      BY <1>3, <2>2, EmptySeq
    <3> QED
      BY <1>3, <3>1 DEF LastHead
  <2> QED
    BY <2>1, <2>2
<1> QED
  BY <1>2, <1>5, <1>8, <1>9, <1>10

(* A command is written, while the last has not been said. *)
LEMMA OrderMore ==
  ASSUME NEW s, NEW w \in Seq(Message), NEW b, NEW phase, Order(s, w, b, phase), b = Len(w),
         phase \in {0, 1}, NEW e \in Message, e.tag \in Commands,
         NEW after, after = IF Final(s, e) THEN 2 ELSE 1
  PROVE  Order(s, Append(w, e), b + 1, after)
<1>1. PICK v : v = Append(w, e)
  OBVIOUS
<1>2. PICK n \in Nat : /\ n = Len(w) /\ v \in Seq(Message) /\ Len(v) = n + 1
                       /\ v[n + 1] = e /\ \A j \in 1 .. n : v[j] = w[j]
  BY <1>1, OneMore
<1>3. b = n /\ \A j \in 1 .. n : w[j].tag \in Commands /\ ~ Final(s, w[j])
  BY <1>2 DEF Order
<1>4. ASSUME NEW j \in 1 .. n + 1
      PROVE  v[j].tag \in Commands /\ (Final(s, v[j]) => j = n + 1 /\ after = 2)
  <2>1. CASE j = n + 1
    BY <1>2, <2>1
  <2>2. CASE j # n + 1
    <3>1. j \in 1 .. n
      BY <2>2
    <3> QED
      BY <1>2, <1>3, <3>1
  <2> QED
    BY <2>1, <2>2
<1>5. /\ n + 1 \in 0 .. n + 1 /\ after \in {1, 2} /\ (after = 2 => Final(s, v[n + 1]))
      /\ \A j \in (n + 1) + 1 .. n + 1 : FALSE
  BY <1>2
<1>6. Order(s, v, n + 1, after)
  BY <1>2, <1>4, <1>5 DEF Order
<1> QED
  BY <1>1, <1>3, <1>6

(* A message of media is written, after the last command. *)
LEMMA OrderMedia ==
  ASSUME NEW s, NEW w \in Seq(Message), NEW b, NEW phase, Order(s, w, b, phase),
         phase \in {2, 3}, NEW e \in Message, e.tag \in MediaTags
  PROVE  Order(s, Append(w, e), b, phase)
<1>1. PICK v : v = Append(w, e)
  OBVIOUS
<1>2. PICK n \in Nat : /\ n = Len(w) /\ v \in Seq(Message) /\ Len(v) = n + 1
                       /\ v[n + 1] = e /\ \A j \in 1 .. n : v[j] = w[j]
  BY <1>1, OneMore
<1>3. b \in Nat /\ b <= n /\ b \in 0 .. n + 1
  BY <1>2 DEF Order
<1>4. \A j \in 1 .. b : v[j] = w[j]
  BY <1>2, <1>3
<1>5. \A j \in b + 1 .. n + 1 : v[j].tag \in MediaTags
  <2> SUFFICES ASSUME NEW j \in b + 1 .. n + 1 PROVE v[j].tag \in MediaTags
    OBVIOUS
  <2>1. CASE j = n + 1
    BY <1>2, <2>1
  <2>2. CASE j # n + 1
    <3>1. j \in b + 1 .. n /\ j \in 1 .. n
      BY <1>3, <2>2
    <3> QED
      BY <1>2, <3>1 DEF Order
  <2> QED
    BY <2>1, <2>2
<1>6. phase = 2 => b > 0 /\ Final(s, v[b])
  <2> SUFFICES ASSUME phase = 2 PROVE b > 0 /\ Final(s, v[b])
    OBVIOUS
  <2>1. b > 0 /\ Final(s, w[b])
    BY DEF Order
  <2>2. b \in 1 .. b
    BY <1>3, <2>1
  <2> QED
    BY <1>4, <2>1, <2>2
<1>7. Order(s, v, b, phase)
  BY <1>2, <1>3, <1>4, <1>5, <1>6 DEF Order
<1> QED
  BY <1>1, <1>7

(* A command is read. *)
LEMMA OrderLess ==
  ASSUME NEW s, NEW w \in Seq(Message), NEW b, NEW phase, Order(s, w, b, phase), w # <<>>,
         phase # 3, NEW after, after = IF Final(s, Head(w)) THEN 3 ELSE phase
  PROVE  /\ b - 1 \in Nat /\ Head(w).tag \in Commands /\ (Final(s, Head(w)) => phase = 2)
         /\ Order(s, Tail(w), b - 1, after)
         /\ Len(Tail(w)) - (b - 1) = Len(w) - b
<1>1. PICK e, v : e = Head(w) /\ v = Tail(w)
  OBVIOUS
<1>2. PICK n \in Nat : /\ n = Len(v) /\ Len(w) = n + 1 /\ v \in Seq(Message) /\ e \in Message
                       /\ e = w[1] /\ \A j \in 1 .. n : v[j] = w[j + 1]
  BY <1>1, OneLess
<1>3. b \in Nat /\ b <= n + 1 /\ phase \in {1, 2}
  BY <1>2 DEF Order
<1>4. b # 0
  BY <1>2, <1>3 DEF Order
<1>5. PICK a \in Nat : b = a + 1 /\ a <= n
  <2>1. b - 1 \in Nat /\ b = (b - 1) + 1 /\ b - 1 <= n
    BY <1>2, <1>3, <1>4
  <2> QED
    BY <2>1
<1>6. e.tag \in Commands /\ (Final(s, e) => b = 1 /\ phase = 2)
  <2>1. 1 \in 1 .. b
    BY <1>5
  <2> QED
    BY <1>2, <2>1 DEF Order
<1>7. ASSUME NEW j \in 1 .. a PROVE v[j].tag \in Commands /\ (Final(s, v[j]) => j = a /\ phase = 2)
  <2>1. j + 1 \in 1 .. b /\ j \in 1 .. n
    BY <1>5
  <2>2. w[j + 1].tag \in Commands /\ (Final(s, w[j + 1]) => j + 1 = b /\ phase = 2)
    BY <2>1 DEF Order
  <2> QED
    BY <1>2, <1>5, <2>1, <2>2
<1>8. ASSUME NEW j \in a + 1 .. n PROVE v[j].tag \in MediaTags
  <2>1. j + 1 \in b + 1 .. Len(w) /\ j \in 1 .. n
    BY <1>2, <1>5
  <2>2. w[j + 1].tag \in MediaTags
    BY <2>1 DEF Order
  <2> QED
    BY <1>2, <2>1, <2>2
<1>9. a < n => phase = 2
  BY <1>2, <1>3, <1>5 DEF Order
<1>10. ASSUME phase = 2, ~ Final(s, e) PROVE a > 0 /\ Final(s, v[a])
  <2>1. Final(s, w[b])
    BY <1>10 DEF Order
  <2>2. b # 1
    BY <1>2, <1>10, <2>1
  <2>3. a \in 1 .. n /\ a > 0
    BY <1>5, <2>2
  <2> QED
    BY <1>2, <1>5, <2>1, <2>3
<1>11. CASE Final(s, e)
  <2>1. a = 0 /\ after = 3
    BY <1>1, <1>5, <1>6, <1>11
  <2>2. Order(s, v, a, 3)
    BY <1>2, <1>5, <1>8, <2>1 DEF Order
  <2> QED
    BY <1>1, <1>2, <1>5, <1>6, <2>1, <2>2
<1>12. CASE ~ Final(s, e)
  <2>1. after = phase
    BY <1>1, <1>12
  <2>2. a \in 0 .. n /\ phase \in 0 .. 3 /\ phase # 0 /\ phase # 3
    BY <1>3, <1>5
  <2>3. Order(s, v, a, phase)
    BY <1>2, <1>7, <1>8, <1>9, <1>10, <1>12, <2>2 DEF Order
  <2> QED
    BY <1>1, <1>2, <1>5, <1>6, <2>1, <2>3
<1> QED
  BY <1>11, <1>12

(* A message of media is read, after all commands. *)
LEMMA OrderMediaLess ==
  ASSUME NEW s, NEW w \in Seq(Message), NEW b, Order(s, w, b, 3), w # <<>>
  PROVE  b = 0 /\ Head(w).tag \in MediaTags /\ Order(s, Tail(w), 0, 3)
<1>1. PICK e, v : e = Head(w) /\ v = Tail(w)
  OBVIOUS
<1>2. PICK n \in Nat : /\ n = Len(v) /\ Len(w) = n + 1 /\ v \in Seq(Message) /\ e \in Message
                       /\ e = w[1] /\ \A j \in 1 .. n : v[j] = w[j + 1]
  BY <1>1, OneLess
<1>3. b = 0
  BY DEF Order
<1>4. \A j \in 1 .. n + 1 : w[j].tag \in MediaTags
  BY <1>2, <1>3 DEF Order
<1>5. \A j \in 1 .. n : v[j].tag \in MediaTags
  BY <1>2, <1>4
<1>6. e.tag \in MediaTags
  BY <1>2, <1>4
<1>7. Order(s, v, 0, 3)
  BY <1>2, <1>5 DEF Order
<1> QED
  BY <1>1, <1>3, <1>6, <1>7

(* The media messages that were written: k of them have been read, and the *)
(* others are those of w.                                                  *)
RtmpTag == [tag : MediaTags, size : Nat]
TagOf(e) == [tag |-> e.tag, size |-> e.size]
MediaOf(ts, la, c, w, b, k) ==
  /\ ts \in Seq(RtmpTag) /\ k \in Nat /\ Len(ts) = k + (Len(w) - b)
  /\ \A j \in 1 .. Len(w) - b : w[b + j].of = k + j /\ ts[k + j] = TagOf(w[b + j])
  /\ ts # <<>> => la = LastHead(c, w)

(* One more is written. *)
LEMMA MediaMore ==
  ASSUME NEW ts, NEW la, NEW c, NEW w \in Seq(Message), NEW b \in 0 .. Len(w), NEW k,
         MediaOf(ts, la, c, w, b, k), NEW e \in Message, e.tag \in MediaTags, e.of = Len(ts) + 1
  PROVE  MediaOf(Append(ts, TagOf(e)), HeadOf(e), c, Append(w, e), b, k)
<1>1. PICK v : v = Append(w, e)
  OBVIOUS
<1>2. PICK n \in Nat : /\ n = Len(w) /\ v \in Seq(Message) /\ v # <<>> /\ Len(v) = n + 1
                       /\ v[n + 1] = e /\ \A j \in 1 .. n : v[j] = w[j]
  BY <1>1, OneMore
<1>3. TagOf(e) \in RtmpTag
  BY DEF TagOf, RtmpTag, Message
<1>4. PICK us : us = Append(ts, TagOf(e))
  OBVIOUS
<1>5. PICK l \in Nat : /\ l = Len(ts) /\ us \in Seq(RtmpTag) /\ us # <<>> /\ Len(us) = l + 1
                       /\ us[l + 1] = TagOf(e) /\ \A j \in 1 .. l : us[j] = ts[j]
  <2>1. ts \in Seq(RtmpTag)
    BY DEF MediaOf
  <2> QED
    BY <1>3, <1>4, <2>1, OneMore
<1>6. PICK m \in Nat : n = b + m /\ b \in Nat /\ k \in Nat /\ l = k + m
  <2>1. b \in Nat /\ n - b \in Nat /\ n = b + (n - b)
    BY <1>2
  <2> QED
    BY <1>2, <1>5, <2>1 DEF MediaOf
<1>7. n - b = m /\ (n + 1) - b = m + 1
  BY <1>6
<1>8. ASSUME NEW j \in 1 .. m + 1 PROVE v[b + j].of = k + j /\ us[k + j] = TagOf(v[b + j])
  <2>1. CASE j = m + 1
    <3>1. b + j = n + 1 /\ k + j = l + 1
      BY <1>6, <2>1
    <3> QED
      BY <1>2, <1>5, <3>1
  <2>2. CASE j # m + 1
    <3>1. j \in 1 .. m /\ b + j \in 1 .. n /\ k + j \in 1 .. l
      BY <1>6, <2>2
    <3>2. w[b + j].of = k + j /\ ts[k + j] = TagOf(w[b + j])
      BY <1>2, <1>7, <3>1 DEF MediaOf
    <3> QED
      BY <1>2, <1>5, <3>1, <3>2
  <2> QED
    BY <2>1, <2>2
<1>9. HeadOf(e) = LastHead(c, v)
  BY <1>2 DEF LastHead
<1>10. Len(us) = k + (Len(v) - b) /\ Len(v) - b = m + 1
  BY <1>2, <1>5, <1>6, <1>7
<1>11. MediaOf(us, HeadOf(e), c, v, b, k)
  BY <1>5, <1>6, <1>8, <1>9, <1>10 DEF MediaOf
<1> QED
  BY <1>1, <1>4, <1>11

(* A command is written, before there is any. *)
LEMMA MediaNone ==
  ASSUME NEW ts, NEW la, NEW c, NEW w \in Seq(Message), NEW b, b = Len(w),
         MediaOf(ts, la, c, w, b, 0), NEW e \in Message
  PROVE  MediaOf(ts, la, c, Append(w, e), b + 1, 0)
<1>1. PICK v : v = Append(w, e)
  OBVIOUS
<1>2. PICK n \in Nat : n = Len(w) /\ Len(v) = n + 1
  BY <1>1, OneMore
<1>3. Len(w) - b = 0 /\ Len(v) - (b + 1) = 0
  BY <1>2
<1>4. ts \in Seq(RtmpTag) /\ Len(ts) = 0
  BY <1>3 DEF MediaOf
<1>5. ts = <<>>
  BY <1>4, EmptySeq
<1>6. MediaOf(ts, la, c, v, b + 1, 0)
  BY <1>3, <1>4, <1>5 DEF MediaOf
<1> QED
  BY <1>1, <1>6

(* A command is read. *)
LEMMA MediaWaits ==
  ASSUME NEW ts, NEW la, NEW c, NEW w \in Seq(Message), w # <<>>, NEW b \in 0 .. Len(w), b - 1 \in Nat,
         NEW k, MediaOf(ts, la, c, w, b, k),
         LastHead(HeadOf(Head(w)), Tail(w)) = LastHead(c, w)
  PROVE  MediaOf(ts, la, HeadOf(Head(w)), Tail(w), b - 1, k)
<1>1. PICK e, v : e = Head(w) /\ v = Tail(w)
  OBVIOUS
<1>2. PICK n \in Nat : n = Len(v) /\ Len(w) = n + 1 /\ \A j \in 1 .. n : v[j] = w[j + 1]
  BY <1>1, OneLess
<1>3. PICK a \in Nat : b = a + 1 /\ b - 1 = a /\ a <= n
  <2>1. b - 1 \in Nat /\ b = (b - 1) + 1 /\ b - 1 <= n
    BY <1>2
  <2> QED
    BY <2>1
<1>4. PICK m \in Nat : n = a + m /\ Len(w) - b = m /\ Len(v) - a = m
  <2>1. n - a \in Nat /\ n = a + (n - a) /\ (n + 1) - (a + 1) = n - a
    BY <1>3
  <2> QED
    BY <1>2, <1>3, <2>1
<1>5. /\ ts \in Seq(RtmpTag) /\ k \in Nat /\ Len(ts) = k + m
      /\ \A j \in 1 .. m : w[b + j].of = k + j /\ ts[k + j] = TagOf(w[b + j])
      /\ ts # <<>> => la = LastHead(c, w)
  BY <1>4 DEF MediaOf
<1>6. ASSUME NEW j \in 1 .. m PROVE w[b + j] = v[a + j]
  <2>1. a + j \in 1 .. n /\ (a + j) + 1 = b + j
    BY <1>3, <1>4
  <2> QED
    BY <1>2, <2>1
<1>7. MediaOf(ts, la, HeadOf(e), v, a, k)
  BY <1>1, <1>4, <1>5, <1>6 DEF MediaOf
<1> QED
  BY <1>1, <1>3, <1>7

(* The next is read. *)
LEMMA MediaLess ==
  ASSUME NEW ts, NEW la, NEW c, NEW w \in Seq(Message), w # <<>>, NEW k, MediaOf(ts, la, c, w, 0, k),
         LastHead(HeadOf(Head(w)), Tail(w)) = LastHead(c, w)
  PROVE  /\ k \in Nat /\ k + 1 <= Len(ts) /\ Head(w).of = k + 1 /\ ts[k + 1] = TagOf(Head(w))
         /\ MediaOf(ts, la, HeadOf(Head(w)), Tail(w), 0, k + 1)
<1>1. PICK e, v : e = Head(w) /\ v = Tail(w)
  OBVIOUS
<1>2. PICK n \in Nat : n = Len(v) /\ Len(w) = n + 1 /\ w[1] = e /\ \A j \in 1 .. n : v[j] = w[j + 1]
  BY <1>1, OneLess
<1>3. Len(w) - 0 = n + 1 /\ Len(v) - 0 = n
  BY <1>2
<1>4. /\ ts \in Seq(RtmpTag) /\ k \in Nat /\ Len(ts) = k + (n + 1)
      /\ \A j \in 1 .. n + 1 : w[0 + j].of = k + j /\ ts[k + j] = TagOf(w[0 + j])
      /\ ts # <<>> => la = LastHead(c, w)
  BY <1>3 DEF MediaOf
<1>5. \A j \in 1 .. n + 1 : w[j].of = k + j /\ ts[k + j] = TagOf(w[j])
  <2>1. \A j \in 1 .. n + 1 : 0 + j = j
    BY <1>2
  <2> QED
    BY <1>4, <2>1
<1>6. 1 \in 1 .. n + 1
  BY <1>2
<1>7. e.of = k + 1 /\ ts[k + 1] = TagOf(e)
  BY <1>2, <1>5, <1>6
<1>8. ASSUME NEW j \in 1 .. n
      PROVE  v[0 + j].of = (k + 1) + j /\ ts[(k + 1) + j] = TagOf(v[0 + j])
  <2>1. j + 1 \in 1 .. n + 1 /\ k + (j + 1) = (k + 1) + j /\ 0 + j = j
    BY <1>2, <1>4
  <2>2. w[j + 1].of = k + (j + 1) /\ ts[k + (j + 1)] = TagOf(w[j + 1])
    BY <1>5, <2>1
  <2> QED
    BY <1>2, <2>1, <2>2
<1>9. Len(ts) = (k + 1) + n /\ k + 1 <= Len(ts)
  BY <1>2, <1>4
<1>10. MediaOf(ts, la, HeadOf(e), v, 0, k + 1)
  BY <1>1, <1>3, <1>4, <1>8, <1>9 DEF MediaOf
<1> QED
  BY <1>1, <1>4, <1>7, <1>9, <1>10

(* The FLV stream: a header, and the tags of the first k messages.         *)
FlvByte == [of : Nat, at : Nat, size : Nat]
TagByte(ts, n, x) == [of |-> n, at |-> x - 1, size |-> ts[n].size]
TagList(ts, n) == [x \in 1 .. ts[n].size + 1 |-> TagByte(ts, n, x)]
TagLists(ts) == [n \in 1 .. Len(ts) |-> TagList(ts, n)]
FlvTags(ts, k) == L!Firsts(TagLists(ts), k)
Flv(ts, k) == <<R!FileHeader>> \o FlvTags(ts, k)

(* They are lists of bytes. *)
LEMMA TagListFacts ==
  ASSUME NEW ts \in Seq(RtmpTag)
  PROVE  /\ Len(ts) \in Nat
         /\ TagLists(ts) \in Seq(Seq(FlvByte)) /\ Len(TagLists(ts)) = Len(ts)
         /\ \A n \in 1 .. Len(ts) :
              /\ ts[n] \in RtmpTag /\ ts[n].size \in Nat
              /\ TagLists(ts)[n] = TagList(ts, n)
              /\ TagList(ts, n) \in Seq(FlvByte) /\ Len(TagList(ts, n)) = ts[n].size + 1
              /\ \A x \in 1 .. ts[n].size + 1 : TagList(ts, n)[x] = TagByte(ts, n, x)
<1>1. PICK l \in Nat : l = Len(ts)
  BY LenProperties
<1>2. ASSUME NEW n \in 1 .. l
      PROVE  /\ ts[n] \in RtmpTag /\ ts[n].size \in Nat
             /\ TagList(ts, n) \in Seq(FlvByte) /\ Len(TagList(ts, n)) = ts[n].size + 1
             /\ \A x \in 1 .. ts[n].size + 1 : TagList(ts, n)[x] = TagByte(ts, n, x)
  <2>1. ts[n] \in RtmpTag
    BY <1>1, ElementOfSeq
  <2>2. PICK z \in Nat : z = ts[n].size
    BY <2>1 DEF RtmpTag
  <2>3. TagList(ts, n) = [x \in 1 .. z + 1 |-> TagByte(ts, n, x)]
    BY <2>2 DEF TagList
  <2>4. ASSUME NEW x \in 1 .. z + 1 PROVE TagByte(ts, n, x) \in FlvByte
    <3>1. x - 1 \in Nat /\ n \in Nat
      OBVIOUS
    <3> QED
      BY <2>2, <3>1 DEF TagByte, FlvByte
  <2>5. TagList(ts, n) \in Seq(FlvByte) /\ Len(TagList(ts, n)) = z + 1
    BY <2>3, <2>4
  <2> QED
    BY <2>1, <2>2, <2>3, <2>5
<1>3. TagLists(ts) = [n \in 1 .. l |-> TagList(ts, n)]
  BY <1>1 DEF TagLists
<1>4. TagLists(ts) \in Seq(Seq(FlvByte)) /\ Len(TagLists(ts)) = l
  BY <1>2, <1>3
<1> QED
  BY <1>1, <1>2, <1>3, <1>4

(* Where a tag is among the others. *)
LEMMA TagPlace ==
  ASSUME NEW ts \in Seq(RtmpTag), NEW k \in 0 .. Len(ts), NEW h \in 0 .. k
  PROVE  /\ FlvTags(ts, k) \in Seq(FlvByte) /\ FlvTags(ts, h) \in Seq(FlvByte)
         /\ Len(FlvTags(ts, k)) \in Nat /\ Len(FlvTags(ts, h)) \in Nat
         /\ FlvTags(ts, 0) = <<>>
         /\ \E t \in Seq(FlvByte) : FlvTags(ts, k) = FlvTags(ts, h) \o t
         /\ h < k =>
              /\ h + 1 \in 1 .. Len(ts) /\ ts[h + 1].size \in Nat
              /\ FlvTags(ts, h + 1) = FlvTags(ts, h) \o TagList(ts, h + 1)
              /\ Len(FlvTags(ts, h + 1)) = Len(FlvTags(ts, h)) + (ts[h + 1].size + 1)
              /\ Len(FlvTags(ts, h)) + (ts[h + 1].size + 1) <= Len(FlvTags(ts, k))
              /\ \A x \in 1 .. ts[h + 1].size + 1 :
                   FlvTags(ts, k)[Len(FlvTags(ts, h)) + x] = TagByte(ts, h + 1, x)
<1>1. PICK f \in Seq(Seq(FlvByte)), l \in Nat : f = TagLists(ts) /\ l = Len(ts)
  BY TagListFacts
<1>2. Len(f) = l /\ k \in Nat /\ h \in Nat /\ k <= l /\ h <= k /\ k \in 0 .. Len(f) /\ h \in 0 .. Len(f)
  <2>1. Len(f) = l
    BY <1>1, TagListFacts
  <2>2. k \in 0 .. l /\ h \in 0 .. k
    BY <1>1
  <2>3. k \in Nat /\ h \in Nat /\ k <= l /\ h <= k
    BY <2>2
  <2> QED
    BY <2>1, <2>3
<1>3. PICK a \in Seq(FlvByte), c \in Seq(FlvByte) : a = FlvTags(ts, h) /\ c = FlvTags(ts, k)
  BY <1>1, <1>2, L!FirstsStep DEF FlvTags
<1>4. FlvTags(ts, 0) = <<>>
  BY <1>1, <1>2, L!FirstsStep DEF FlvTags
<1>5. PICK t \in Seq(FlvByte) : c = a \o t
  BY <1>1, <1>2, <1>3, L!FirstsBetween DEF FlvTags
<1>6. ASSUME h < k
      PROVE  /\ h + 1 \in 1 .. Len(ts) /\ ts[h + 1].size \in Nat
             /\ FlvTags(ts, h + 1) = a \o TagList(ts, h + 1)
             /\ Len(FlvTags(ts, h + 1)) = Len(a) + (ts[h + 1].size + 1)
             /\ Len(a) + (ts[h + 1].size + 1) <= Len(c)
             /\ \A x \in 1 .. ts[h + 1].size + 1 : c[Len(a) + x] = TagByte(ts, h + 1, x)
  <2>1. h + 1 \in 1 .. l /\ h + 1 \in 0 .. k /\ h + 1 <= Len(f)
    BY <1>2, <1>6
  <2>2. PICK g \in Seq(FlvByte), z \in Nat :
          /\ g = TagList(ts, h + 1) /\ z = ts[h + 1].size
          /\ Len(g) = z + 1 /\ f[h + 1] = g
          /\ \A x \in 1 .. z + 1 : g[x] = TagByte(ts, h + 1, x)
    BY <1>1, <2>1, TagListFacts
  <2>3. PICK d : d = FlvTags(ts, h + 1)
    OBVIOUS
  <2>4. d = a \o g
    BY <1>1, <1>2, <1>3, <2>1, <2>2, <2>3, L!FirstsStep DEF FlvTags
  <2>5. PICK u \in Seq(FlvByte) : c = d \o u
    BY <1>1, <1>2, <1>3, <2>1, <2>3, L!FirstsBetween DEF FlvTags
  <2>6. PICK m \in Nat, n \in Nat : m = Len(a) /\ n = Len(u)
    BY LenProperties
  <2>7. /\ d \in Seq(FlvByte) /\ Len(d) = m + (z + 1)
        /\ \A x \in 1 .. m + (z + 1) : d[x] = IF x <= m THEN a[x] ELSE g[x - m]
    <3>1. PICK y \in Nat : y = z + 1
      OBVIOUS
    <3>2. a \in Seq(FlvByte) /\ g \in Seq(FlvByte) /\ Len(a) = m /\ Len(g) = y
      BY <2>2, <2>6, <3>1
    <3>3. /\ d \in Seq(FlvByte) /\ Len(d) = m + y
          /\ \A x \in 1 .. m + y : d[x] = IF x <= m THEN a[x] ELSE g[x - m]
      BY ONLY <2>4, <3>2, ConcatProperties
    <3> QED
      BY <3>1, <3>3
  <2>8. /\ Len(c) = (m + (z + 1)) + n
        /\ \A x \in 1 .. (m + (z + 1)) + n :
             c[x] = IF x <= m + (z + 1) THEN d[x] ELSE u[x - (m + (z + 1))]
    <3>1. PICK y \in Nat : y = m + (z + 1) /\ Len(d) = y
      BY <2>7
    <3>2. Len(c) = y + n /\ \A x \in 1 .. y + n : c[x] = IF x <= y THEN d[x] ELSE u[x - y]
      <4>1. d \in Seq(FlvByte) /\ u \in Seq(FlvByte) /\ Len(d) = y /\ Len(u) = n
        BY <2>6, <2>7, <3>1
      <4> QED
        BY ONLY <2>5, <4>1, ConcatProperties
    <3> QED
      BY <3>1, <3>2
  <2>9. ASSUME NEW x \in 1 .. z + 1 PROVE c[m + x] = TagByte(ts, h + 1, x)
    <3>1. /\ m + x \in 1 .. m + (z + 1) /\ m + x \in 1 .. (m + (z + 1)) + n
          /\ m + x <= m + (z + 1) /\ ~ (m + x <= m) /\ (m + x) - m = x
      OBVIOUS
    <3>2. c[m + x] = d[m + x]
      BY <2>8, <3>1
    <3>3. d[m + x] = g[x]
      BY <2>7, <3>1
    <3> QED
      BY <2>2, <3>2, <3>3
  <2>10. m + (z + 1) <= Len(c)
    BY <2>8
  <2> QED
    BY <1>1, <2>1, <2>2, <2>3, <2>4, <2>6, <2>7, <2>9, <2>10
<1> QED
  BY <1>3, <1>4, <1>5, <1>6, LenProperties


(* The FLV stream is its header and then the tags. *)
LEMMA FlvIs ==
  ASSUME NEW ts \in Seq(RtmpTag), NEW k \in 0 .. Len(ts)
  PROVE  /\ Flv(ts, k) \in Seq(FlvByte) /\ Len(Flv(ts, k)) = 1 + Len(FlvTags(ts, k))
         /\ \A x \in 1 .. Len(FlvTags(ts, k)) : Flv(ts, k)[1 + x] = FlvTags(ts, k)[x]
         /\ Flv(ts, 0) = <<R!FileHeader>>
         /\ R!Last(Flv(ts, k)).of = k
<1>1. PICK c \in Seq(FlvByte), l \in Nat : c = FlvTags(ts, k) /\ l = Len(ts)
  <2>1. PICK l \in Nat : l = Len(ts)
    BY LenProperties
  <2>2. 0 \in 0 .. k /\ 0 \in 0 .. l /\ k \in Nat
    BY <2>1
  <2> QED
    BY <2>1, <2>2, TagPlace
<1>2. PICK m \in Nat : m = Len(c)
  BY LenProperties
<1>3. PICK hd \in Seq(FlvByte) : hd = <<R!FileHeader>> /\ Len(hd) = 1 /\ hd[1] = R!FileHeader
  <2>1. R!FileHeader \in FlvByte
    BY DEF R!FileHeader, FlvByte
  <2>2. <<R!FileHeader>> \in Seq(FlvByte) /\ Len(<<R!FileHeader>>) = 1
        /\ <<R!FileHeader>>[1] = R!FileHeader
    BY <2>1
  <2> QED
    BY <2>2
<1>4. PICK g : g = Flv(ts, k)
  OBVIOUS
<1>5. g = hd \o c
  BY <1>1, <1>3, <1>4 DEF Flv
<1>6. /\ g \in Seq(FlvByte) /\ Len(g) = 1 + m
      /\ \A x \in 1 .. 1 + m : g[x] = IF x <= 1 THEN hd[x] ELSE c[x - 1]
  <2>1. PICK o \in Nat : o = 1
    OBVIOUS
  <2>2. hd \in Seq(FlvByte) /\ c \in Seq(FlvByte) /\ Len(hd) = o /\ Len(c) = m
    BY <1>2, <1>3, <2>1
  <2>3. /\ g \in Seq(FlvByte) /\ Len(g) = o + m
        /\ \A x \in 1 .. o + m : g[x] = IF x <= o THEN hd[x] ELSE c[x - o]
    BY ONLY <1>5, <2>2, ConcatProperties
  <2> QED
    BY <2>1, <2>3
<1>7. ASSUME NEW x \in 1 .. m PROVE g[1 + x] = c[x]
  <2>1. 1 + x \in 1 .. 1 + m /\ ~ (1 + x <= 1) /\ (1 + x) - 1 = x
    OBVIOUS
  <2> QED
    BY <1>6, <2>1
<1>8. Flv(ts, 0) = <<R!FileHeader>>
  <2>1. FlvTags(ts, 0) = <<>>
    <3>1. 0 \in 0 .. l /\ 0 \in 0 .. 0
      OBVIOUS
    <3> QED
      BY <1>1, <3>1, TagPlace
  <2>2. hd \o <<>> = hd
    BY ConcatEmptySeq
  <2> QED
    BY <1>3, <2>1, <2>2 DEF Flv
<1>9. g[Len(g)].of = k
  <2>1. CASE k = 0
    <3>1. m = 0
      BY <1>1, <1>2, <1>8, <1>4, <1>3, <1>6, <2>1
    <3>2. g[Len(g)] = R!FileHeader
      BY <1>3, <1>6, <3>1
    <3> QED
      BY <2>1, <3>2 DEF R!FileHeader
  <2>2. CASE k # 0
    <3>1. PICK h \in Nat : k = h + 1 /\ h \in 0 .. k /\ h < k /\ k \in 0 .. l /\ k \in 0 .. k
      <4>1. k \in Nat /\ k <= l
        BY <1>1
      <4>2. k - 1 \in Nat /\ k = (k - 1) + 1 /\ k - 1 \in 0 .. k /\ k - 1 < k
        BY <2>2, <4>1
      <4> QED
        BY <4>1, <4>2
    <3>2. PICK z \in Nat, a \in Nat :
            /\ z = ts[k].size /\ a = Len(FlvTags(ts, h)) /\ m = a + (z + 1)
            /\ \A x \in 1 .. z + 1 : c[a + x] = TagByte(ts, k, x)
      BY <1>1, <1>2, <3>1, TagPlace
    <3>3. z + 1 \in 1 .. z + 1 /\ m \in 1 .. m
      BY <3>2, SMTT(30)
    <3>4. g[1 + m] = TagByte(ts, k, z + 1)
      BY <1>7, <3>2, <3>3
    <3> QED
      BY <1>6, <3>4 DEF TagByte
  <2> QED
    BY <2>1, <2>2
<1>10. R!Last(g) = g[Len(g)]
  BY DEF R!Last
<1> QED
  BY <1>1, <1>2, <1>4, <1>6, <1>7, <1>8, <1>9, <1>10

(* The next tag goes behind the others. *)
LEMMA FlvMore ==
  ASSUME NEW ts \in Seq(RtmpTag), NEW k \in Nat, k + 1 <= Len(ts)
  PROVE  Flv(ts, k + 1) = Flv(ts, k) \o TagList(ts, k + 1)
<1>1. PICK l \in Nat : l = Len(ts)
  BY LenProperties
<1>2. k \in 0 .. l /\ k + 1 \in 0 .. l /\ k \in 0 .. k + 1 /\ k < k + 1 /\ k + 1 \in 1 .. l
  BY <1>1
<1>3. PICK a \in Seq(FlvByte), g \in Seq(FlvByte), hd \in Seq(FlvByte) :
        a = FlvTags(ts, k) /\ g = TagList(ts, k + 1) /\ hd = <<R!FileHeader>>
  <2>1. R!FileHeader \in FlvByte
    BY DEF R!FileHeader, FlvByte
  <2>2. <<R!FileHeader>> \in Seq(FlvByte)
    BY <2>1
  <2>3. FlvTags(ts, k) \in Seq(FlvByte)
    BY <1>1, <1>2, TagPlace
  <2> QED
    BY <1>1, <1>2, <2>2, <2>3, TagListFacts
<1>4. FlvTags(ts, k + 1) = a \o g
  BY <1>1, <1>2, <1>3, TagPlace
<1>5. hd \o (a \o g) = (hd \o a) \o g
  BY ONLY hd \in Seq(FlvByte), a \in Seq(FlvByte), g \in Seq(FlvByte), ConcatAssociative, SMTT(30)
<1> QED
  BY <1>3, <1>4, <1>5 DEF Flv

(* Messages that are written later change nothing of it. *)
LEMMA FlvSame ==
  ASSUME NEW ts \in Seq(RtmpTag), NEW e \in RtmpTag, NEW k \in 0 .. Len(ts)
  PROVE  /\ FlvTags(Append(ts, e), k) = FlvTags(ts, k) /\ Flv(Append(ts, e), k) = Flv(ts, k)
         /\ \A n \in 1 .. k, x \in Nat : TagByte(Append(ts, e), n, x) = TagByte(ts, n, x)
<1>1. PICK l \in Nat : l = Len(ts)
  BY LenProperties
<1>a. PICK v : v = Append(ts, e)
  OBVIOUS
<1>2. v \in Seq(RtmpTag) /\ Len(v) = l + 1 /\ \A n \in 1 .. l : v[n] = ts[n]
  BY <1>1, <1>a, OneMore
<1>3. k \in Nat /\ k <= l
  BY <1>1
<1>4. \A n \in 1 .. k : n \in 1 .. l /\ n \in 1 .. l + 1
  BY <1>3
<1>5. \A n \in 1 .. k, x \in Nat : TagByte(v, n, x) = TagByte(ts, n, x)
  BY <1>2, <1>4 DEF TagByte
<1>6. ASSUME NEW n \in 1 .. k PROVE TagLists(v)[n] = TagLists(ts)[n]
  <2>1. v[n] = ts[n] /\ TagLists(v)[n] = TagList(v, n) /\ TagLists(ts)[n] = TagList(ts, n)
    BY <1>1, <1>2, <1>4, TagListFacts
  <2> QED
    BY <2>1 DEF TagList, TagByte
<1>7. FlvTags(v, k) = FlvTags(ts, k)
  BY <1>6, L!FirstsSame DEF FlvTags
<1>8. Flv(v, k) = Flv(ts, k)
  BY <1>7 DEF Flv
<1> QED
  BY <1>a, <1>5, <1>7, <1>8

(* All that was written. *)
LEMMA WrittenIs ==
  ASSUME tags \in Seq(RtmpTag)
  PROVE  R!Written = FlvTags(tags, Len(tags))
<1>1. PICK ts \in Seq(RtmpTag), l \in Nat : ts = tags /\ l = Len(ts)
  BY LenProperties
<1>2. ASSUME NEW n \in 1 .. l
      PROVE  [i \in 1 .. ts[n].size + 1 |-> [of |-> n, at |-> i - 1, size |-> ts[n].size]]
               = TagList(ts, n)
  BY DEF TagList, TagByte
<1>3. PICK f : f = TagLists(ts)
  OBVIOUS
<1>4. f = [n \in 1 .. l |->
             [i \in 1 .. ts[n].size + 1 |-> [of |-> n, at |-> i - 1, size |-> ts[n].size]]]
  BY <1>1, <1>2, <1>3 DEF TagLists
<1>5. R!Written = R!FlattenSeq(f)
  BY <1>1, <1>4 DEF R!Written
<1>6. [n \in 1 .. l |-> f[n]] = f
  BY <1>4
<1>7. L!FlattenSeq(f) = FlvTags(ts, l)
  BY <1>3, <1>6 DEF FlvTags, L!Firsts
<1> QED
  BY <1>1, <1>5, <1>7, SameFlattenR

(* The step of the client's program that publishes or plays.               *)
Turn == IF mode = "publish" THEN 7 ELSE 5

(* What the messages to a side are for: the other side has begun, it has   *)
(* said its last command, and that has been read.                          *)
Opened(s) == IF s = "client" THEN sAt # "new" ELSE cAt > 0
Spoken(s) == IF s = "client" THEN sAt = "run" ELSE cAt > Turn
Done(s) == IF s = "client" THEN cAt = Turn + 2 ELSE sAt \in {"start", "run", "gone"}
Phase(s) == IF Done(s) THEN 3 ELSE IF Spoken(s) THEN 2 ELSE IF Opened(s) THEN 1 ELSE 0

ControlOK ==
  /\ mode \in {"publish", "play"} /\ broken = FALSE
  /\ cAt \in 0 .. Turn + 2 /\ sAt \in {"new", "commands", "start", "run", "gone"}
  /\ sAt # "new" => cAt > 0
  /\ \A s \in R!Sides : Done(s) => Spoken(s)
  /\ rWire \in [R!Sides -> Seq(RtmpMark)] /\ chunks \in [R!Sides -> ChunkHead]
  /\ rdSize \in [R!Sides -> Nat \ {0}] /\ wrSize \in [R!Sides -> Nat \ {0}]
  /\ last \in ChunkHead /\ (tags = <<>> => last = R!NoChunk)

(* h tags of the FLV stream have been read, and got of the next.           *)
GotOf(h, k) ==
  /\ got \in Seq(FlvByte) /\ Place(frd) = (1 + Len(FlvTags(tags, h))) + Len(got)
  /\ got # <<>> => h < k /\ Len(got) < tags[h + 1].size + 1
  /\ \A x \in 1 .. Len(got) : got[x] = TagByte(tags, h + 1, x)
FlvReading(k) ==
  /\ ReaderOK(frd) /\ frd.net <= Len(flv)
  /\ \E h \in 0 .. k : GotOf(h, k) /\ (fAt = "start" => L!FlattenSeq(rHanded) = FlvTags(tags, h))

(* What flv.Producer does with the stream, of k messages so far.           *)
FlvAt(k) ==
  /\ k \in 0 .. Len(tags) /\ tags \in Seq(RtmpTag)
  /\ rHanded \in Seq(Seq(FlvByte)) /\ (fAt # "start" => rHanded = <<>>)
  /\ \/ fAt = "off" /\ k = 0 /\ flv = <<>> /\ frd = B!NewReadBuffer /\ got = <<>>
     \/ /\ flv = Flv(tags, k) /\ Done(R!Reader)
        /\ \/ fAt = "header" /\ frd = B!NewReadBuffer /\ got = <<>>
           \/ /\ fAt \in {"check", "probe"} /\ frd.size = ProbeTags /\ frd.net - Len(frd.buf) = 1
              /\ (fAt = "check" => got = <<>>) /\ FlvReading(k)
           \/ fAt = "start" /\ frd.size <= 0 /\ FlvReading(k)
           \/ fAt = "failed" /\ frd.net > ProbeTags

(* What is on the way to a side; where it is media, k messages of it have  *)
(* been read before.                                                       *)
SideOK(s, w, b, k) ==
  /\ Carries(w, rWire[s], chunks[s], rdSize[s], wrSize[R!Peer(s)], Phase(s))
  /\ Order(s, w, b, Phase(s))
  /\ IF s = R!Reader THEN MediaOf(tags, last, chunks[s], w, b, k) /\ FlvAt(k) ELSE b = Len(w)

RtmpInv == ControlOK /\ \A s \in R!Sides : \E w, b, k : SideOK(s, w, b, k)

(* What the client's program is. *)
LEMMA ProgramFacts ==
  ASSUME mode \in {"publish", "play"}
  PROVE  /\ Turn \in {5, 7} /\ Len(R!Program) = Turn + 2
         /\ \A c \in 1 .. Turn + 2 :
              /\ R!Program[c] \in DOMAIN R!Asks =>
                   /\ c <= Turn /\ R!Program[c] \notin DOMAIN R!Waits
                   /\ R!Command(R!Program[c], R!Asks[R!Program[c]]) \in Cmds
                   /\ R!Program[c] \in {"publish", "play"} <=> c = Turn
              /\ R!Program[c] \in DOMAIN R!Waits =>
                   /\ c # Turn /\ c <= Turn + 1
                   /\ R!Waits[R!Program[c]] = R!Command("onStatus", 0) <=> c = Turn + 1
<1>1. R!Waits = [connected |-> R!Command("_result", 1), created |-> R!Command("_result", 4),
                 started |-> R!Command("onStatus", 0)]
  BY DEF R!Waits
<1>2. DOMAIN R!Waits = {"connected", "created", "started"}
  BY <1>1
<1>3. DOMAIN R!Asks = {"connect", "releaseStream", "FCPublish", "createStream", "publish", "play"}
  BY DEF R!Asks
<1>4. /\ R!Asks.connect = 1 /\ R!Asks.releaseStream = 2 /\ R!Asks.FCPublish = 3
      /\ R!Asks.createStream = 4 /\ R!Asks.publish = 5 /\ R!Asks.play = 5
  BY DEF R!Asks
<1>5. /\ R!Waits.connected # R!Command("onStatus", 0) /\ R!Waits.created # R!Command("onStatus", 0)
      /\ R!Waits.started = R!Command("onStatus", 0)
  BY <1>1 DEF R!Command
<1>6. \A x \in DOMAIN R!Asks : R!Command(x, R!Asks[x]) \in Cmds
  BY <1>3, <1>4 DEF R!Command, Cmds
<1>7. CASE mode = "publish"
  <2>1. /\ R!Program = <<"connect", "connected", "releaseStream", "FCPublish", "createStream", "created",
                         "publish", "started", "run">>
        /\ Turn = 7
    BY <1>7 DEF R!Program, Turn
  <2>2. /\ Len(R!Program) = 9 /\ R!Program[1] = "connect" /\ R!Program[2] = "connected"
        /\ R!Program[3] = "releaseStream" /\ R!Program[4] = "FCPublish"
        /\ R!Program[5] = "createStream" /\ R!Program[6] = "created" /\ R!Program[7] = "publish"
        /\ R!Program[8] = "started" /\ R!Program[9] = "run"
    BY <2>1
  <2>3. \A c \in 1 .. Turn + 2 : c \in {1, 2, 3, 4, 5, 6, 7, 8, 9}
    BY <2>1
  <2> QED
    BY <1>2, <1>3, <1>5, <1>6, <2>1, <2>2, <2>3
<1>8. CASE mode = "play"
  <2>1. /\ R!Program = <<"connect", "connected", "createStream", "created", "play", "started", "run">>
        /\ Turn = 5
    BY <1>8 DEF R!Program, Turn
  <2>2. /\ Len(R!Program) = 7 /\ R!Program[1] = "connect" /\ R!Program[2] = "connected"
        /\ R!Program[3] = "createStream" /\ R!Program[4] = "created" /\ R!Program[5] = "play"
        /\ R!Program[6] = "started" /\ R!Program[7] = "run"
    BY <2>1
  <2>3. \A c \in 1 .. Turn + 2 : c \in {1, 2, 3, 4, 5, 6, 7}
    BY <2>1
  <2> QED
    BY <1>2, <1>3, <1>5, <1>6, <2>1, <2>2, <2>3
<1> QED
  BY <1>7, <1>8

(* The sides, and who reads the media. *)
LEMMA SideFacts ==
  /\ R!Sides = {"client", "server"}
  /\ \A s \in R!Sides : R!Peer(s) \in R!Sides /\ R!Peer(s) # s /\ R!Peer(R!Peer(s)) = s
  /\ mode \in {"publish", "play"} => R!Reader \in R!Sides /\ R!Peer(R!Reader) = R!Writer
  /\ R!Reader = "client" <=> R!Writer = "server"
  BY DEF R!Sides, R!Peer, R!Reader, R!Writer

(* What a message is written as goes behind what is on the wire. *)
LEMMA MessageIs ==
  ASSUME NEW type \in 0 .. 3, NEW raw \in Nat, NEW size \in Nat, NEW tag \in Tags,
         NEW of \in Sayings, NEW max \in Nat \ {0}, tag = "command" => of \in Cmds /\ size > 0
  PROVE  LET e == [type |-> type, raw |-> raw, size |-> size, tag |-> tag, of |-> of, max |-> max]
         IN  e \in Message /\ Laid(e) = R!Chunks(type, raw, size, tag, of, max)
  BY DEF Message, Laid

(* The first of what is on a wire is a header. *)
LEMMA WireTop ==
  ASSUME NEW w \in Seq(Message), NEW z, z = OnWire(w)
  PROVE  z \in Seq(RtmpMark) /\ (z = <<>> <=> w = <<>>) /\ (z # <<>> => Head(z).mark = "header")
<1>1. CASE w = <<>>
  BY <1>1, WireEmpty, EmptySeq
<1>2. CASE w # <<>>
  <2>1. PICK e, v : e = Head(w) /\ v = Tail(w)
    OBVIOUS
  <2>2. PICK x, y : x = Laid(e) /\ y = OnWire(v)
    OBVIOUS
  <2>3. e \in Message /\ IsLaid(x, e) /\ y \in Seq(RtmpMark) /\ z = x \o y
    BY <1>2, <2>1, <2>2, WireFirst
  <2>4. x \in Seq(RtmpMark)
    BY <2>3 DEF IsLaid
  <2>5. z \in Seq(RtmpMark)
    BY <2>3, <2>4, ConcatProperties
  <2>6. Joined(z, x, y)
    BY <2>3, <2>5 DEF Joined
  <2>7. z # <<>> /\ Head(z).mark = "header"
    BY <2>3, <2>6, WireBegins
  <2> QED
    BY <1>2, <2>5, <2>7
<1> QED
  BY <1>1, <1>2

(* Nothing has been sent. *)
LEMMA RtmpInit == R!Init => RtmpInv
<1> SUFFICES ASSUME R!Init PROVE RtmpInv
  OBVIOUS
<1>1. /\ mode \in {"publish", "play"} /\ cAt = 0 /\ sAt = "new" /\ broken = FALSE
      /\ rWire = [s \in R!Sides |-> <<>>] /\ wrSize \in [R!Sides -> {Small, Big}]
      /\ rdSize = [s \in R!Sides |-> Small] /\ chunks = [s \in R!Sides |-> R!NoChunk]
      /\ last = R!NoChunk /\ tags = <<>> /\ flv = <<>> /\ fAt = "off"
      /\ frd = R!NewReadBuffer /\ got = <<>> /\ rHanded = <<>>
  BY DEF R!Init
<1>2. /\ Small \in Nat \ {0} /\ Big \in Nat \ {0} /\ R!NoChunk \in ChunkHead
      /\ <<>> \in Seq(RtmpMark) /\ <<>> \in Seq(Message) /\ <<>> \in Seq(RtmpTag)
      /\ <<>> \in Seq(Seq(FlvByte)) /\ Len(<<>>) = 0
  BY RtmpAssumption, EmptySeq DEF R!NoChunk, ChunkHead
<1>3. Turn \in {5, 7}
  BY <1>1, ProgramFacts
<1>4. \A s \in R!Sides : ~ Opened(s) /\ ~ Spoken(s) /\ ~ Done(s) /\ Phase(s) = 0
  BY <1>1, <1>3 DEF Opened, Spoken, Done, Phase
<1>5. rWire \in [R!Sides -> Seq(RtmpMark)] /\ chunks \in [R!Sides -> ChunkHead]
      /\ rdSize \in [R!Sides -> Nat \ {0}]
  <2>1. PICK none \in Seq(RtmpMark), top \in ChunkHead, z \in Nat \ {0} :
          none = <<>> /\ top = R!NoChunk /\ z = Small
    BY <1>2
  <2>2. rWire = [s \in R!Sides |-> none] /\ chunks = [s \in R!Sides |-> top]
        /\ rdSize = [s \in R!Sides |-> z]
    BY <1>1, <2>1
  <2> QED
    BY <2>2
<1>6. wrSize \in [R!Sides -> Nat \ {0}]
  BY <1>1, <1>2
<1>7. ControlOK
  BY <1>1, <1>2, <1>3, <1>4, <1>5, <1>6 DEF ControlOK
<1>8. FlvAt(0)
  <2>1. 0 \in 0 .. Len(tags) /\ R!NewReadBuffer = B!NewReadBuffer
    BY <1>1, <1>2 DEF R!NewReadBuffer, B!NewReadBuffer
  <2> QED
    BY <1>1, <1>2, <2>1 DEF FlvAt
<1>9. ASSUME NEW s \in R!Sides PROVE SideOK(s, <<>>, 0, 0)
  <2>1. rWire[s] = OnWire(<<>>)
    BY <1>1, WireEmpty
  <2>2. /\ chunks[s] \in ChunkHead /\ rdSize[s] \in Nat \ {0} /\ wrSize[R!Peer(s)] \in Nat \ {0}
    BY <1>5, <1>6, SideFacts
  <2>3. \A j \in 1 .. Len(<<>>) : FALSE
    BY <1>2
  <2>4. Carries(<<>>, rWire[s], chunks[s], rdSize[s], wrSize[R!Peer(s)], Phase(s))
    BY <1>2, <1>4, <2>1, <2>2, <2>3 DEF Carries
  <2>5. Order(s, <<>>, 0, Phase(s))
    <3>1. PICK n \in Nat : n = Len(<<>>) /\ n = 0
      BY <1>2
    <3>2. 0 \in 0 .. n /\ (\A j \in 1 .. 0 : FALSE) /\ (\A j \in 0 + 1 .. n : FALSE)
      BY <3>1
    <3> QED
      BY <1>4, <3>1, <3>2 DEF Order
  <2>6. MediaOf(tags, last, chunks[s], <<>>, 0, 0)
    <3>1. PICK n \in Nat : n = Len(<<>>) /\ n = 0 /\ n - 0 = 0 /\ Len(tags) = 0 + (n - 0)
      BY <1>1, <1>2
    <3>2. \A j \in 1 .. n - 0 : FALSE
      BY <3>1
    <3> QED
      BY <1>1, <1>2, <3>1, <3>2 DEF MediaOf
  <2> QED
    BY <1>2, <1>8, <2>4, <2>5, <2>6 DEF SideOK
<1> QED
  BY <1>7, <1>9 DEF RtmpInv

(* What flv.Producer does stays as it is, when others move. *)
LEMMA FlvRests ==
  ASSUME NEW k, FlvAt(k), Done(R!Reader) => Done(R!Reader)',
         UNCHANGED <<flv, fAt, frd, got, rHanded, tags>>
  PROVE  FlvAt(k)'
<1>1. FlvReading(k) => FlvReading(k)'
  <2>1. \A h : GotOf(h, k) => GotOf(h, k)'
    BY DEF GotOf, FlvTags
  <2> QED
    BY <2>1 DEF FlvReading
<1> QED
  BY <1>1 DEF FlvAt

(* A side that nobody writes to or reads from stays as it is.              *)
LEMMA SideRests ==
  ASSUME NEW s, NEW w, NEW b, NEW k, SideOK(s, w, b, k), Done(R!Reader) => Done(R!Reader)',
         rWire'[s] = rWire[s], chunks'[s] = chunks[s], rdSize'[s] = rdSize[s],
         UNCHANGED wrSize, Phase(s)' = Phase(s),
         UNCHANGED <<mode, tags, last, flv, fAt, frd, got, rHanded>>
  PROVE  SideOK(s, w, b, k)'
<1>1. FlvAt(k) => FlvAt(k)'
  BY FlvRests
<1>2. R!Peer(s)' = R!Peer(s) /\ R!Reader' = R!Reader
  BY DEF R!Peer, R!Reader, R!Writer
<1> QED
  BY <1>1, <1>2 DEF SideOK

(* So does one that does not read the media, when some are written.        *)
LEMMA SideAway ==
  ASSUME NEW s, NEW w, NEW b, NEW k, SideOK(s, w, b, k), s # R!Reader,
         rWire'[s] = rWire[s], chunks'[s] = chunks[s], rdSize'[s] = rdSize[s],
         UNCHANGED <<mode, wrSize>>, Phase(s)' = Phase(s)
  PROVE  SideOK(s, w, b, k)'
<1>1. R!Peer(s)' = R!Peer(s) /\ R!Reader' = R!Reader
  BY DEF R!Peer, R!Reader, R!Writer
<1> QED
  BY <1>1 DEF SideOK

(* A command is written to a side. *)
LEMMA SideSpoke ==
  ASSUME NEW s \in R!Sides, NEW w, NEW b, NEW k, SideOK(s, w, b, k), Phase(s) \in {0, 1},
         NEW e \in Message, e.tag \in Commands, e.type = 0, e.max = wrSize[R!Peer(s)],
         e.tag = "size" => Phase(s) = 0 /\ e.size = 1 /\ e.of = wrSize[R!Peer(s)],
         e.tag = "size" \/ Phase(s) = 1,
         rWire'[s] = rWire[s] \o Laid(e), chunks'[s] = chunks[s], rdSize'[s] = rdSize[s],
         UNCHANGED wrSize, Phase(s)' = IF Final(s, e) THEN 2 ELSE 1,
         UNCHANGED <<mode, tags, last, flv, fAt, frd, got, rHanded>>,
         Done(R!Reader) => Done(R!Reader)'
  PROVE  SideOK(s, Append(w, e), b + 1, k)'
<1>1. PICK c, x, rs, ws, p, after :
        /\ c = chunks[s] /\ x = rWire[s] /\ rs = rdSize[s] /\ ws = wrSize[R!Peer(s)]
        /\ p = Phase(s) /\ after = Phase(s)'
  OBVIOUS
<1>2. Carries(w, x, c, rs, ws, p) /\ Order(s, w, b, p)
  BY <1>1 DEF SideOK
<1>3. w \in Seq(Message) /\ Len(w) \in Nat /\ b = Len(w) /\ (p = 0 => w = <<>>)
  <2>1. w \in Seq(Message)
    BY <1>2 DEF Carries
  <2>2. b \in 0 .. Len(w) /\ ~ b < Len(w) /\ (p = 0 => w = <<>>)
    BY <1>1, <1>2 DEF Order
  <2> QED
    BY <2>1, <2>2, LenProperties
<1>4. PICK v : v = Append(w, e)
  OBVIOUS
<1>5. Continues(LastHead(c, w), e)
  BY DEF Continues
<1>6. Carries(v, x \o Laid(e), c, rs, ws, after)
  BY <1>1, <1>2, <1>3, <1>4, <1>5, CarriesMore
<1>7. Order(s, v, b + 1, after)
  BY <1>1, <1>2, <1>3, <1>4, OrderMore
<1>8. R!Peer(s)' = R!Peer(s) /\ R!Reader' = R!Reader
  BY DEF R!Peer, R!Reader, R!Writer
<1>9. Carries(v, rWire[s], chunks[s], rdSize[s], wrSize[R!Peer(s)], Phase(s))'
  BY <1>1, <1>6, <1>8
<1>10. Order(s, v, b + 1, Phase(s))'
  BY <1>1, <1>7
<1>11. CASE s = R!Reader
  <2>1. MediaOf(tags, last, c, w, b, k) /\ FlvAt(k)
    BY <1>1, <1>11 DEF SideOK
  <2>2. k = 0
    <3>1. ~ Done(s)
      BY <1>1 DEF Phase
    <3> QED
      BY <1>11, <2>1, <3>1 DEF FlvAt
  <2>3. MediaOf(tags, last, c, v, b + 1, k)
    BY <1>3, <1>4, <2>1, <2>2, MediaNone
  <2>4. FlvAt(k)'
    BY <2>1, FlvRests
  <2>5. MediaOf(tags, last, chunks[s], v, b + 1, k)'
    BY <1>1, <2>3
  <2> QED
    BY <1>4, <1>8, <1>9, <1>10, <1>11, <2>4, <2>5 DEF SideOK
<1>12. CASE s # R!Reader
  <2>1. b + 1 = Len(v)
    BY <1>3, <1>4, OneMore
  <2>2. (s = R!Reader)' <=> FALSE
    BY <1>8, <1>12
  <2> QED
    BY <1>4, <1>9, <1>10, <2>1, <2>2 DEF SideOK
<1> QED
  BY <1>11, <1>12

(* A side reads a command. *)
LEMMA SideHeard ==
  ASSUME NEW s \in R!Sides, NEW w, NEW b, NEW k, SideOK(s, w, b, k), w # <<>>, Phase(s) # 3,
         rWire'[s] = OnWire(Tail(w)), chunks'[s] = HeadOf(Head(w)),
         rdSize'[s] = IF Head(w).tag = "size" THEN Head(w).of ELSE rdSize[s],
         UNCHANGED wrSize, Phase(s)' = IF Final(s, Head(w)) THEN 3 ELSE Phase(s),
         UNCHANGED <<mode, tags, last, flv, fAt, frd, got, rHanded>>,
         Done(R!Reader) => Done(R!Reader)'
  PROVE  SideOK(s, Tail(w), b - 1, k)'
<1>1. PICK c, x, rs, ws, p, after, e, v :
        /\ c = chunks[s] /\ x = rWire[s] /\ rs = rdSize[s] /\ ws = wrSize[R!Peer(s)]
        /\ p = Phase(s) /\ after = Phase(s)' /\ e = Head(w) /\ v = Tail(w)
  OBVIOUS
<1>2. Carries(w, x, c, rs, ws, p) /\ Order(s, w, b, p)
  BY <1>1 DEF SideOK
<1>3. w \in Seq(Message) /\ b \in 0 .. Len(w)
  BY <1>2 DEF Carries, Order
<1>4. /\ Carries(v, OnWire(v), HeadOf(e), IF e.tag = "size" THEN e.of ELSE rs, ws, after)
      /\ LastHead(HeadOf(e), v) = LastHead(c, w)
  BY <1>1, <1>2, CarriesLess
<1>5. /\ b - 1 \in Nat /\ Order(s, v, b - 1, after)
      /\ Len(v) - (b - 1) = Len(w) - b
  <2>1. after = IF Final(s, Head(w)) THEN 3 ELSE p
    BY <1>1
  <2>2. /\ b - 1 \in Nat /\ Order(s, Tail(w), b - 1, after)
        /\ Len(Tail(w)) - (b - 1) = Len(w) - b
    BY <1>1, <1>2, <1>3, <2>1, OrderLess
  <2> QED
    BY <1>1, <2>2
<1>8. R!Peer(s)' = R!Peer(s) /\ R!Reader' = R!Reader
  BY DEF R!Peer, R!Reader, R!Writer
<1>9. Carries(v, rWire[s], chunks[s], rdSize[s], wrSize[R!Peer(s)], Phase(s))'
  BY <1>1, <1>4, <1>8
<1>10. Order(s, v, b - 1, Phase(s))'
  BY <1>1, <1>5
<1>11. CASE s = R!Reader
  <2>1. MediaOf(tags, last, c, w, b, k) /\ FlvAt(k)
    BY <1>1, <1>11 DEF SideOK
  <2>3. MediaOf(tags, last, HeadOf(e), v, b - 1, k)
    BY <1>1, <1>3, <1>4, <1>5, <2>1, MediaWaits
  <2>4. FlvAt(k)'
    BY <2>1, FlvRests
  <2>5. MediaOf(tags, last, chunks[s], v, b - 1, k)'
    BY <1>1, <2>3
  <2> QED
    BY <1>1, <1>8, <1>9, <1>10, <1>11, <2>4, <2>5 DEF SideOK
<1>12. CASE s # R!Reader
  <2>1. b - 1 = Len(v)
    <3>1. b = Len(w)
      BY <1>12 DEF SideOK
    <3>2. Len(v) \in Nat /\ Len(w) = Len(v) + 1
      BY <1>1, <1>3, OneLess
    <3> QED
      BY <3>1, <3>2
  <2>2. (s = R!Reader)' <=> FALSE
    BY <1>8, <1>12
  <2> QED
    BY <1>1, <1>9, <1>10, <2>1, <2>2 DEF SideOK
<1> QED
  BY <1>11, <1>12

(* A message of media is written. *)
LEMMA SideSent ==
  ASSUME NEW s, s = R!Reader, NEW w, NEW b, NEW k, SideOK(s, w, b, k), Phase(s) \in {2, 3},
         NEW e \in Message, e.tag \in MediaTags, e.of = Len(tags) + 1, e.max = wrSize[R!Peer(s)],
         e.type \in {2, 3} => tags # <<>>, Continues(last, e),
         rWire'[s] = rWire[s] \o Laid(e), UNCHANGED <<chunks, rdSize, wrSize>>, Phase(s)' = Phase(s),
         last' = HeadOf(e), tags' = Append(tags, TagOf(e)),
         UNCHANGED <<mode, flv, fAt, frd, got, rHanded>>, Done(s) => Done(s)'
  PROVE  SideOK(s, Append(w, e), b, k)'
<1>1. PICK c, x, rs, ws, p, ts, la :
        /\ c = chunks[s] /\ x = rWire[s] /\ rs = rdSize[s] /\ ws = wrSize[R!Peer(s)]
        /\ p = Phase(s) /\ ts = tags /\ la = last
  OBVIOUS
<1>2. Carries(w, x, c, rs, ws, p) /\ Order(s, w, b, p) /\ MediaOf(ts, la, c, w, b, k) /\ FlvAt(k)
  BY <1>1 DEF SideOK
<1>3. w \in Seq(Message) /\ b \in 0 .. Len(w)
  BY <1>2 DEF Carries, Order
<1>4. PICK v : v = Append(w, e)
  OBVIOUS
<1>5. Continues(LastHead(c, w), e)
  <2>1. CASE e.type \in {2, 3}
    <3>1. la = LastHead(c, w)
      BY <1>1, <1>2, <2>1 DEF MediaOf
    <3> QED
      BY <1>1, <3>1
  <2>2. CASE ~ e.type \in {2, 3}
    BY <2>2 DEF Continues
  <2> QED
    BY <2>1, <2>2
<1>6. Carries(v, x \o Laid(e), c, rs, ws, p)
  <2>1. e.tag # "size" /\ p # 0
    BY <1>1 DEF MediaTags
  <2> QED
    BY <1>1, <1>2, <1>4, <1>5, <2>1, CarriesMore
<1>7. Order(s, v, b, p)
  BY <1>1, <1>2, <1>3, <1>4, OrderMedia
<1>8. R!Peer(s)' = R!Peer(s) /\ R!Reader' = R!Reader
  BY DEF R!Peer, R!Reader, R!Writer
<1>9. Carries(v, rWire[s], chunks[s], rdSize[s], wrSize[R!Peer(s)], Phase(s))'
  BY <1>1, <1>6, <1>8
<1>10. Order(s, v, b, Phase(s))'
  BY <1>1, <1>7
<1>11. MediaOf(Append(ts, TagOf(e)), HeadOf(e), c, v, b, k)
  BY <1>1, <1>2, <1>3, <1>4, MediaMore
<1>12. MediaOf(tags, last, chunks[s], v, b, k)'
  BY <1>1, <1>11
<1>13. FlvAt(k)'
  <2>1. ts \in Seq(RtmpTag) /\ k \in 0 .. Len(ts)
    BY <1>1, <1>2 DEF FlvAt
  <2>2. TagOf(e) \in RtmpTag
    BY DEF TagOf, RtmpTag, Message
  <2>3. PICK us : us = Append(ts, TagOf(e))
    OBVIOUS
  <2>4. PICK l \in Nat : l = Len(ts) /\ us \in Seq(RtmpTag) /\ Len(us) = l + 1
                         /\ \A n \in 1 .. l : us[n] = ts[n]
    BY <2>1, <2>2, <2>3, OneMore
  <2>5. k \in 0 .. Len(us) /\ k \in Nat /\ k <= l
    <3>1. k \in Nat /\ k <= l
      BY <2>1, <2>4
    <3> QED
      BY <2>4, <3>1
  <2>6. ASSUME NEW h \in 0 .. k, GotOf(h, k) PROVE GotOf(h, k)' /\ FlvTags(us, h) = FlvTags(ts, h)
    <3>1. FlvTags(us, h) = FlvTags(ts, h)
      <4>1. h \in 0 .. l
        BY <2>5
      <4> QED
        BY <2>1, <2>2, <2>3, <2>4, <4>1, FlvSame
    <3>2. got # <<>> => us[h + 1] = ts[h + 1]
      <4> SUFFICES ASSUME got # <<>> PROVE us[h + 1] = ts[h + 1]
        OBVIOUS
      <4>1. h < k
        BY <2>6 DEF GotOf
      <4>2. h + 1 \in 1 .. l
        BY <2>5, <4>1
      <4> QED
        BY <2>4, <4>2
    <3>3. \A y \in 1 .. Len(got) : TagByte(us, h + 1, y) = TagByte(ts, h + 1, y)
      <4>1. CASE got = <<>>
        BY <4>1, EmptySeq
      <4>2. CASE got # <<>>
        BY <3>2, <4>2 DEF TagByte
      <4> QED
        BY <4>1, <4>2
    <3>4. us = tags' /\ ts = tags
      BY <1>1, <2>3
    <3> QED
      BY <2>6, <3>1, <3>2, <3>3, <3>4 DEF GotOf
  <2>7. FlvReading(k) => FlvReading(k)'
    <3>1. us = tags' /\ ts = tags
      BY <1>1, <2>3
    <3> QED
      BY <2>6, <3>1 DEF FlvReading
  <2>8. Flv(us, k) = Flv(ts, k)
    BY <2>1, <2>2, <2>3, <2>4, FlvSame
  <2>9. us = tags' /\ ts = tags
    BY <1>1, <2>3
  <2>10. Done(R!Reader) => Done(R!Reader)'
    BY <1>8
  <2> QED
    BY <1>2, <2>4, <2>5, <2>7, <2>8, <2>9, <2>10 DEF FlvAt
<1> QED
  BY <1>4, <1>8, <1>9, <1>10, <1>12, <1>13 DEF SideOK

(* What a side reads is the first message that was written to it. *)
LEMMA SideReads ==
  ASSUME NEW s \in R!Sides, NEW w, NEW b, NEW k, SideOK(s, w, b, k), rWire[s] # <<>>
  PROVE  /\ w # <<>> /\ Head(w) \in Message
         /\ R!HeaderRead(s) = HeadOf(Head(w)) /\ HeadOf(Head(w)) \in ChunkHead
         /\ SubSeq(rWire[s], R!MessageLen(s) + 1, Len(rWire[s])) = OnWire(Tail(w))
         /\ OnWire(Tail(w)) \in Seq(RtmpMark)
         /\ R!Data(s) = [i \in 1 .. Head(w).size |-> R!Byte(Head(w).of, i)]
         /\ Head(w).size > 0 => R!Said(s) = Head(w).of
         /\ R!OneMessage(s) = TRUE
         /\ Head(w).tag = "size" => Head(w).size = 1 /\ Head(w).of \in Nat \ {0}
<1>1. PICK ws : ws = wrSize[R!Peer(s)]
  OBVIOUS
<1>2. /\ w \in Seq(Message) /\ rWire[s] = OnWire(w)
      /\ chunks[s] \in ChunkHead /\ rdSize[s] \in Nat \ {0} /\ ws \in Nat \ {0}
      /\ \A j \in 1 .. Len(w) :
           /\ Continues(IF j = 1 THEN chunks[s] ELSE HeadOf(w[j - 1]), w[j])
           /\ w[j].max = ws
           /\ w[j].tag = "size" => j = 1 /\ w[j].size = 1 /\ w[j].of = ws
      /\ w # <<>> => w[1].tag = "size" \/ rdSize[s] = ws
  BY <1>1 DEF SideOK, Carries
<1>3. w # <<>>
  BY <1>2, WireEmpty
<1>4. PICK e, v : e = Head(w) /\ v = Tail(w)
  OBVIOUS
<1>5. e = w[1] /\ v \in Seq(Message) /\ 1 \in 1 .. Len(w)
  <2>1. e = w[1] /\ v \in Seq(Message) /\ Len(v) \in Nat /\ Len(w) = Len(v) + 1
    BY <1>2, <1>3, <1>4, OneLess
  <2> QED
    BY <2>1
<1>6. PICK x, y : x = Laid(e) /\ y = OnWire(v)
  OBVIOUS
<1>7. e \in Message /\ IsLaid(x, e) /\ y \in Seq(RtmpMark) /\ OnWire(w) = x \o y
  BY <1>2, <1>3, <1>4, <1>6, WireFirst
<1>8. PICK z : z = rWire[s]
  OBVIOUS
<1>9. Joined(z, x, y)
  <2>1. z \in Seq(RtmpMark) /\ z = OnWire(w)
    BY <1>2, <1>8, WireTop
  <2> QED
    BY <1>7, <2>1 DEF Joined
<1>10. /\ Continues(chunks[s], e) /\ e.max = ws
       /\ e.tag = "size" => e.size = 1 /\ e.of = ws
       /\ e.tag = "size" \/ rdSize[s] = ws
  BY <1>2, <1>3, <1>5
<1>11. Finds(s, e, x, y)
  <2>1. rdSize[s] = e.max \/ e.size <= 1
    BY <1>10
  <2> QED
    BY <1>2, <1>7, <1>8, <1>9, <1>10, <2>1 DEF Finds
<1>12. R!HeaderRead(s) = HeadOf(e) /\ HeadOf(e) \in ChunkHead
  BY <1>11, HeaderFound
<1>13. y # <<>> => Head(y).mark = "header"
  BY <1>5, <1>6, WireTop
<1>14. /\ SubSeq(rWire[s], R!MessageLen(s) + 1, Len(rWire[s])) = y
       /\ R!Data(s) = [i \in 1 .. e.size |-> R!Byte(e.of, i)]
       /\ R!OneMessage(s)
  BY <1>11, <1>13, MessageFound
<1>15. R!OneMessage(s) = TRUE
  BY <1>14 DEF R!OneMessage
<1>16. ASSUME e.size > 0 PROVE R!Said(s) = e.of
  <2>1. PICK n \in Nat : n = e.size
    BY <1>7 DEF Message
  <2>2. 1 \in 1 .. n
    BY <1>16, <2>1
  <2>3. R!Data(s)[1] = R!Byte(e.of, 1)
    BY <1>14, <2>1, <2>2
  <2> QED
    BY <2>3 DEF R!Said, R!Byte
<1> QED
  BY <1>2, <1>3, <1>4, <1>6, <1>7, <1>10, <1>12, <1>14, <1>15, <1>16

(* The command that a side writes, and where it goes. *)
LEMMA CommandWritten ==
  ASSUME ControlOK, NEW from \in R!Sides, NEW tag \in Commands, NEW size \in Nat, NEW m \in Sayings,
         tag = "command" => m \in Cmds /\ size > 0
  PROVE  \E e \in Message :
           /\ e.tag = tag /\ e.type = 0 /\ e.size = size /\ e.of = m /\ e.max = wrSize[from]
           /\ Laid(e) = R!Chunks(0, 0, size, tag, m, wrSize[from])
           /\ rWire[R!Peer(from)] \o Laid(e) \in Seq(RtmpMark)
<1>1. PICK n \in Nat \ {0} : n = wrSize[from]
  BY DEF ControlOK
<1>2. PICK e : e = [type |-> 0, raw |-> 0, size |-> size, tag |-> tag, of |-> m, max |-> n]
  OBVIOUS
<1>3. e \in Message /\ Laid(e) = R!Chunks(0, 0, size, tag, m, n)
  <2>1. 0 \in 0 .. 3 /\ 0 \in Nat /\ tag \in Tags
    BY DEF Commands, Tags
  <2> QED
    BY <1>2, <2>1, MessageIs
<1>4. /\ e.tag = tag /\ e.type = 0 /\ e.size = size /\ e.of = m /\ e.max = n
  BY <1>2
<1>5. PICK x \in Seq(RtmpMark), l \in Seq(RtmpMark) : x = rWire[R!Peer(from)] /\ l = Laid(e)
  <2>1. Laid(e) \in Seq(RtmpMark)
    BY <1>3, LaidOut DEF IsLaid
  <2>2. R!Peer(from) \in R!Sides
    BY SideFacts
  <2> QED
    BY <2>1, <2>2 DEF ControlOK
<1>6. x \o l \in Seq(RtmpMark)
  BY ConcatProperties
<1> QED
  BY <1>1, <1>3, <1>4, <1>5, <1>6

(* One side writes a command, and the control moves on. *)
LEMMA SpokeStep ==
  ASSUME RtmpInv, NEW from \in R!Sides, NEW s, s = R!Peer(from),
         NEW tag \in Commands, NEW size \in Nat, NEW m \in Sayings,
         tag = "command" => m \in Cmds /\ size > 0,
         R!writeMessage(from, tag, size, m),
         Phase(s) \in {0, 1}, tag = "size" => Phase(s) = 0 /\ size = 1 /\ m = wrSize[from],
         tag = "size" \/ Phase(s) = 1,
         Phase(s)' = IF Final(s, [tag |-> tag, of |-> m]) THEN 2 ELSE 1,
         Phase(from)' = Phase(from), \A side \in R!Sides : Done(side) => Done(side)',
         cAt' \in 0 .. Turn + 2, sAt' \in {"new", "commands", "start", "run", "gone"},
         sAt' # "new" => cAt' > 0, \A side \in R!Sides : Done(side)' => Spoken(side)',
         UNCHANGED <<mode, wrSize, rdSize, chunks, last, tags, broken>>,
         UNCHANGED <<flv, R!flvVars>>
  PROVE  RtmpInv'
<1>1. ControlOK
  BY DEF RtmpInv
<1>2. PICK e \in Message :
        /\ e.tag = tag /\ e.type = 0 /\ e.size = size /\ e.of = m /\ e.max = wrSize[from]
        /\ Laid(e) = R!Chunks(0, 0, size, tag, m, wrSize[from])
        /\ rWire[s] \o Laid(e) \in Seq(RtmpMark)
  BY <1>1, CommandWritten
<1>3. s \in R!Sides /\ s # from /\ R!Peer(s) = from /\ R!Sides = {s, from}
  BY SideFacts
<1>4. PICK x : x = rWire[s] \o Laid(e)
  OBVIOUS
<1>5. rWire' = [rWire EXCEPT ![s] = x]
  BY <1>2, <1>4 DEF R!writeMessage
<1>6. /\ rWire' \in [R!Sides -> Seq(RtmpMark)] /\ rWire'[s] = x /\ rWire'[from] = rWire[from]
  <2>1. rWire \in [R!Sides -> Seq(RtmpMark)] /\ x \in Seq(RtmpMark)
    BY <1>1, <1>2, <1>4 DEF ControlOK
  <2> QED
    BY <1>3, <1>5, <2>1
<1>7. Turn' = Turn
  BY DEF Turn
<1>8. ControlOK'
  BY <1>1, <1>6, <1>7 DEF ControlOK
<1>9. Done(R!Reader) => Done(R!Reader)'
  <2>1. R!Reader \in R!Sides /\ R!Reader' = R!Reader
    BY <1>1, SideFacts DEF ControlOK, R!Reader, R!Writer, R!Peer
  <2>2. \A side \in R!Sides : R!Reader = side => (Done(R!Reader) => Done(R!Reader)')
    <3> SUFFICES ASSUME NEW side \in R!Sides, R!Reader = side PROVE Done(R!Reader) => Done(R!Reader)'
      OBVIOUS
    <3>1. Done(R!Reader) <=> Done(side)
      BY DEF Done
    <3>2. Done(R!Reader)' <=> Done(side)'
      BY <2>1 DEF Done
    <3> QED
      BY <3>1, <3>2
  <2> QED
    BY <2>1, <2>2
<1>10. UNCHANGED <<mode, tags, last, flv, fAt, frd, got, rHanded>>
  BY DEF R!flvVars
<1>11. \E w, b, k : SideOK(s, w, b, k)'
  <2>1. PICK w, b, k : SideOK(s, w, b, k)
    BY <1>3 DEF RtmpInv
  <2>2. Final(s, e) <=> Final(s, [tag |-> tag, of |-> m])
    BY <1>2 DEF Final
  <2>3. SideOK(s, Append(w, e), b + 1, k)'
    BY <1>2, <1>3, <1>4, <1>6, <1>9, <1>10, <2>1, <2>2, SideSpoke
  <2> QED
    BY <2>3
<1>12. \E w, b, k : SideOK(from, w, b, k)'
  <2>1. PICK w, b, k : SideOK(from, w, b, k)
    BY <1>3 DEF RtmpInv
  <2>2. SideOK(from, w, b, k)'
    BY <1>3, <1>6, <1>9, <1>10, <2>1, SideRests
  <2> QED
    BY <2>2
<1> QED
  BY <1>3, <1>8, <1>11, <1>12 DEF RtmpInv

(* What the invariant says of the control. *)
LEMMA ControlFacts ==
  ASSUME RtmpInv
  PROVE  /\ mode \in {"publish", "play"} /\ Turn \in {5, 7} /\ Len(R!Program) = Turn + 2
         /\ cAt \in 0 .. Turn + 2 /\ cAt \in Nat
         /\ sAt \in {"new", "commands", "start", "run", "gone"} /\ (sAt # "new" => cAt > 0)
         /\ sAt \in {"start", "run", "gone"} => cAt > Turn
         /\ cAt = Turn + 2 => sAt = "run"
         /\ cAt > 0 => cAt \in 1 .. Turn + 2
         /\ wrSize["client"] \in Nat \ {0} /\ wrSize["server"] \in Nat \ {0}
<1>1. ControlOK
  BY DEF RtmpInv
<1>2. Turn \in {5, 7} /\ Len(R!Program) = Turn + 2 /\ cAt \in 0 .. Turn + 2
  BY <1>1, ProgramFacts DEF ControlOK
<1>3. cAt \in Nat /\ (cAt > 0 => cAt \in 1 .. Turn + 2)
  BY <1>2
<1> QED
  BY <1>1, <1>2, <1>3, SideFacts DEF ControlOK, Done, Spoken

(* NewClient: the client says the size of its packets. *)
LEMMA NewClientStep ==
  ASSUME RtmpInv, R!NewClient, UNCHANGED <<flv, R!flvVars>>
  PROVE  RtmpInv'
<1>1. PICK m \in Nat \ {0} : m = wrSize["client"]
  BY ControlFacts
<1>2. /\ cAt = 0 /\ cAt' = 1 /\ R!writeMessage("client", "size", 1, m)
      /\ UNCHANGED <<mode, sAt, wrSize, rdSize, chunks, last, tags, broken>>
  BY <1>1 DEF R!NewClient, R!writePacketSize
<1>3. sAt = "new" /\ Turn' = Turn /\ Turn \in {5, 7}
  BY <1>2, ControlFacts DEF Turn
<1>4. /\ "client" \in R!Sides /\ R!Peer("client") = "server" /\ R!Sides = {"client", "server"}
      /\ "size" \in Commands /\ m \in Sayings /\ 1 \in Nat
  BY SideFacts DEF R!Peer, Commands, Sayings
<1>5. /\ Phase("server") = 0 /\ Phase("server")' = 1 /\ Phase("client")' = Phase("client")
      /\ \A side \in R!Sides : Done(side) => Done(side)'
      /\ \A side \in R!Sides : Done(side)' => Spoken(side)'
  BY <1>2, <1>3, <1>4 DEF Phase, Done, Spoken, Opened
<1>6. ~ Final("server", [tag |-> "size", of |-> m])
  BY DEF Final
<1>7. cAt' \in 0 .. Turn + 2 /\ sAt' = "new"
  BY <1>2, <1>3
<1> QED
  BY <1>1, <1>2, <1>4, <1>5, <1>6, <1>7, SpokeStep

(* NewServer: the server says the size of its packets. *)
LEMMA NewServerStep ==
  ASSUME RtmpInv, R!NewServer, UNCHANGED <<flv, R!flvVars>>
  PROVE  RtmpInv'
<1>1. PICK m \in Nat \ {0} : m = wrSize["server"]
  BY ControlFacts
<1>2. /\ sAt = "new" /\ sAt' = "commands" /\ cAt > 0 /\ R!writeMessage("server", "size", 1, m)
      /\ UNCHANGED <<mode, cAt, wrSize, rdSize, chunks, last, tags, broken>>
  BY <1>1 DEF R!NewServer, R!writePacketSize
<1>3. cAt \in 0 .. Turn + 2 /\ cAt # Turn + 2 /\ Turn' = Turn /\ Turn \in {5, 7}
  BY <1>2, ControlFacts DEF Turn
<1>4. /\ "server" \in R!Sides /\ R!Peer("server") = "client" /\ R!Sides = {"client", "server"}
      /\ "size" \in Commands /\ m \in Sayings /\ 1 \in Nat
  BY SideFacts DEF R!Peer, Commands, Sayings
<1>5. /\ Phase("client") = 0 /\ Phase("client")' = 1 /\ Phase("server")' = Phase("server")
      /\ \A side \in R!Sides : Done(side) => Done(side)'
      /\ \A side \in R!Sides : Done(side)' => Spoken(side)'
  BY <1>2, <1>3, <1>4 DEF Phase, Done, Spoken, Opened
<1>6. ~ Final("client", [tag |-> "size", of |-> m])
  BY DEF Final
<1> QED
  BY <1>1, <1>2, <1>3, <1>4, <1>5, <1>6, SpokeStep

(* The client asks for the next thing. *)
LEMMA ClientAsksStep ==
  ASSUME RtmpInv, R!ClientAsks, UNCHANGED <<flv, R!flvVars>>
  PROVE  RtmpInv'
<1>1. PICK m : m = R!Command(R!Program[cAt], R!Asks[R!Program[cAt]])
  OBVIOUS
<1>2. /\ cAt > 0 /\ R!Program[cAt] \in DOMAIN R!Asks /\ cAt' = cAt + 1
      /\ R!writeMessage("client", "command", 3, m)
      /\ UNCHANGED <<mode, sAt, wrSize, rdSize, chunks, last, tags, broken>>
  BY <1>1 DEF R!ClientAsks, R!CommandSize
<1>3. /\ cAt \in 1 .. Turn + 2 /\ cAt <= Turn /\ m \in Cmds
      /\ R!Program[cAt] \in {"publish", "play"} <=> cAt = Turn
  BY <1>1, <1>2, ControlFacts, ProgramFacts
<1>4. cAt \in Nat /\ sAt \in {"new", "commands"} /\ Turn' = Turn /\ Turn \in {5, 7}
  <2>1. cAt \in Nat /\ Turn \in {5, 7} /\ (sAt \in {"start", "run", "gone"} => cAt > Turn)
        /\ sAt \in {"new", "commands", "start", "run", "gone"} /\ Turn' = Turn
    BY <1>2, ControlFacts DEF Turn
  <2> QED
    BY <1>3, <2>1
<1>5. /\ "client" \in R!Sides /\ R!Peer("client") = "server" /\ R!Sides = {"client", "server"}
      /\ "command" \in Commands /\ m \in Sayings /\ 3 \in Nat /\ 3 > 0
  BY <1>3, SideFacts DEF R!Peer, Commands, Sayings
<1>6. /\ Phase("server") = 1 /\ Phase("client")' = Phase("client")
      /\ Phase("server")' = IF cAt = Turn THEN 2 ELSE 1
      /\ \A side \in R!Sides : Done(side) => Done(side)'
      /\ \A side \in R!Sides : Done(side)' => Spoken(side)'
  <2>1. cAt' \in Nat /\ cAt' > 0 /\ (cAt' > Turn <=> cAt = Turn) /\ cAt' # Turn + 2 /\ cAt # Turn + 2
        /\ ~ cAt > Turn
    BY <1>2, <1>3, <1>4
  <2> QED
    BY <1>2, <1>4, <1>5, <2>1 DEF Phase, Done, Spoken, Opened
<1>7. Final("server", [tag |-> "command", of |-> m]) <=> cAt = Turn
  <2>1. m.cmd = R!Program[cAt]
    BY <1>1 DEF R!Command
  <2> QED
    BY <1>3, <2>1 DEF Final
<1>8. cAt' \in 0 .. Turn + 2 /\ cAt' > 0
  BY <1>2, <1>3, <1>4
<1>9. sAt' \in {"new", "commands", "start", "run", "gone"}
  BY <1>2, <1>4
<1> QED
  BY <1>2, <1>3, <1>5, <1>6, <1>7, <1>8, <1>9, SpokeStep

(* tcpHandle: the server answers, or leaves. *)
LEMMA WriteStartStep ==
  ASSUME RtmpInv, R!WriteStart, UNCHANGED <<flv, R!flvVars>>
  PROVE  RtmpInv'
<1>1. PICK m : m = R!Command("onStatus", 0)
  OBVIOUS
<1>2. /\ sAt = "start"
      /\ \/ sAt' = "run" /\ R!writeMessage("server", "command", 3, m)
         \/ sAt' = "gone" /\ UNCHANGED rWire
      /\ UNCHANGED <<mode, cAt, wrSize, rdSize, chunks, last, tags, broken>>
  BY <1>1 DEF R!WriteStart, R!CommandSize
<1>3. cAt \in 0 .. Turn + 2 /\ cAt > Turn /\ cAt > 0 /\ cAt # Turn + 2
      /\ Turn' = Turn /\ Turn \in {5, 7}
  BY <1>2, ControlFacts DEF Turn
<1>4. /\ "server" \in R!Sides /\ R!Peer("server") = "client" /\ R!Sides = {"client", "server"}
      /\ "command" \in Commands /\ m \in Sayings /\ m \in Cmds /\ 3 \in Nat /\ 3 > 0
  BY <1>1, SideFacts DEF R!Peer, Commands, Sayings, Cmds, R!Command
<1>5. /\ Phase("client") = 1 /\ Phase("server")' = Phase("server")
      /\ Phase("client")' = IF sAt' = "run" THEN 2 ELSE 1
      /\ \A side \in R!Sides : Done(side) => Done(side)'
      /\ \A side \in R!Sides : Done(side)' => Spoken(side)'
  BY <1>2, <1>3, <1>4 DEF Phase, Done, Spoken, Opened
<1>6. CASE sAt' = "run"
  <2>1. R!writeMessage("server", "command", 3, m)
    BY <1>2, <1>6
  <2>2. Final("client", [tag |-> "command", of |-> m])
    BY <1>1 DEF Final
  <2> QED
    BY <1>2, <1>3, <1>4, <1>5, <1>6, <2>1, <2>2, SpokeStep
<1>7. CASE sAt' # "run"
  <2>1. sAt' = "gone" /\ UNCHANGED rWire
    BY <1>2, <1>7
  <2>2. ControlOK'
    BY <1>2, <1>3, <1>4, <1>5, <2>1 DEF ControlOK, RtmpInv
  <2>3. Done(R!Reader) => Done(R!Reader)'
    <3>1. R!Reader' = R!Reader
      BY <1>2 DEF R!Reader, R!Writer, R!Peer
    <3> QED
      BY <1>2, <1>3, <2>1, <3>1 DEF Done
  <2>4. UNCHANGED <<mode, tags, last, flv, fAt, frd, got, rHanded>>
    BY <1>2 DEF R!flvVars
  <2>5. ASSUME NEW s \in R!Sides PROVE \E w, b, k : SideOK(s, w, b, k)'
    <3>1. PICK w, b, k : SideOK(s, w, b, k)
      BY DEF RtmpInv
    <3>2. Phase(s)' = Phase(s)
      BY <1>4, <1>5, <1>7
    <3>3. SideOK(s, w, b, k)'
      BY <1>2, <2>1, <2>3, <2>4, <3>1, <3>2, SideRests
    <3> QED
      BY <3>3
  <2> QED
    BY <1>4, <2>2, <2>5 DEF RtmpInv
<1> QED
  BY <1>6, <1>7

(* Before the media, what a side reads is a command. *)
LEMMA SideNext ==
  ASSUME NEW s, NEW w, NEW b, NEW k, SideOK(s, w, b, k), w # <<>>, Phase(s) # 3
  PROVE  Head(w).tag \in Commands /\ (Final(s, Head(w)) => Phase(s) = 2)
<1>1. PICK p : p = Phase(s)
  OBVIOUS
<1>2. w \in Seq(Message) /\ Order(s, w, b, p)
  BY <1>1 DEF SideOK, Carries
<1>3. PICK after : after = IF Final(s, Head(w)) THEN 3 ELSE p
  OBVIOUS
<1>4. Head(w).tag \in Commands /\ (Final(s, Head(w)) => p = 2)
  BY <1>1, <1>2, <1>3, OrderLess
<1> QED
  BY <1>1, <1>4

(* The size of the packets that a side has read. *)
LEMMA SizeRead ==
  ASSUME ControlOK, NEW s \in R!Sides, NEW e \in Message, R!HeaderRead(s) = HeadOf(e),
         e.size > 0 => R!Said(s) = e.of, e.tag = "size" => e.size = 1 /\ e.of \in Nat \ {0},
         R!SetPacketSize(s)
  PROVE  /\ rdSize' \in [R!Sides -> Nat \ {0}]
         /\ rdSize'[s] = IF e.tag = "size" THEN e.of ELSE rdSize[s]
         /\ \A other \in R!Sides : other # s => rdSize'[other] = rdSize[other]
<1>1. rdSize \in [R!Sides -> Nat \ {0}] /\ R!HeaderRead(s).tag = e.tag
  BY DEF ControlOK, HeadOf
<1>2. CASE e.tag = "size"
  <2>1. PICK n \in Nat \ {0} : n = e.of
    BY <1>2
  <2>2. R!Said(s) = n
    BY <1>2, <2>1
  <2>3. rdSize' = [rdSize EXCEPT ![s] = n]
    BY <1>1, <1>2, <2>2 DEF R!SetPacketSize
  <2> QED
    BY <1>1, <1>2, <2>1, <2>3
<1>3. CASE e.tag # "size"
  <2>1. rdSize' = rdSize
    BY <1>1, <1>3 DEF R!SetPacketSize
  <2> QED
    BY <1>1, <1>3, <2>1
<1> QED
  BY <1>2, <1>3

(* readResponse: the client reads an answer. *)
LEMMA ClientWaitsStep ==
  ASSUME RtmpInv, R!ClientWaits, UNCHANGED <<flv, R!flvVars>>
  PROVE  RtmpInv'
<1>1. PICK s, other : s = "client" /\ other = "server"
  OBVIOUS
<1>2. /\ cAt > 0 /\ R!Program[cAt] \in DOMAIN R!Waits
      /\ rWire[s] # <<>> /\ R!Take(s) /\ R!SetPacketSize(s)
      /\ cAt' = IF R!HeaderRead(s).tag = "command" /\ R!Said(s) = R!Waits[R!Program[cAt]]
                THEN cAt + 1 ELSE cAt
      /\ UNCHANGED <<mode, sAt, wrSize, last, tags>>
  BY <1>1 DEF R!ClientWaits, R!CanRead
<1>3. /\ s \in R!Sides /\ other \in R!Sides /\ R!Peer(s) = other /\ R!Sides = {s, other} /\ s # other
  BY <1>1, SideFacts DEF R!Peer
<1>4. /\ cAt \in Nat /\ cAt # Turn /\ cAt <= Turn + 1 /\ Turn \in {5, 7} /\ Turn' = Turn
      /\ R!Waits[R!Program[cAt]] = R!Command("onStatus", 0) <=> cAt = Turn + 1
  <2>1. mode \in {"publish", "play"} /\ cAt \in 1 .. Turn + 2 /\ Turn' = Turn
    BY <1>2, ControlFacts DEF Turn
  <2> QED
    BY <1>2, <2>1, ProgramFacts, ControlFacts
<1>5. ControlOK
  BY DEF RtmpInv
<1>6. PICK w, b, k : SideOK(s, w, b, k)
  BY <1>3 DEF RtmpInv
<1>7. PICK e, y : e = Head(w) /\ y = OnWire(Tail(w))
  OBVIOUS
<1>8. /\ w # <<>> /\ e \in Message
      /\ R!HeaderRead(s) = HeadOf(e) /\ HeadOf(e) \in ChunkHead
      /\ SubSeq(rWire[s], R!MessageLen(s) + 1, Len(rWire[s])) = y /\ y \in Seq(RtmpMark)
      /\ e.size > 0 => R!Said(s) = e.of
      /\ R!OneMessage(s) = TRUE
      /\ e.tag = "size" => e.size = 1 /\ e.of \in Nat \ {0}
  BY <1>2, <1>3, <1>6, <1>7, SideReads
<1>9. Phase(s) # 3 /\ ~ Done(s)
  BY <1>1, <1>4 DEF Phase, Done, Spoken, Opened
<1>10. e.tag \in Commands /\ (Final(s, e) => Phase(s) = 2)
  BY <1>6, <1>7, <1>8, <1>9, SideNext
<1>11. /\ rWire' \in [R!Sides -> Seq(RtmpMark)] /\ rWire'[s] = y /\ rWire'[other] = rWire[other]
       /\ chunks' \in [R!Sides -> ChunkHead] /\ chunks'[s] = HeadOf(e) /\ chunks'[other] = chunks[other]
       /\ broken' = FALSE
  <2>1. PICK c \in ChunkHead : c = HeadOf(e)
    BY <1>8
  <2>2. /\ rWire' = [rWire EXCEPT ![s] = y] /\ chunks' = [chunks EXCEPT ![s] = c]
        /\ broken' = ~ R!OneMessage(s)
    BY <1>2, <1>8, <2>1 DEF R!Take
  <2>3. rWire \in [R!Sides -> Seq(RtmpMark)] /\ chunks \in [R!Sides -> ChunkHead]
    BY <1>5 DEF ControlOK
  <2> QED
    BY <1>3, <1>8, <2>1, <2>2, <2>3
<1>12. /\ rdSize' \in [R!Sides -> Nat \ {0}] /\ rdSize'[other] = rdSize[other]
       /\ rdSize'[s] = IF e.tag = "size" THEN e.of ELSE rdSize[s]
  BY <1>2, <1>3, <1>5, <1>8, SizeRead
<1>13. cAt' = IF e.tag = "command" /\ e.of = R!Waits[R!Program[cAt]] THEN cAt + 1 ELSE cAt
  <2>1. R!HeaderRead(s).tag = e.tag
    BY <1>8 DEF HeadOf
  <2>2. e.tag = "command" => e.size > 0
    BY <1>8 DEF Message
  <2> QED
    BY <1>2, <1>8, <2>1, <2>2
<1>14. Final(s, e) => sAt = "run" /\ cAt = Turn + 1
  <2> SUFFICES ASSUME Final(s, e) PROVE sAt = "run" /\ cAt = Turn + 1
    OBVIOUS
  <2>1. sAt = "run"
    BY <1>1, <1>9, <1>10 DEF Phase, Spoken
  <2>2. cAt > Turn
    BY <2>1, ControlFacts
  <2> QED
    BY <1>4, <2>1, <2>2
<1>15. cAt' = Turn + 2 <=> Final(s, e)
  <2>1. Final(s, e) => cAt' = Turn + 2
    <3> SUFFICES ASSUME Final(s, e) PROVE cAt' = Turn + 2
      OBVIOUS
    <3>1. e.tag = "command" /\ e.of = R!Command("onStatus", 0)
      BY <1>1 DEF Final
    <3> QED
      BY <1>4, <1>13, <1>14, <3>1
  <2>2. cAt' = Turn + 2 => Final(s, e)
    <3> SUFFICES ASSUME cAt' = Turn + 2 PROVE Final(s, e)
      OBVIOUS
    <3>1. cAt' # cAt
      BY <1>4
    <3>2. e.tag = "command" /\ e.of = R!Waits[R!Program[cAt]] /\ cAt + 1 = Turn + 2
      BY <1>13, <3>1
    <3>3. cAt = Turn + 1
      BY <1>4, <3>2
    <3> QED
      BY <1>1, <1>4, <3>2, <3>3 DEF Final
  <2> QED
    BY <2>1, <2>2
<1>16. cAt' \in 0 .. Turn + 2 /\ cAt' > 0 /\ (cAt' > Turn <=> cAt > Turn)
  BY <1>2, <1>4, <1>13
<1>17. /\ Phase(s)' = IF Final(s, e) THEN 3 ELSE Phase(s)
       /\ Phase(other)' = Phase(other)
       /\ Done(s)' => Spoken(s)'
       /\ Done(other) <=> Done(other)'
       /\ Spoken(other) <=> Spoken(other)'
  BY <1>1, <1>2, <1>4, <1>9, <1>14, <1>15, <1>16 DEF Phase, Done, Spoken, Opened
<1>18. ControlOK'
  BY <1>2, <1>3, <1>4, <1>5, <1>11, <1>12, <1>16, <1>17 DEF ControlOK
<1>19. Done(R!Reader) => Done(R!Reader)'
  BY <1>2, <1>1, <1>4, <1>9, <1>17 DEF Done, R!Reader, R!Writer, R!Peer
<1>20. UNCHANGED <<mode, tags, last, flv, fAt, frd, got, rHanded>> /\ UNCHANGED wrSize
  BY <1>2 DEF R!flvVars
<1>21. \E v, d, j : SideOK(s, v, d, j)'
  <2>1. SideOK(s, Tail(w), b - 1, k)'
    BY <1>3, <1>6, <1>7, <1>8, <1>9, <1>11, <1>12, <1>17, <1>19, <1>20, SideHeard
  <2> QED
    BY <2>1
<1>22. \E v, d, j : SideOK(other, v, d, j)'
  <2>1. PICK v, d, j : SideOK(other, v, d, j)
    BY <1>3 DEF RtmpInv
  <2>2. SideOK(other, v, d, j)'
    BY <1>11, <1>12, <1>17, <1>19, <1>20, <2>1, SideRests
  <2> QED
    BY <2>2
<1> QED
  BY <1>3, <1>18, <1>21, <1>22 DEF RtmpInv

(* ReadCommands and acceptCommand: the server reads a command, and answers *)
(* some of them.                                                           *)
LEMMA ServerReadsStep ==
  ASSUME RtmpInv, R!ServerReads, UNCHANGED <<flv, R!flvVars>>
  PROVE  RtmpInv'
<1>1. PICK s, other : s = "server" /\ other = "client"
  OBVIOUS
<1>3. /\ s \in R!Sides /\ other \in R!Sides /\ R!Peer(s) = other /\ R!Peer(other) = s
      /\ R!Sides = {s, other} /\ s # other
  BY <1>1, SideFacts DEF R!Peer
<1>a. PICK m, asked, answers, z, h :
        /\ m = R!Said(s) /\ asked = (R!HeaderRead(s).tag = "command")
        /\ answers = (asked /\ m.cmd \in {"connect", "releaseStream", "createStream"})
        /\ z = R!MessageLen(s) /\ h = R!HeaderRead(s)
  OBVIOUS
<1>2. /\ sAt = "commands" /\ rWire[s] # <<>> /\ R!SetPacketSize(s)
      /\ sAt' = IF asked /\ m.cmd \in {"publish", "play"} THEN "start" ELSE sAt
      /\ rWire' = [rWire EXCEPT
              !["server"] = SubSeq(@, z + 1, Len(@)),
              !["client"] = IF answers
                         THEN @ \o R!Chunks(0, 0, 3, "command", R!Command("_result", m.id), wrSize["server"])
                         ELSE @]
      /\ chunks' = [chunks EXCEPT !["server"] = h] /\ broken' = ~ R!OneMessage(s)
      /\ UNCHANGED <<mode, cAt, wrSize, last, tags>>
  BY <1>1, <1>a DEF R!ServerReads, R!CanRead, R!CommandSize
<1>4. /\ cAt \in Nat /\ cAt > 0 /\ cAt # Turn + 2 /\ Turn' = Turn /\ cAt' \in 0 .. Turn + 2
      /\ cAt' = cAt
  BY <1>2, ControlFacts DEF Turn
<1>5. ControlOK
  BY DEF RtmpInv
<1>6. PICK w, b, k : SideOK(s, w, b, k)
  BY <1>3 DEF RtmpInv
<1>7. PICK e, y : e = Head(w) /\ y = OnWire(Tail(w))
  OBVIOUS
<1>8. /\ w # <<>> /\ e \in Message
      /\ R!HeaderRead(s) = HeadOf(e) /\ HeadOf(e) \in ChunkHead
      /\ SubSeq(rWire[s], z + 1, Len(rWire[s])) = y /\ y \in Seq(RtmpMark)
      /\ e.size > 0 => R!Said(s) = e.of
      /\ R!OneMessage(s) = TRUE
      /\ e.tag = "size" => e.size = 1 /\ e.of \in Nat \ {0}
  BY <1>a, <1>2, <1>3, <1>6, <1>7, SideReads
<1>9. Phase(s) # 3 /\ ~ Done(s) /\ Phase(other) = 1
  BY <1>1, <1>2, <1>4 DEF Phase, Done, Spoken, Opened
<1>10. e.tag \in Commands /\ (Final(s, e) => Phase(s) = 2)
  BY <1>6, <1>7, <1>8, <1>9, SideNext
<1>11. asked = (e.tag = "command") /\ (e.tag = "command" => m = e.of /\ e.of \in Cmds)
  <2>1. R!HeaderRead(s).tag = e.tag
    BY <1>8 DEF HeadOf
  <2>2. e.tag = "command" => e.size > 0 /\ e.of \in Cmds
    BY <1>8 DEF Message
  <2> QED
    BY <1>a, <1>8, <2>1, <2>2
<1>12. Final(s, e) <=> asked /\ m.cmd \in {"publish", "play"}
  BY <1>1, <1>11 DEF Final
<1>13. /\ sAt' \in {"commands", "start"} /\ (sAt' = "start" <=> Final(s, e))
       /\ Phase(s)' = IF Final(s, e) THEN 3 ELSE Phase(s)
       /\ Phase(other)' = 1
       /\ Done(s)' => Spoken(s)'
       /\ ~ Done(other)' /\ ~ Done(other)
  <2>1. sAt' \in {"commands", "start"} /\ (sAt' = "start" <=> Final(s, e))
    BY <1>2, <1>12
  <2>2. Final(s, e) => cAt > Turn
    <3> SUFFICES ASSUME Final(s, e) PROVE cAt > Turn
      OBVIOUS
    <3>1. Phase(s) = 2
      BY <1>10
    <3> QED
      BY <1>1, <1>9, <3>1 DEF Phase, Spoken
  <2> QED
    BY <1>1, <1>2, <1>4, <1>9, <2>1, <2>2 DEF Phase, Done, Spoken, Opened
<1>14. PICK a \in Seq(RtmpMark) :
         a = IF answers
             THEN rWire[other] \o R!Chunks(0, 0, 3, "command", R!Command("_result", m.id), wrSize["server"])
             ELSE rWire[other]
  <2>1. rWire[other] \in Seq(RtmpMark)
    BY <1>3, <1>5 DEF ControlOK
  <2>2. ASSUME answers PROVE rWire[other] \o R!Chunks(0, 0, 3, "command", R!Command("_result", m.id), wrSize["server"]) \in Seq(RtmpMark)
    <3>1. m \in Cmds
      BY <1>a, <1>11, <2>2
    <3>2. PICK r \in Cmds : r = R!Command("_result", m.id)
      BY <3>1 DEF R!Command, Cmds
    <3>3. "command" \in Commands /\ 3 \in Nat /\ 3 > 0 /\ r \in Sayings
      BY DEF Commands, Sayings
    <3> QED
      BY <1>1, <1>3, <1>5, <3>2, <3>3, CommandWritten
  <2> QED
    BY <2>1, <2>2
<1>15. /\ rWire' \in [R!Sides -> Seq(RtmpMark)] /\ rWire'[s] = y /\ rWire'[other] = a
       /\ chunks' \in [R!Sides -> ChunkHead] /\ chunks'[s] = HeadOf(e) /\ chunks'[other] = chunks[other]
       /\ broken' = FALSE
  <2>1. PICK c \in ChunkHead : c = HeadOf(e)
    BY <1>8
  <2>2. rWire \in [R!Sides -> Seq(RtmpMark)] /\ chunks \in [R!Sides -> ChunkHead]
    BY <1>5 DEF ControlOK
  <2>3. rWire' = [rWire EXCEPT ![s] = y, ![other] = a]
    BY <1>1, <1>2, <1>8, <1>14
  <2>4. chunks' = [chunks EXCEPT ![s] = c] /\ broken' = ~ R!OneMessage(s)
    BY <1>1, <1>a, <1>2, <1>8, <2>1
  <2> QED
    BY <1>3, <1>8, <2>1, <2>2, <2>3, <2>4
<1>16. /\ rdSize' \in [R!Sides -> Nat \ {0}] /\ rdSize'[other] = rdSize[other]
       /\ rdSize'[s] = IF e.tag = "size" THEN e.of ELSE rdSize[s]
  BY <1>2, <1>3, <1>5, <1>8, SizeRead
<1>18. ControlOK'
  BY <1>2, <1>3, <1>4, <1>5, <1>13, <1>15, <1>16 DEF ControlOK
<1>19. Done(R!Reader) => Done(R!Reader)'
  BY <1>2, <1>1, <1>4, <1>9 DEF Done, R!Reader, R!Writer, R!Peer
<1>20. UNCHANGED <<mode, tags, last, flv, fAt, frd, got, rHanded>> /\ UNCHANGED wrSize
  BY <1>2 DEF R!flvVars
<1>21. \E v, d, j : SideOK(s, v, d, j)'
  <2>1. SideOK(s, Tail(w), b - 1, k)'
    BY <1>3, <1>6, <1>7, <1>8, <1>9, <1>13, <1>15, <1>16, <1>19, <1>20, SideHeard
  <2> QED
    BY <2>1
<1>22. \E v, d, j : SideOK(other, v, d, j)'
  <2>1. PICK v, d, j : SideOK(other, v, d, j)
    BY <1>3 DEF RtmpInv
  <2>2. CASE answers
    <3>1. m \in Cmds
      BY <1>a, <1>11, <2>2
    <3>2. PICK r \in Cmds : r = R!Command("_result", m.id)
      BY <3>1 DEF R!Command, Cmds
    <3>3. "command" \in Commands /\ 3 \in Nat /\ 3 > 0 /\ r \in Sayings
      BY DEF Commands, Sayings
    <3>4. PICK f \in Message :
            /\ f.tag = "command" /\ f.type = 0 /\ f.size = 3 /\ f.of = r /\ f.max = wrSize[s]
            /\ Laid(f) = R!Chunks(0, 0, 3, "command", r, wrSize[s])
      <4>1. PICK n \in Nat \ {0} : n = wrSize[s]
        BY <1>3, <1>5 DEF ControlOK
      <4>2. PICK f : f = [type |-> 0, raw |-> 0, size |-> 3, tag |-> "command", of |-> r, max |-> n]
        OBVIOUS
      <4>3. f \in Message /\ Laid(f) = R!Chunks(0, 0, 3, "command", r, n)
        <5>1. 0 \in 0 .. 3 /\ "command" \in Tags
          BY DEF Tags
        <5> QED
          BY <3>2, <3>3, <4>2, <5>1, MessageIs
      <4> QED
        BY <4>1, <4>2, <4>3
    <3>5. rWire'[other] = rWire[other] \o Laid(f)
      BY <1>1, <1>14, <1>15, <2>2, <3>2, <3>4
    <3>6. ~ Final(other, f)
      BY <1>1, <3>2, <3>4 DEF Final, R!Command
    <3>7. Phase(other)' = IF Final(other, f) THEN 2 ELSE 1
      BY <1>13, <3>6
    <3>8. SideOK(other, Append(v, f), d + 1, j)'
      BY <1>3, <1>9, <1>15, <1>16, <1>19, <1>20, <2>1, <3>3, <3>4, <3>5, <3>7, SideSpoke
    <3> QED
      BY <3>8
  <2>3. CASE ~ answers
    <3>1. rWire'[other] = rWire[other]
      BY <1>14, <1>15, <2>3
    <3>2. SideOK(other, v, d, j)'
      BY <1>9, <1>13, <1>15, <1>16, <1>19, <1>20, <2>1, <3>1, SideRests
    <3> QED
      BY <3>2
  <2> QED
    BY <2>2, <2>3
<1> QED
  BY <1>3, <1>18, <1>21, <1>22 DEF RtmpInv

(* The reader of the media is a side, and stays the same. *)
LEMMA ReaderStays ==
  ASSUME RtmpInv, UNCHANGED mode
  PROVE  /\ R!Reader \in R!Sides /\ R!Writer \in R!Sides /\ R!Peer(R!Reader) = R!Writer
         /\ R!Reader' = R!Reader /\ R!Writer' = R!Writer
         /\ R!Sides = {R!Reader, R!Writer} /\ R!Reader # R!Writer /\ Turn' = Turn
  BY ControlFacts, SideFacts DEF R!Reader, R!Writer, R!Peer, R!Sides, Turn

(* A message of media is written. *)
LEMMA SendsStep ==
  ASSUME RtmpInv, R!Writing, NEW type \in 0 .. 3, NEW raw \in Nat, NEW size \in Nat,
         NEW tag \in MediaTags, R!Sends(type, raw, size, tag),
         type \in {2, 3} => size = last.size /\ tag = last.tag /\ last.tag # "none",
         type = 3 => raw = last.raw /\ raw # Ext,
         UNCHANGED <<flv, R!flvVars>>
  PROVE  RtmpInv'
<1>1. PICK s, other, n : s = R!Reader /\ other = R!Writer /\ n = Len(tags) + 1
  OBVIOUS
<1>2. /\ rWire' = [rWire EXCEPT ![s] = @ \o R!Chunks(type, raw, size, tag, n, wrSize[other])]
      /\ last' = [raw |-> raw, size |-> size, tag |-> tag]
      /\ tags' = Append(tags, [tag |-> tag, size |-> size])
      /\ UNCHANGED <<mode, cAt, sAt, wrSize, rdSize, chunks, broken>>
  BY <1>1 DEF R!Sends
<1>3. /\ s \in R!Sides /\ other \in R!Sides /\ R!Peer(s) = other /\ R!Sides = {s, other} /\ s # other
      /\ R!Reader' = R!Reader /\ Turn' = Turn
  BY <1>1, <1>2, ReaderStays
<1>4. ControlOK
  BY DEF RtmpInv
<1>5. PICK w, b, k : SideOK(s, w, b, k)
  BY <1>3 DEF RtmpInv
<1>6. tags \in Seq(RtmpTag) /\ Len(tags) \in Nat /\ n \in Sayings
  <2>1. tags \in Seq(RtmpTag)
    BY <1>1, <1>5 DEF SideOK, FlvAt
  <2> QED
    BY <1>1, <2>1, LenProperties DEF Sayings
<1>7. PICK max \in Nat \ {0} : max = wrSize[other]
  BY <1>3, <1>4 DEF ControlOK
<1>8. PICK e : e = [type |-> type, raw |-> raw, size |-> size, tag |-> tag, of |-> n, max |-> max]
  OBVIOUS
<1>9. /\ e \in Message /\ Laid(e) = R!Chunks(type, raw, size, tag, n, max)
      /\ e.type = type /\ e.raw = raw /\ e.size = size /\ e.tag = tag /\ e.of = n /\ e.max = max
  <2>1. tag \in Tags /\ tag # "command"
    BY DEF MediaTags, Tags
  <2> QED
    BY <1>6, <1>8, <2>1, MessageIs
<1>10. HeadOf(e) = [raw |-> raw, size |-> size, tag |-> tag] /\ TagOf(e) = [tag |-> tag, size |-> size]
       /\ HeadOf(e) \in ChunkHead
  <2>1. tag \in Tags \cup {"none"}
    BY DEF MediaTags, Tags
  <2> QED
    BY <1>9, <2>1 DEF HeadOf, TagOf, ChunkHead
<1>11. Continues(last, e)
  <2>1. last \in ChunkHead
    BY <1>4 DEF ControlOK
  <2>2. CASE type = 3
    <3>1. last = [raw |-> raw, size |-> size, tag |-> tag]
      BY <2>1, <2>2 DEF ChunkHead
    <3> QED
      BY <1>9, <1>10, <2>2, <3>1 DEF Continues
  <2>3. CASE type # 3
    BY <1>9, <2>3 DEF Continues
  <2> QED
    BY <2>2, <2>3
<1>12. e.type \in {2, 3} => tags # <<>>
  BY <1>4, <1>9 DEF ControlOK, R!NoChunk
<1>13. /\ rWire'[s] = rWire[s] \o Laid(e) /\ rWire'[other] = rWire[other]
       /\ rWire' \in [R!Sides -> Seq(RtmpMark)]
  <2>1. PICK x : x = rWire[s] \o Laid(e)
    OBVIOUS
  <2>2. rWire \in [R!Sides -> Seq(RtmpMark)]
    BY <1>4 DEF ControlOK
  <2>3. x \in Seq(RtmpMark)
    <3>1. rWire[s] \in Seq(RtmpMark) /\ Laid(e) \in Seq(RtmpMark)
      BY <1>3, <1>9, <2>2, LaidOut DEF IsLaid
    <3> QED
      BY <2>1, <3>1, ConcatProperties
  <2>4. rWire' = [rWire EXCEPT ![s] = x]
    BY <1>2, <1>7, <1>9, <2>1
  <2> QED
    BY <1>3, <2>1, <2>2, <2>3, <2>4
<1>14. Phase(s)' = Phase(s) /\ Phase(other)' = Phase(other)
       /\ \A side \in R!Sides : (Done(side)' <=> Done(side)) /\ (Spoken(side)' <=> Spoken(side))
  BY <1>2, <1>3 DEF Phase, Done, Spoken, Opened
<1>15. Phase(s) \in {2, 3}
  <2>1. CASE other = "client"
    <3>1. s = "server" /\ cAt = Turn + 2
      BY <1>1, <2>1, SideFacts, ControlFacts DEF R!Writing, R!Reader, R!Peer
    <3>2. Done("server")
      BY <3>1, ControlFacts DEF Done
    <3> QED
      BY <3>1, <3>2 DEF Phase
  <2>2. CASE other # "client"
    <3>1. s = "client" /\ sAt = "run"
      BY <1>1, <1>3, <2>2, SideFacts DEF R!Writing
    <3> QED
      BY <3>1 DEF Phase, Spoken
  <2> QED
    BY <2>1, <2>2
<1>16. tags' # <<>> /\ last' \in ChunkHead
  <2>1. TagOf(e) \in RtmpTag
    BY <1>9 DEF TagOf, RtmpTag, Message
  <2>2. tags' = Append(tags, TagOf(e))
    BY <1>2, <1>10
  <2> QED
    BY <1>2, <1>6, <1>10, <2>1, <2>2, OneMore
<1>17. ControlOK'
  BY <1>2, <1>3, <1>4, <1>13, <1>14, <1>16 DEF ControlOK
<1>18. UNCHANGED <<mode, flv, fAt, frd, got, rHanded>>
  BY <1>2 DEF R!flvVars
<1>19. \E v, d, j : SideOK(s, v, d, j)'
  <2>1. SideOK(s, Append(w, e), b, k)'
    <3>1. /\ last' = HeadOf(e) /\ tags' = Append(tags, TagOf(e)) /\ e.tag \in MediaTags
          /\ e.of = Len(tags) + 1 /\ e.max = wrSize[R!Peer(s)]
          /\ UNCHANGED <<chunks, rdSize, wrSize>> /\ (Done(s) => Done(s)')
      BY <1>1, <1>2, <1>3, <1>7, <1>9, <1>10, <1>14
    <3> QED
      BY <1>1, <1>5, <1>9, <1>11, <1>12, <1>13, <1>14, <1>15, <1>18, <3>1, SideSent
  <2> QED
    BY <2>1
<1>20. \E v, d, j : SideOK(other, v, d, j)'
  <2>1. PICK v, d, j : SideOK(other, v, d, j)
    BY <1>3 DEF RtmpInv
  <2>2. SideOK(other, v, d, j)'
    BY <1>1, <1>2, <1>3, <1>13, <1>14, <2>1, SideAway
  <2> QED
    BY <2>2
<1> QED
  BY <1>3, <1>17, <1>19, <1>20 DEF RtmpInv

(* WriteTag and ForeignTag. *)
LEMMA MediaStep ==
  ASSUME RtmpInv, R!WriteTag \/ R!ForeignTag, UNCHANGED <<flv, R!flvVars>>
  PROVE  RtmpInv'
<1>0. \A z \in R!Media : z[1] \in MediaTags /\ z[2] \in Nat
  <2> SUFFICES ASSUME NEW z \in R!Media PROVE z[1] \in MediaTags /\ z[2] \in Nat
    OBVIOUS
  <2>1. z \in {"audio", "video"} \X Sizes \/ z = <<"data", 0>>
    BY DEF R!Media
  <2>2. CASE z \in {"audio", "video"} \X Sizes
    <3>1. z[1] \in {"audio", "video"} /\ z[2] \in Sizes
      BY <2>2
    <3> QED
      BY <3>1, RtmpAssumption DEF MediaTags
  <2>3. CASE z = <<"data", 0>>
    BY <2>3 DEF MediaTags
  <2> QED
    BY <2>1, <2>2, <2>3
<1>1. 0 \in 0 .. 3 /\ 1 \in 0 .. 3 /\ 2 \in 0 .. 3 /\ 3 \in 0 .. 3 /\ 0 \in Nat /\ Ext \in Nat
      /\ last.raw \in Nat
  BY RtmpAssumption DEF RtmpInv, ControlOK, ChunkHead
<1>2. CASE R!WriteTag
  <2>1. R!Writing
    BY <1>2 DEF R!WriteTag
  <2>2. PICK z \in R!Media : R!Sends(0, 0, z[2], z[1])
    BY <1>2 DEF R!WriteTag
  <2>3. z[1] \in MediaTags /\ z[2] \in Nat
    BY <1>0
  <2> QED
    BY <1>1, <2>1, <2>2, <2>3, SendsStep
<1>3. CASE R!ForeignTag
  <2>1. R!Writing /\ last.tag # "none"
    BY <1>3 DEF R!ForeignTag
  <2>2. PICK z \in R!Media :
          \/ R!Sends(0, Ext, z[2], z[1])
          \/ R!Sends(1, 0, z[2], z[1])
          \/ z[2] = last.size /\ z[1] = last.tag /\ R!Sends(2, 0, z[2], z[1])
          \/ z[2] = last.size /\ z[1] = last.tag /\ last.raw # Ext /\ R!Sends(3, last.raw, z[2], z[1])
    BY <1>3 DEF R!ForeignTag
  <2>3. PICK size \in Nat, tag \in MediaTags : size = z[2] /\ tag = z[1]
    BY <1>0
  <2>4. CASE R!Sends(0, Ext, size, tag)
    BY <1>1, <2>1, <2>4, SendsStep
  <2>5. CASE R!Sends(1, 0, size, tag)
    BY <1>1, <2>1, <2>5, SendsStep
  <2>6. CASE size = last.size /\ tag = last.tag /\ R!Sends(2, 0, size, tag)
    BY <1>1, <2>1, <2>6, SendsStep
  <2>7. CASE size = last.size /\ tag = last.tag /\ last.raw # Ext /\ R!Sends(3, last.raw, size, tag)
    BY <1>1, <2>1, <2>7, SendsStep
  <2> QED
    BY <2>2, <2>3, <2>4, <2>5, <2>6, <2>7
<1> QED
  BY <1>2, <1>3

(* flv.Producer moves, and nobody else. *)
LEMMA ProducerMoves ==
  ASSUME RtmpInv, UNCHANGED R!connVars, \A k : FlvAt(k) => FlvAt(k)'
  PROVE  RtmpInv'
<1>1. UNCHANGED <<mode, cAt, sAt, rWire, wrSize, rdSize, chunks, last, tags, broken>>
  BY DEF R!connVars
<1>2. Turn' = Turn /\ R!Reader' = R!Reader /\ \A s : R!Peer(s)' = R!Peer(s)
  BY <1>1, ReaderStays DEF R!Peer
<1>3. \A s \in R!Sides : /\ Phase(s)' = Phase(s) /\ (Done(s)' <=> Done(s))
                         /\ (Spoken(s)' <=> Spoken(s))
  BY <1>1, <1>2 DEF Phase, Done, Spoken, Opened
<1>4. ControlOK'
  BY <1>1, <1>2, <1>3 DEF RtmpInv, ControlOK
<1>5. ASSUME NEW s \in R!Sides PROVE \E w, b, k : SideOK(s, w, b, k)'
  <2>1. PICK w, b, k : SideOK(s, w, b, k)
    BY DEF RtmpInv
  <2>2. FlvAt(k) => FlvAt(k)'
    OBVIOUS
  <2>3. SideOK(s, w, b, k)'
    BY <1>1, <1>2, <1>3, <2>1, <2>2 DEF SideOK
  <2> QED
    BY <2>3
<1>6. \A s \in R!Sides : \E w, b, k : SideOK(s, w, b, k)'
  BY <1>5
<1> QED
  BY <1>4, <1>6 DEF RtmpInv

(* Conn.Producer: the stream begins with its header. *)
LEMMA ProducerStep ==
  ASSUME RtmpInv, R!Producer
  PROVE  RtmpInv'
<1>1. /\ fAt = "off" /\ flv' = <<R!FileHeader>> /\ fAt' = "header"
      /\ UNCHANGED R!connVars /\ UNCHANGED <<frd, got, rHanded>>
      /\ IF R!Reader = "client" THEN cAt = Len(R!Program) ELSE sAt = "run"
  BY DEF R!Producer
<1>2. UNCHANGED <<mode, cAt, sAt, tags>>
  BY <1>1 DEF R!connVars
<1>3. Done(R!Reader)'
  <2>1. R!Reader' = R!Reader /\ Turn' = Turn
    BY <1>2, ReaderStays
  <2> QED
    BY <1>1, <1>2, <2>1, ControlFacts DEF Done
<1>4. ASSUME NEW k, FlvAt(k) PROVE FlvAt(k)'
  <2>1. k = 0 /\ tags \in Seq(RtmpTag) /\ frd = B!NewReadBuffer /\ got = <<>> /\ rHanded = <<>>
        /\ k \in 0 .. Len(tags) /\ rHanded \in Seq(Seq(FlvByte))
    BY <1>1, <1>4 DEF FlvAt
  <2>2. flv' = Flv(tags, k)
    BY <1>1, <2>1, FlvIs
  <2> QED
    BY <1>1, <1>2, <1>3, <2>1, <2>2 DEF FlvAt
<1> QED
  BY <1>1, <1>4, ProducerMoves

(* The bytes of a message, behind the header of a tag. *)
LEMMA TagWritten ==
  ASSUME NEW ts \in Seq(RtmpTag), NEW n \in 1 .. Len(ts), NEW size, size = ts[n].size,
         NEW d, d = [i \in 1 .. size |-> R!Byte(n, i)]
  PROVE  <<[of |-> n, at |-> 0, size |-> size]>>
           \o [i \in 1 .. size |-> [of |-> d[i].of, at |-> d[i].at, size |-> size]] = TagList(ts, n)
<1>1. PICK z \in Nat : z = size
  BY TagListFacts
<1>2. PICK hd, bytes :
        /\ hd = <<[of |-> n, at |-> 0, size |-> size]>>
        /\ bytes = [i \in 1 .. size |-> [of |-> d[i].of, at |-> d[i].at, size |-> size]]
  OBVIOUS
<1>3. PICK o \in Nat : o = 1
  OBVIOUS
<1>4. n \in Nat
  BY TagListFacts
<1>5. hd \in Seq(FlvByte) /\ Len(hd) = o /\ hd[1] = TagByte(ts, n, 1)
  <2>1. PICK f \in FlvByte : f = [of |-> n, at |-> 0, size |-> z]
    BY <1>4 DEF FlvByte
  <2>2. TagByte(ts, n, 1) = f
    BY <1>1, <2>1 DEF TagByte
  <2>3. hd = <<f>>
    BY <1>1, <1>2, <2>1
  <2> QED
    BY <1>3, <2>2, <2>3
<1>6. bytes \in Seq(FlvByte) /\ Len(bytes) = z /\ \A i \in 1 .. z : bytes[i] = TagByte(ts, n, i + 1)
  <2>1. \A i \in 1 .. z : d[i].of = n /\ d[i].at = i
    BY <1>1 DEF R!Byte
  <2>2. bytes = [i \in 1 .. z |-> [of |-> n, at |-> i, size |-> z]]
    BY <1>1, <1>2, <2>1
  <2>3. \A i \in 1 .. z : [of |-> n, at |-> i, size |-> z] \in FlvByte
    BY <1>4 DEF FlvByte
  <2>4. ASSUME NEW i \in 1 .. z PROVE TagByte(ts, n, i + 1) = [of |-> n, at |-> i, size |-> z]
    <3>1. (i + 1) - 1 = i
      OBVIOUS
    <3>2. ts[n].size = z
      BY <1>1
    <3> QED
      BY <3>1, <3>2, Zenon DEF TagByte
  <2>5. bytes \in Seq(FlvByte) /\ Len(bytes) = z
    BY <2>2, <2>3
  <2> QED
    BY <2>2, <2>4, <2>5
<1>7. PICK g : g = hd \o bytes
  OBVIOUS
<1>8. /\ g \in Seq(FlvByte) /\ Len(g) = o + z
      /\ \A x \in 1 .. o + z : g[x] = IF x <= o THEN hd[x] ELSE bytes[x - o]
  BY ONLY <1>5, <1>6, <1>7, ConcatProperties
<1>9. /\ TagList(ts, n) \in Seq(FlvByte) /\ Len(TagList(ts, n)) = z + 1
      /\ \A x \in 1 .. z + 1 : TagList(ts, n)[x] = TagByte(ts, n, x)
  BY <1>1, TagListFacts
<1>10. ASSUME NEW x \in 1 .. z + 1 PROVE g[x] = TagList(ts, n)[x]
  <2>1. CASE x = 1
    <3>1. x \in 1 .. o + z /\ x <= o
      BY <1>3, <2>1
    <3> QED
      BY <1>5, <1>8, <1>9, <2>1, <3>1
  <2>2. CASE x # 1
    <3>1. x \in 1 .. o + z /\ ~ x <= o /\ x - o \in 1 .. z /\ (x - o) + 1 = x
      BY <1>3, <2>2
    <3> QED
      BY <1>6, <1>8, <1>9, <3>1
  <2> QED
    BY <2>1, <2>2
<1>11. Len(g) = z + 1
  BY <1>3, <1>8
<1>12. g = TagList(ts, n)
  BY <1>8, <1>9, <1>10, <1>11, SeqEqual
<1> QED
  BY <1>2, <1>7, <1>12

(* The tag of a message that has come goes behind what there is. *)
LEMMA FlvCame ==
  ASSUME NEW k, FlvAt(k), fAt \in {"probe", "start"}, k + 1 <= Len(tags),
         flv' = Flv(tags, k + 1), Done(R!Reader)',
         UNCHANGED <<tags, fAt, frd, got, rHanded>>
  PROVE  FlvAt(k + 1)'
<1>1. k \in 0 .. Len(tags) /\ tags \in Seq(RtmpTag) /\ flv = Flv(tags, k) /\ FlvReading(k)
  BY DEF FlvAt
<1>2. PICK l \in Nat : l = Len(tags)
  BY <1>1, LenProperties
<1>3. k \in Nat /\ k + 1 \in 0 .. l /\ k \in 0 .. l /\ k \in 0 .. k + 1 /\ k < k + 1
  BY <1>1, <1>2
<1>4. PICK a, c : a = FlvTags(tags, k) /\ c = FlvTags(tags, k + 1)
  OBVIOUS
<1>5. PICK m \in Nat, n \in Nat : m = Len(a) /\ n = Len(c) /\ m <= n
  <2>1. PICK z \in Nat : z = tags[k + 1].size /\ Len(a) + (z + 1) <= Len(c)
                         /\ Len(a) \in Nat /\ Len(c) \in Nat
    BY <1>1, <1>2, <1>3, <1>4, TagPlace
  <2>2. Len(a) <= Len(c)
    BY <2>1
  <2> QED
    BY <2>1, <2>2
<1>6. Len(flv) = 1 + m /\ Len(flv') = 1 + n
  BY <1>1, <1>2, <1>3, <1>4, <1>5, FlvIs
<1>7. ReaderOK(frd) /\ frd.net <= Len(flv)
  BY <1>1 DEF FlvReading
<1>8. frd.net <= Len(flv')
  <2>1. frd.net \in Nat
    BY <1>7, ReaderNumbers
  <2> QED
    BY <1>5, <1>6, <1>7, <2>1
<1>9. PICK h \in 0 .. k : GotOf(h, k) /\ (fAt = "start" => L!FlattenSeq(rHanded) = FlvTags(tags, h))
  BY <1>1 DEF FlvReading
<1>10. h \in 0 .. k + 1 /\ h < k + 1 /\ h \in Nat
  BY <1>3
<1>11. GotOf(h, k + 1)'
  BY <1>9, <1>10 DEF GotOf, FlvTags, Place
<1>12. FlvReading(k + 1)'
  <2>1. ReaderOK(frd)' /\ (fAt' = "start" => L!FlattenSeq(rHanded') = FlvTags(tags', h))
    BY <1>7, <1>9 DEF ReaderOK
  <2> QED
    BY <1>8, <1>10, <1>11, <2>1 DEF FlvReading
<1>13. k + 1 \in 0 .. Len(tags')
  BY <1>2, <1>3
<1> QED
  BY <1>1, <1>12, <1>13 DEF FlvAt

(* Conn.Read: the reader of the media takes a message of it.               *)
LEMMA SideTook ==
  ASSUME NEW s, s = R!Reader, NEW w, NEW b, NEW k, SideOK(s, w, b, k), w # <<>>, Phase(s) = 3,
         rWire'[s] = OnWire(Tail(w)), chunks'[s] = HeadOf(Head(w)), rdSize'[s] = rdSize[s],
         UNCHANGED wrSize, Phase(s)' = Phase(s), UNCHANGED <<mode, tags, last>>,
         FlvAt(k + 1)'
  PROVE  SideOK(s, Tail(w), 0, k + 1)'
<1>1. PICK c, x, rs, ws, e, v :
        /\ c = chunks[s] /\ x = rWire[s] /\ rs = rdSize[s] /\ ws = wrSize[R!Peer(s)]
        /\ e = Head(w) /\ v = Tail(w)
  OBVIOUS
<1>2. Carries(w, x, c, rs, ws, 3) /\ Order(s, w, b, 3) /\ MediaOf(tags, last, c, w, b, k)
  BY <1>1 DEF SideOK
<1>3. w \in Seq(Message)
  BY <1>2 DEF Carries
<1>4. PICK after : after = Phase(s)
  OBVIOUS
<1>5. /\ Carries(v, OnWire(v), HeadOf(e), IF e.tag = "size" THEN e.of ELSE rs, ws, after)
      /\ LastHead(HeadOf(e), v) = LastHead(c, w)
  BY <1>1, <1>2, CarriesLess, SMTT(30)
<1>6. b = 0 /\ e.tag \in MediaTags /\ Order(s, v, 0, 3)
  BY <1>1, <1>2, <1>3, OrderMediaLess
<1>7. e.tag # "size"
  BY <1>6 DEF MediaTags
<1>8. MediaOf(tags, last, HeadOf(e), v, 0, k + 1)
  BY <1>1, <1>2, <1>3, <1>5, <1>6, MediaLess
<1>9. R!Peer(s)' = R!Peer(s) /\ R!Reader' = R!Reader
  BY DEF R!Peer, R!Reader, R!Writer
<1>10. Carries(v, rWire[s], chunks[s], rdSize[s], wrSize[R!Peer(s)], Phase(s))'
  BY <1>1, <1>4, <1>5, <1>7, <1>9
<1>11. Order(s, v, 0, Phase(s))'
  BY <1>6
<1>12. MediaOf(tags, last, chunks[s], v, 0, k + 1)'
  BY <1>1, <1>8
<1> QED
  BY <1>1, <1>9, <1>10, <1>11, <1>12 DEF SideOK

(* What it takes is the next of the messages that were written. *)
LEMMA SideNextMedia ==
  ASSUME NEW s, s = R!Reader, NEW w, NEW b, NEW k, SideOK(s, w, b, k), w # <<>>, Phase(s) = 3
  PROVE  /\ b = 0 /\ Head(w).tag \in MediaTags /\ k \in Nat /\ k + 1 <= Len(tags)
         /\ Head(w).of = k + 1 /\ tags[k + 1] = TagOf(Head(w))
<1>1. PICK c, x, rs, ws, e, v :
        /\ c = chunks[s] /\ x = rWire[s] /\ rs = rdSize[s] /\ ws = wrSize[R!Peer(s)]
        /\ e = Head(w) /\ v = Tail(w)
  OBVIOUS
<1>2. Carries(w, x, c, rs, ws, 3) /\ Order(s, w, b, 3) /\ MediaOf(tags, last, c, w, b, k)
  BY <1>1 DEF SideOK
<1>3. w \in Seq(Message)
  BY <1>2 DEF Carries
<1>4. b = 0 /\ e.tag \in MediaTags /\ Order(s, v, 0, 3)
  BY <1>1, <1>2, <1>3, OrderMediaLess
<1>5. PICK after : after = Phase(s)
  OBVIOUS
<1>6. LastHead(HeadOf(e), v) = LastHead(c, w)
  BY <1>1, <1>2, <1>5, CarriesLess
<1>7. /\ k \in Nat /\ k + 1 <= Len(tags) /\ e.of = k + 1 /\ tags[k + 1] = TagOf(e)
  BY <1>1, <1>2, <1>3, <1>4, <1>6, MediaLess
<1> QED
  BY <1>1, <1>4, <1>7

(* Conn.Read: the next message becomes a tag. *)
LEMMA ConnReadStep ==
  ASSUME RtmpInv, R!ConnRead
  PROVE  RtmpInv'
<1>1. PICK s, other : s = R!Reader /\ other = R!Writer
  OBVIOUS
<1>2. /\ fAt \in {"probe", "start"} /\ rWire[s] # <<>> /\ R!Take(s)
      /\ UNCHANGED <<mode, cAt, sAt, wrSize, rdSize, last, tags>> /\ UNCHANGED R!flvVars
  BY <1>1 DEF R!ConnRead, R!CanRead
<1>3. /\ s \in R!Sides /\ other \in R!Sides /\ R!Sides = {s, other} /\ s # other
      /\ R!Reader' = R!Reader /\ Turn' = Turn
  BY <1>1, <1>2, ReaderStays
<1>4. ControlOK
  BY DEF RtmpInv
<1>5. PICK w, b, k : SideOK(s, w, b, k)
  BY <1>3 DEF RtmpInv
<1>6. FlvAt(k)
  BY <1>1, <1>5 DEF SideOK
<1>7. Done(R!Reader) /\ flv = Flv(tags, k) /\ tags \in Seq(RtmpTag) /\ k \in 0 .. Len(tags)
  BY <1>2, <1>6 DEF FlvAt
<1>8. Phase(s) = 3
  BY <1>1, <1>7 DEF Phase
<1>9. PICK e, y : e = Head(w) /\ y = OnWire(Tail(w))
  OBVIOUS
<1>10. /\ w # <<>> /\ e \in Message
       /\ R!HeaderRead(s) = HeadOf(e) /\ HeadOf(e) \in ChunkHead
       /\ SubSeq(rWire[s], R!MessageLen(s) + 1, Len(rWire[s])) = y /\ y \in Seq(RtmpMark)
       /\ R!Data(s) = [i \in 1 .. e.size |-> R!Byte(e.of, i)]
       /\ R!OneMessage(s) = TRUE
  <2>1. /\ w # <<>> /\ Head(w) \in Message
        /\ R!HeaderRead(s) = HeadOf(Head(w)) /\ HeadOf(Head(w)) \in ChunkHead
        /\ SubSeq(rWire[s], R!MessageLen(s) + 1, Len(rWire[s])) = OnWire(Tail(w))
        /\ OnWire(Tail(w)) \in Seq(RtmpMark)
        /\ R!Data(s) = [i \in 1 .. Head(w).size |-> R!Byte(Head(w).of, i)]
        /\ R!OneMessage(s) = TRUE
    BY <1>2, <1>3, <1>5, SideReads
  <2> QED
    BY <1>9, <2>1
<1>11. /\ e.tag \in MediaTags /\ k \in Nat /\ k + 1 <= Len(tags)
       /\ e.of = k + 1 /\ tags[k + 1] = TagOf(e)
  BY <1>1, <1>5, <1>8, <1>9, <1>10, SideNextMedia
<1>12. /\ rWire' \in [R!Sides -> Seq(RtmpMark)] /\ rWire'[s] = y /\ rWire'[other] = rWire[other]
       /\ chunks' \in [R!Sides -> ChunkHead] /\ chunks'[s] = HeadOf(e) /\ chunks'[other] = chunks[other]
       /\ broken' = FALSE
  <2>1. PICK c \in ChunkHead : c = HeadOf(e)
    BY <1>10
  <2>2. /\ rWire' = [rWire EXCEPT ![s] = y] /\ chunks' = [chunks EXCEPT ![s] = c]
        /\ broken' = ~ R!OneMessage(s)
    BY <1>2, <1>10, <2>1 DEF R!Take
  <2>3. rWire \in [R!Sides -> Seq(RtmpMark)] /\ chunks \in [R!Sides -> ChunkHead]
    BY <1>4 DEF ControlOK
  <2> QED
    BY <1>3, <1>10, <2>1, <2>2, <2>3
<1>13. flv' = Flv(tags, k + 1)
  <2>1. PICK n, size, d, hd, bytes :
          /\ n = k + 1 /\ size = e.size /\ d = R!Data(s)
          /\ hd = <<[of |-> n, at |-> 0, size |-> size]>>
          /\ bytes = [i \in 1 .. size |-> [of |-> d[i].of, at |-> d[i].at, size |-> size]]
    OBVIOUS
  <2>2. R!HeaderRead(R!Reader).size = size /\ R!Last(flv).of + 1 = n /\ R!Data(R!Reader) = d
    <3>1. R!Last(flv).of = k
      BY <1>7, FlvIs
    <3>2. HeadOf(e).size = e.size
      BY DEF HeadOf
    <3> QED
      BY <1>1, <1>10, <2>1, <3>1, <3>2
  <2>3. flv' = flv \o hd \o bytes
    BY <2>1, <2>2 DEF R!ConnRead
  <2>4. n \in 1 .. Len(tags) /\ size = tags[n].size /\ d = [i \in 1 .. size |-> R!Byte(n, i)]
    <3>1. n \in 1 .. Len(tags)
      <4>1. PICK l \in Nat : l = Len(tags)
        BY <1>7, LenProperties
      <4> QED
        BY <1>11, <2>1, <4>1
    <3>2. tags[n].size = e.size
      BY <1>11, <2>1 DEF TagOf
    <3>3. d = [i \in 1 .. size |-> R!Byte(n, i)]
      BY <1>10, <1>11, <2>1
    <3> QED
      BY <2>1, <3>1, <3>2, <3>3
  <2>5. PICK g : g = TagList(tags, n)
    OBVIOUS
  <2>6. hd \o bytes = g
    BY <1>7, <2>1, <2>4, <2>5, TagWritten
  <2>7. flv \in Seq(FlvByte) /\ hd \in Seq(FlvByte) /\ bytes \in Seq(FlvByte)
    <3>1. flv \in Seq(FlvByte)
      BY <1>7, FlvIs
    <3>2. n \in Nat /\ size \in Nat
      BY <1>10, <1>11, <2>1 DEF Message
    <3>3. [of |-> n, at |-> 0, size |-> size] \in FlvByte
      BY <3>2 DEF FlvByte
    <3>4. \A i \in 1 .. size : [of |-> d[i].of, at |-> d[i].at, size |-> size] \in FlvByte
      <4>1. \A i \in 1 .. size : d[i].of = n /\ d[i].at = i
        BY <2>4 DEF R!Byte
      <4> QED
        BY <3>2, <4>1 DEF FlvByte
    <3>5. hd \in Seq(FlvByte)
      <4>1. PICK f \in FlvByte : f = [of |-> n, at |-> 0, size |-> size]
        BY <3>3
      <4>2. hd = <<f>>
        BY <2>1, <4>1
      <4> QED
        BY <4>2
    <3>6. bytes \in Seq(FlvByte)
      BY <2>1, <3>2, <3>4
    <3> QED
      BY <3>1, <3>5, <3>6
  <2>8. flv \o hd \o bytes = flv \o g
    <3>1. \A a, m, c \in Seq(FlvByte) : (a \o m) \o c = a \o (m \o c)
      <4> TAKE a, m, c \in Seq(FlvByte)
      <4> QED
        BY ONLY a \in Seq(FlvByte), m \in Seq(FlvByte), c \in Seq(FlvByte), ConcatAssociative
    <3> QED
      BY <2>6, <2>7, <3>1
  <2>9. Flv(tags, k + 1) = flv \o g
    BY <1>7, <1>11, <2>1, <2>5, FlvMore
  <2> QED
    BY <2>3, <2>8, <2>9
<1>14. \A side \in R!Sides : /\ Phase(side)' = Phase(side) /\ (Done(side)' <=> Done(side))
                             /\ (Spoken(side)' <=> Spoken(side))
  BY <1>2, <1>3 DEF Phase, Done, Spoken, Opened
<1>15. ControlOK'
  BY <1>2, <1>3, <1>4, <1>12, <1>14 DEF ControlOK
<1>16. Done(R!Reader)'
  <2>1. Done(R!Reader)' <=> Done(R!Reader)
    BY <1>2, <1>3 DEF Done
  <2> QED
    BY <1>7, <2>1
<1>17. FlvAt(k + 1)'
  BY <1>2, <1>6, <1>11, <1>13, <1>16, FlvCame DEF R!flvVars
<1>18. \E v, d, j : SideOK(s, v, d, j)'
  <2>1. /\ UNCHANGED wrSize /\ UNCHANGED <<mode, tags, last>> /\ rdSize'[s] = rdSize[s]
        /\ Phase(s)' = Phase(s)
    BY <1>2, <1>3, <1>14
  <2>2. SideOK(s, Tail(w), 0, k + 1)'
    BY <1>1, <1>5, <1>8, <1>9, <1>10, <1>12, <1>17, <2>1, SideTook
  <2> QED
    BY <2>2
<1>19. \E v, d, j : SideOK(other, v, d, j)'
  <2>1. PICK v, d, j : SideOK(other, v, d, j)
    BY <1>3 DEF RtmpInv
  <2>2. /\ UNCHANGED <<mode, wrSize>> /\ rdSize'[other] = rdSize[other] /\ other # R!Reader
        /\ Phase(other)' = Phase(other)
    BY <1>1, <1>2, <1>3, <1>14
  <2>3. SideOK(other, v, d, j)'
    BY <1>12, <2>1, <2>2, SideAway
  <2> QED
    BY <2>3
<1> QED
  BY <1>3, <1>15, <1>18, <1>19 DEF RtmpInv

(* The reader of RTMP is that of ReadBuffer. *)
LEMMA SameReadR ==
  /\ \A r, n, m : R!Read(r, n, m) = B!Read(r, n, m)
  /\ \A r : R!Reset(r) = B!Reset(r)
  BY DEF R!Read, R!Reset, R!Bytes, R!Drain, B!Read, B!Reset, B!Bytes, B!Drain

(* A reader that does not keep what it reads. *)
LEMMA ReadPassed ==
  ASSUME NEW r \in Reader, r.size = 0, NEW want, NEW total, NEW o \in B!Read(r, want, total)
  PROVE  \E n \in 1 .. want :
           /\ r.net + n <= total
           /\ o.r \in Reader /\ o.r.size = 0 /\ o.r.buf = <<>> /\ o.r.pos = 0
           /\ o.r.net = r.net + n
<1>1. PICK n \in 1 .. want :
        /\ r.net + n <= total
        /\ o = IF r.size <= 0
               THEN [r |-> [[r EXCEPT !.size = 0, !.buf = <<>>, !.pos = 0] EXCEPT !.net = @ + n],
                     got |-> B!Bytes(r.net, n), fails |-> FALSE]
               ELSE IF Len(r.buf) + n > r.size
               THEN [r |-> [r EXCEPT !.net = @ + n], got |-> <<>>, fails |-> TRUE]
               ELSE [r |-> [r EXCEPT !.net = @ + n, !.buf = @ \o B!Bytes(r.net, n), !.pos = @ + n],
                     got |-> B!Bytes(r.net, n), fails |-> FALSE]
  BY DEF B!Read
<1>2. r.size <= 0
  OBVIOUS
<1>3. o.r = [[r EXCEPT !.size = 0, !.buf = <<>>, !.pos = 0] EXCEPT !.net = @ + n]
  BY <1>1, <1>2
<1>4a. PICK e \in Seq(Nat) : e = <<>>
  BY EmptySeq
<1>4b. PICK z \in Int, y \in Nat : z = 0 /\ y = 0
  OBVIOUS
<1>4c. PICK q \in Nat : q = r.net + n
  <2>1. r.net \in Nat /\ n \in Nat
    BY DEF Reader
  <2> QED
    BY <2>1
<1>4. e = <<>> /\ z = 0 /\ y = 0 /\ q = r.net + n
  BY <1>4a, <1>4b, <1>4c
<1> DEFINE t == [r EXCEPT !.size = z, !.buf = e, !.pos = y]
<1>5. t \in Reader /\ t.size = z /\ t.buf = e /\ t.pos = y /\ t.net = r.net
  BY DEF Reader
<1>6. o.r = [t EXCEPT !.net = @ + n]
  BY <1>3, <1>4, Zenon
<1> HIDE DEF t
<1>7. o.r = [t EXCEPT !.net = q]
  BY <1>4, <1>5, <1>6, Zenon
<1>8. o.r \in Reader /\ o.r.size = z /\ o.r.buf = e /\ o.r.pos = y /\ o.r.net = q
  BY <1>5, <1>7 DEF Reader
<1> QED
  BY <1>1, <1>4, <1>8

(* The first byte that a new reader gives. *)
LEMMA ReadFirst ==
  ASSUME NEW total \in Nat, NEW o \in B!Read(B!NewReadBuffer, 1, total)
  PROVE  ReaderOK(o.r) /\ o.r.net = 1 /\ o.r.buf = <<>> /\ o.r.net <= total
<1>1. PICK r, want : r = B!NewReadBuffer /\ want = 1
  OBVIOUS
<1>2. /\ ReaderOK(r) /\ r.size = 0 /\ r.net = 0 /\ r.buf = <<>> /\ r.pos = 0 /\ r \in Reader
  BY <1>1, ReaderNew DEF B!NewReadBuffer, ReaderOK
<1>3. PICK n \in 1 .. want :
        /\ r.net + n <= total
        /\ o.r \in Reader /\ o.r.size = 0 /\ o.r.buf = <<>> /\ o.r.pos = 0
        /\ o.r.net = r.net + n
  <2>1. o \in B!Read(r, want, total)
    BY <1>1
  <2> QED
    BY <1>2, <2>1, ReadPassed
<1>4. n = 1 /\ n \in Nat /\ o.r.net = 1 /\ 1 <= total
  BY <1>1, <1>2, <1>3
<1>5. ReaderOK(o.r)
  <2>1. r.pos = Len(r.buf)
    BY <1>2, EmptySeq
  <2> QED
    BY <1>2, <1>3, <1>4, <2>1, ReaderPasses
<1> QED
  BY <1>3, <1>4, <1>5

(* flv.Producer reads the header of the stream. *)
LEMMA ReadHeaderStep ==
  ASSUME RtmpInv, R!readHeader
  PROVE  RtmpInv'
<1>1. /\ fAt = "header" /\ fAt' = "check" /\ UNCHANGED R!connVars
      /\ UNCHANGED <<flv, got, rHanded, mode, cAt, sAt, tags>>
  BY DEF R!readHeader, R!connVars
<1>2. PICK o \in B!Read(frd, 1, Len(flv)) : frd' = [o.r EXCEPT !.size = ProbeTags]
  BY SameReadR DEF R!readHeader
<1>3. Done(R!Reader)' <=> Done(R!Reader)
  <2>1. R!Reader' = R!Reader /\ Turn' = Turn
    BY <1>1, ReaderStays
  <2> QED
    BY <1>1, <2>1 DEF Done
<1>4. ASSUME NEW k, FlvAt(k) PROVE FlvAt(k)'
  <2>1. /\ flv = Flv(tags, k) /\ Done(R!Reader) /\ frd = B!NewReadBuffer /\ got = <<>>
        /\ rHanded = <<>> /\ k \in 0 .. Len(tags) /\ tags \in Seq(RtmpTag)
        /\ rHanded \in Seq(Seq(FlvByte))
    BY <1>1, <1>4 DEF FlvAt
  <2>2. flv \in Seq(FlvByte) /\ Len(flv) \in Nat
    BY <2>1, FlvIs, LenProperties
  <2>3. ReaderOK(o.r) /\ o.r.net = 1 /\ o.r.buf = <<>> /\ o.r.net <= Len(flv)
    BY <1>2, <2>1, <2>2, ReadFirst
  <2>4. /\ ReaderOK(frd') /\ frd'.size = ProbeTags /\ frd'.net = 1 /\ frd'.buf = <<>>
    BY <1>2, <2>3, ReaderSized, RtmpAssumption
  <2>5. frd'.net - Len(frd'.buf) = 1 /\ Place(frd') = 1
    <3>1. Len(frd'.buf) = 0 /\ frd'.pos = 0
      <4>1. Len(frd'.buf) = 0 /\ frd'.pos \in Nat /\ frd'.pos <= Len(frd'.buf)
        BY <2>4, EmptySeq, ReaderNumbers
      <4> QED
        BY <4>1
    <3> QED
      BY <2>4, <3>1 DEF Place
  <2>6. GotOf(0, k)'
    <3>1. FlvTags(tags, 0) = <<>> /\ Len(<<>>) = 0 /\ <<>> \in Seq(FlvByte)
      <4>1. 0 \in 0 .. k
        BY <2>1
      <4> QED
        BY <2>1, <4>1, TagPlace, EmptySeq
    <3>2. Place(frd)' = 1
      BY <2>5 DEF Place
    <3>3. (1 + Len(FlvTags(tags, 0))) + Len(got) = 1
      BY <2>1, <3>1
    <3>4. \A x \in 1 .. Len(got) : FALSE
      BY <2>1, <3>1
    <3>5. got' = got /\ tags' = tags
      BY <1>1
    <3> QED
      BY <2>1, <3>1, <3>2, <3>3, <3>4, <3>5 DEF GotOf
  <2>7. FlvReading(k)'
    <3>1. 0 \in 0 .. k
      BY <2>1
    <3>2. ReaderOK(frd)' /\ frd'.net <= Len(flv')
      BY <1>1, <2>3, <2>4 DEF ReaderOK
    <3> QED
      BY <1>1, <2>6, <3>1, <3>2 DEF FlvReading
  <2> QED
    BY <1>1, <1>3, <2>1, <2>4, <2>5, <2>7 DEF FlvAt
<1> QED
  BY <1>1, <1>4, ProducerMoves

(* Probes: the probe goes on, or all that it has read is read again.       *)
LEMMA ProbesStep ==
  ASSUME RtmpInv, R!Probes
  PROVE  RtmpInv'
<1>1. /\ fAt = "check" /\ UNCHANGED R!connVars
      /\ UNCHANGED <<flv, got, rHanded, mode, cAt, sAt, tags>>
      /\ \/ fAt' = "probe" /\ UNCHANGED frd
         \/ fAt' = "start" /\ frd' = B!Reset(frd)
  BY SameReadR DEF R!Probes, R!connVars
<1>2. Done(R!Reader)' <=> Done(R!Reader)
  <2>1. R!Reader' = R!Reader /\ Turn' = Turn
    BY <1>1, ReaderStays
  <2> QED
    BY <1>1, <2>1 DEF Done
<1>3. ASSUME NEW k, FlvAt(k) PROVE FlvAt(k)'
  <2>1. /\ flv = Flv(tags, k) /\ Done(R!Reader) /\ frd.size = ProbeTags
        /\ frd.net - Len(frd.buf) = 1 /\ got = <<>> /\ FlvReading(k)
        /\ rHanded = <<>> /\ k \in 0 .. Len(tags) /\ tags \in Seq(RtmpTag)
        /\ rHanded \in Seq(Seq(FlvByte))
    BY <1>1, <1>3 DEF FlvAt
  <2>2. CASE fAt' = "probe" /\ UNCHANGED frd
    <3>1. FlvReading(k)'
      <4>1. \A h : GotOf(h, k) => GotOf(h, k)'
        BY <1>1, <2>2 DEF GotOf, FlvTags, Place
      <4> QED
        BY <1>1, <2>1, <2>2, <4>1 DEF FlvReading, ReaderOK
    <3> QED
      BY <1>1, <1>2, <2>1, <2>2, <3>1 DEF FlvAt
  <2>3. CASE fAt' = "start" /\ frd' = B!Reset(frd)
    <3>1. ReaderOK(frd) /\ frd.net <= Len(flv)
      BY <2>1 DEF FlvReading
    <3>2. ReaderOK(frd') /\ frd'.size <= 0 /\ frd'.net = frd.net /\ Place(frd') = 1
      BY <2>1, <2>3, <3>1, ReaderReset
    <3>3. FlvTags(tags, 0) = <<>> /\ Len(<<>>) = 0 /\ <<>> \in Seq(FlvByte) /\ 0 \in 0 .. k
      <4>1. 0 \in 0 .. k
        BY <2>1
      <4> QED
        BY <2>1, <4>1, TagPlace, EmptySeq
    <3>4. GotOf(0, k)'
      <4>1. Place(frd)' = 1
        BY <3>2 DEF Place
      <4>2. (1 + Len(FlvTags(tags, 0))) + Len(got) = 1
        BY <2>1, <3>3
      <4>3. \A x \in 1 .. Len(got) : FALSE
        BY <2>1, <3>3
      <4>4. got' = got /\ tags' = tags
        BY <1>1
      <4> QED
        BY <2>1, <3>3, <4>1, <4>2, <4>3, <4>4 DEF GotOf
    <3>5. L!FlattenSeq(rHanded') = FlvTags(tags', 0)
      BY <1>1, <2>1, <3>3, L!FlattenEmpty
    <3>6. FlvReading(k)'
      <4>1. ReaderOK(frd)' /\ frd'.net <= Len(flv')
        BY <1>1, <3>1, <3>2 DEF ReaderOK
      <4> QED
        BY <3>3, <3>4, <3>5, <4>1 DEF FlvReading
    <3> QED
      BY <1>1, <1>2, <2>1, <2>3, <3>2, <3>6 DEF FlvAt
  <2> QED
    BY <1>1, <2>2, <2>3
<1> QED
  BY <1>1, <1>3, ProducerMoves

(* readPacket asks for what the tag still lacks. *)
LEMMA TagWanted ==
  ASSUME NEW ts \in Seq(RtmpTag), NEW k \in 0 .. Len(ts), NEW h \in 0 .. k, NEW g \in Seq(FlvByte),
         g # <<>> => h < k /\ Len(g) < ts[h + 1].size + 1,
         \A x \in 1 .. Len(g) : g[x] = TagByte(ts, h + 1, x)
  PROVE  /\ (IF g = <<>> THEN 1 ELSE 1 + g[1].size - Len(g)) \in Nat \ {0}
         /\ g # <<>> => g[1].size = ts[h + 1].size
<1>1. CASE g = <<>>
  BY <1>1
<1>2. CASE g # <<>>
  <2>1. PICK m \in Nat : m = Len(g) /\ m # 0
    <3>1. Len(g) \in Nat /\ Len(g) # 0
      BY <1>2, EmptySeq, LenProperties
    <3> QED
      BY <3>1
  <2>2. PICK z \in Nat : z = ts[h + 1].size
    BY <1>2, TagPlace
  <2>3. 1 \in 1 .. m
    BY <2>1
  <2>4. g[1].size = z
    <3>1. g[1] = TagByte(ts, h + 1, 1)
      BY <2>1, <2>3
    <3> QED
      BY <2>2, <3>1 DEF TagByte
  <2>5. m < z + 1
    BY <1>2, <2>1, <2>2
  <2>6. 1 + z - m \in Nat \ {0}
    BY <2>5
  <2> QED
    BY <1>2, <2>1, <2>2, <2>4, <2>6
<1> QED
  BY <1>1, <1>2

(* It gets n bytes, from the p-th of the stream on.                        *)
TagBytes(ts, k, h, g, w, n, p, q, c) ==
  /\ ts \in Seq(RtmpTag) /\ k \in 0 .. Len(ts) /\ h \in 0 .. k /\ g \in Seq(FlvByte)
  /\ (g # <<>> => h < k /\ Len(g) < ts[h + 1].size + 1)
  /\ \A x \in 1 .. Len(g) : g[x] = TagByte(ts, h + 1, x)
  /\ w \in Nat \ {0} /\ n \in 1 .. w
  /\ w = (IF g = <<>> THEN 1 ELSE 1 + g[1].size - Len(g))
  /\ p = (1 + Len(FlvTags(ts, h))) + Len(g) /\ p + n <= Len(Flv(ts, k))
  /\ q = [i \in 1 .. n |-> Flv(ts, k)[p + i]] /\ c = g \o q

(* These are the next of the tag. *)
LEMMA TagRead ==
  ASSUME NEW ts, NEW k, NEW h, NEW g, NEW w, NEW n, NEW p, NEW q, NEW c,
         TagBytes(ts, k, h, g, w, n, p, q, c)
  PROVE  /\ h < k /\ ts[h + 1].size \in Nat
         /\ c \in Seq(FlvByte) /\ Len(c) = Len(g) + n /\ c # <<>> /\ c[1].size = ts[h + 1].size
         /\ Len(c) <= ts[h + 1].size + 1
         /\ \A x \in 1 .. Len(c) : c[x] = TagByte(ts, h + 1, x)
         /\ Len(c) = ts[h + 1].size + 1 => c = TagList(ts, h + 1)
<1>a. /\ ts \in Seq(RtmpTag) /\ k \in 0 .. Len(ts) /\ h \in 0 .. k /\ g \in Seq(FlvByte)
      /\ (g # <<>> => h < k /\ Len(g) < ts[h + 1].size + 1)
      /\ \A x \in 1 .. Len(g) : g[x] = TagByte(ts, h + 1, x)
      /\ w \in Nat \ {0} /\ n \in 1 .. w
  BY DEF TagBytes
<1> USE <1>a
<1>1. PICK m \in Nat, l \in Nat, a \in Nat, d \in Nat :
        m = Len(g) /\ l = Len(ts) /\ a = Len(FlvTags(ts, h)) /\ d = Len(FlvTags(ts, k))
  BY TagPlace, LenProperties
<1>0. /\ w = (IF g = <<>> THEN 1 ELSE 1 + g[1].size - Len(g))
      /\ p = (1 + Len(FlvTags(ts, h))) + Len(g) /\ p + n <= Len(Flv(ts, k))
      /\ q = [i \in 1 .. n |-> Flv(ts, k)[p + i]] /\ c = g \o q
  BY DEF TagBytes
<1>2. k \in 0 .. l /\ k \in Nat /\ h \in Nat /\ h <= k
  BY <1>1
<1>3. PICK f : f = FlvTags(ts, k)
  OBVIOUS
<1>4. Len(Flv(ts, k)) = 1 + d /\ \A x \in 1 .. d : Flv(ts, k)[1 + x] = f[x]
  BY <1>1, <1>3, FlvIs
<1>5. p = (1 + a) + m /\ n \in Nat /\ n > 0 /\ (a + m) + n <= d
  <2>1. n \in Nat /\ n > 0 /\ p = (1 + a) + m
    BY <1>0, <1>1
  <2>2. p + n <= 1 + d
    BY <1>0, <1>4
  <2> QED
    BY ONLY <1>1, <2>1, <2>2
<1>6. h < k
  <2>1. CASE h = k
    <3>1. a = d
      BY <1>1, <2>1
    <3> QED
      BY <1>5, <3>1
  <2> QED
    BY <1>2, <2>1
<1>7. PICK z \in Nat :
        /\ z = ts[h + 1].size /\ h + 1 \in 1 .. Len(ts)
        /\ \A x \in 1 .. z + 1 : f[a + x] = TagByte(ts, h + 1, x)
  <2>1. /\ h + 1 \in 1 .. Len(ts) /\ ts[h + 1].size \in Nat
        /\ \A x \in 1 .. ts[h + 1].size + 1 :
             FlvTags(ts, k)[Len(FlvTags(ts, h)) + x] = TagByte(ts, h + 1, x)
    BY <1>6, TagPlace
  <2> QED
    BY <1>1, <1>3, <2>1
<1>8. m + n <= z + 1
  <2>1. CASE g = <<>>
    <3>1. m = 0 /\ w = 1 /\ n <= w /\ n \in Nat
      BY <1>0, <1>1, <2>1, EmptySeq
    <3> QED
      BY ONLY <1>7, <3>1
  <2>2. CASE g # <<>>
    <3>1. g[1].size = z
      BY <1>7, <2>2, TagWanted
    <3>2. w = 1 + z - m /\ n <= w /\ n \in Nat
      BY <1>0, <1>1, <2>2, <3>1
    <3> QED
      BY ONLY <1>1, <1>7, <3>2
  <2> QED
    BY <2>1, <2>2
<1>9. ASSUME NEW i \in 1 .. n PROVE q[i] = TagByte(ts, h + 1, m + i)
  <2>1. /\ m + i \in 1 .. z + 1 /\ a + (m + i) \in 1 .. d /\ p + i = 1 + (a + (m + i))
    <3>1. i \in Nat /\ 0 < i /\ i <= n /\ n \in Nat /\ (a + m) + n <= d /\ m + n <= z + 1
      BY <1>5, <1>8
    <3>2. a \in Nat /\ m \in Nat /\ d \in Nat /\ z \in Nat
      BY <1>1, <1>7
    <3>3. m + i \in 1 .. z + 1 /\ a + (m + i) \in 1 .. d /\ ((1 + a) + m) + i = 1 + (a + (m + i))
      BY ONLY <3>1, <3>2
    <3> QED
      BY <1>5, <3>3
  <2>2. q[i] = Flv(ts, k)[1 + (a + (m + i))]
    BY <1>0, <2>1
  <2>3. q[i] = f[a + (m + i)]
    BY <1>4, <2>1, <2>2
  <2> QED
    BY <1>7, <2>1, <2>3
<1>10. \A x \in 1 .. z + 1 : TagByte(ts, h + 1, x) \in FlvByte
  <2> SUFFICES ASSUME NEW x \in 1 .. z + 1 PROVE TagByte(ts, h + 1, x) \in FlvByte
    OBVIOUS
  <2>1. x - 1 \in Nat /\ h + 1 \in Nat
    BY <1>2
  <2> QED
    BY <1>7, <2>1 DEF TagByte, FlvByte
<1>11. q \in Seq(FlvByte) /\ Len(q) = n
  <2>1. \A i \in 1 .. n : q[i] \in FlvByte
    <3> SUFFICES ASSUME NEW i \in 1 .. n PROVE q[i] \in FlvByte
      OBVIOUS
    <3>1. m + i \in 1 .. z + 1
      BY <1>5, <1>8
    <3> QED
      BY <1>9, <1>10, <3>1
  <2>2. q \in [1 .. n -> FlvByte]
    BY <1>0, <2>1
  <2> QED
    BY ONLY <1>5, <2>2
<1>12. /\ c \in Seq(FlvByte) /\ Len(c) = m + n
       /\ \A x \in 1 .. m + n : c[x] = IF x <= m THEN g[x] ELSE q[x - m]
  <2>1. c = g \o q /\ g \in Seq(FlvByte) /\ Len(g) = m
    BY <1>0, <1>1
  <2> QED
    BY ONLY <1>5, <1>11, <2>1, ConcatProperties
<1>13. ASSUME NEW x \in 1 .. m + n PROVE c[x] = TagByte(ts, h + 1, x)
  <2>1. CASE x <= m
    <3>1. x \in 1 .. Len(g)
      BY <1>1, <2>1
    <3> QED
      BY <1>12, <2>1, <3>1
  <2>2. CASE ~ (x <= m)
    <3>1. x - m \in 1 .. n /\ m + (x - m) = x
      BY <1>5, <2>2
    <3>2. q[x - m] = TagByte(ts, h + 1, m + (x - m))
      BY <1>9, <3>1
    <3> QED
      BY <1>12, <2>2, <3>1, <3>2
  <2> QED
    BY <2>1, <2>2
<1>14. c # <<>> /\ c[1].size = z
  <2>1. 1 \in 1 .. m + n /\ m + n # 0
    BY <1>5
  <2>2. c # <<>>
    <3>1. Len(c) # 0
      BY <1>12, <2>1
    <3> QED
      BY <3>1, EmptySeq
  <2>3. c[1] = TagByte(ts, h + 1, 1)
    BY <1>13, <2>1
  <2>4. TagByte(ts, h + 1, 1).size = z
    BY <1>7 DEF TagByte
  <2> QED
    BY <2>2, <2>3, <2>4
<1>15. m + n = z + 1 => c = TagList(ts, h + 1)
  <2> SUFFICES ASSUME m + n = z + 1 PROVE c = TagList(ts, h + 1)
    OBVIOUS
  <2>1. PICK t : t = TagList(ts, h + 1)
    OBVIOUS
  <2>2. /\ t \in Seq(FlvByte) /\ Len(t) = z + 1
        /\ \A x \in 1 .. z + 1 : t[x] = TagByte(ts, h + 1, x)
    BY <1>7, <2>1, TagListFacts
  <2>3. \A x \in 1 .. Len(c) : c[x] = t[x]
    BY <1>12, <1>13, <2>2
  <2>4. c \in Seq(FlvByte) /\ Len(c) = Len(t)
    BY <1>12, <2>2
  <2>5. c = t
    BY ONLY <2>2, <2>3, <2>4, SeqEqual
  <2> QED
    BY <2>1, <2>5
<1> QED
  BY <1>1, <1>6, <1>7, <1>8, <1>12, <1>13, <1>14, <1>15

(* What readPacket does with the bytes that it has of a tag.               *)
Packets(c) ==
  \/ ~ R!Complete(c) /\ got' = c /\ UNCHANGED <<fAt, rHanded>>
  \/ /\ R!Complete(c) /\ got' = <<>>
     /\ fAt' = IF fAt = "probe" THEN "check" ELSE fAt
     /\ rHanded' = IF fAt = "start" THEN Append(rHanded, c) ELSE rHanded

(* A tag is part read, or it is whole and counts. *)
LEMMA PacketRead ==
  ASSUME NEW k \in 0 .. Len(tags), tags \in Seq(RtmpTag), UNCHANGED tags,
         fAt \in {"probe", "start"}, rHanded \in Seq(Seq(FlvByte)),
         NEW h \in 0 .. k, h < k, fAt = "start" => L!FlattenSeq(rHanded) = FlvTags(tags, h),
         NEW c \in Seq(FlvByte), c # <<>>, c[1].size = tags[h + 1].size,
         Len(c) <= tags[h + 1].size + 1,
         \A x \in 1 .. Len(c) : c[x] = TagByte(tags, h + 1, x),
         Len(c) = tags[h + 1].size + 1 => c = TagList(tags, h + 1),
         Place(frd') = (1 + Len(FlvTags(tags, h))) + Len(c), Packets(c)
  PROVE  /\ fAt' \in {fAt, "check"} /\ (fAt = "start" => fAt' = "start")
         /\ (fAt' = "check" => got' = <<>>)
         /\ rHanded' \in Seq(Seq(FlvByte)) /\ (fAt # "start" => rHanded' = rHanded)
         /\ \E j \in 0 .. k : /\ GotOf(j, k)'
                              /\ fAt' = "start" => L!FlattenSeq(rHanded') = FlvTags(tags', j)
<1>1. PICK m \in Nat, z \in Nat, a \in Nat :
        m = Len(c) /\ z = tags[h + 1].size /\ a = Len(FlvTags(tags, h))
  <2>1. Len(c) \in Nat /\ tags[h + 1].size \in Nat /\ Len(FlvTags(tags, h)) \in Nat
    BY TagPlace, LenProperties
  <2> QED
    BY <2>1
<1>2. k \in Nat /\ h \in Nat
  <2>1. PICK l \in Nat : l = Len(tags)
    BY LenProperties
  <2> QED
    BY <2>1
<1>3. R!Complete(c) <=> m = z + 1
  BY <1>1 DEF R!Complete
<1>4. m <= z + 1 /\ Place(frd') = (1 + a) + m
  BY <1>1
<1>5. CASE ~ R!Complete(c) /\ got' = c /\ UNCHANGED <<fAt, rHanded>>
  <2>1. Len(c) < z + 1
    BY <1>1, <1>3, <1>4, <1>5
  <2>2. GotOf(h, k)'
    <3>1. Place(frd)' = Place(frd')
      BY DEF Place
    <3>2. \A x \in 1 .. Len(c) : TagByte(tags', h + 1, x) = TagByte(tags, h + 1, x)
      OBVIOUS
    <3> QED
      BY <1>1, <1>5, <2>1, <3>1 DEF GotOf
  <2> QED
    BY <1>5, <2>2
<1>6. CASE R!Complete(c) /\ got' = <<>>
           /\ fAt' = (IF fAt = "probe" THEN "check" ELSE fAt)
           /\ rHanded' = IF fAt = "start" THEN Append(rHanded, c) ELSE rHanded
  <2>1. c = TagList(tags, h + 1)
    BY <1>1, <1>3, <1>6
  <2>2. h + 1 \in 0 .. k
    BY <1>2
  <2>a. PICK f : f = FlvTags(tags, h + 1)
    OBVIOUS
  <2>b. f = FlvTags(tags, h) \o c /\ Len(f) = a + (z + 1)
    <3>1. /\ FlvTags(tags, h + 1) = FlvTags(tags, h) \o TagList(tags, h + 1)
          /\ Len(FlvTags(tags, h + 1)) = Len(FlvTags(tags, h)) + (tags[h + 1].size + 1)
      BY TagPlace
    <3> QED
      BY <1>1, <2>1, <2>a, <3>1
  <2>3. PICK n \in Nat : n = Len(f) /\ n = a + (z + 1)
    BY <2>b
  <2>4. GotOf(h + 1, k)'
    <3>1. Place(frd)' = (1 + n) + 0
      <4>1. Place(frd') = (1 + a) + (z + 1)
        BY <1>3, <1>4, <1>6
      <4>2. (1 + a) + (z + 1) = (1 + n) + 0
        <5>1. a \in Nat /\ z \in Nat /\ n \in Nat /\ n = a + (z + 1)
          BY <1>1, <2>3
        <5> QED
          BY ONLY <5>1
      <4>3. Place(frd)' = Place(frd')
        BY DEF Place
      <4> QED
        BY <4>1, <4>2, <4>3
    <3>2. Len(<<>>) = 0 /\ <<>> \in Seq(FlvByte) /\ \A x \in 1 .. 0 : FALSE
      BY EmptySeq
    <3> QED
      BY <1>6, <2>a, <2>3, <3>1, <3>2 DEF GotOf
  <2>5. rHanded' \in Seq(Seq(FlvByte)) /\ (fAt = "start" => L!FlattenSeq(rHanded') = f)
    <3>1. Append(rHanded, c) \in Seq(Seq(FlvByte))
      BY AppendProperties
    <3>2. L!FlattenSeq(Append(rHanded, c)) = L!FlattenSeq(rHanded) \o c
      BY L!FlattenAppend
    <3> QED
      BY <1>6, <2>b, <3>1, <3>2
  <2>6. fAt' = "start" <=> fAt = "start"
    BY <1>6
  <2>7. FlvTags(tags', h + 1) = f
    BY <2>a
  <2> QED
    BY <1>6, <2>2, <2>4, <2>5, <2>6, <2>7
<1> QED
  BY <1>5, <1>6 DEF Packets

(* readPacket: some bytes of a tag, or what probe can no longer keep.      *)
LEMMA FlvPacketStep ==
  ASSUME RtmpInv, R!readPacket
  PROVE  RtmpInv'
<1>1. /\ fAt \in {"probe", "start"} /\ UNCHANGED R!connVars
      /\ UNCHANGED <<flv, mode, cAt, sAt, tags>>
  BY DEF R!readPacket, R!connVars
<1>2. PICK want : want = IF got = <<>> THEN 1 ELSE 1 + got[1].size - Len(got)
  OBVIOUS
<1>3. PICK o \in B!Read(frd, want, Len(flv)) :
        /\ frd' = o.r
        /\ \/ o.fails /\ fAt' = "failed" /\ UNCHANGED <<got, rHanded>>
           \/ ~ o.fails /\ Packets(got \o R!Tokens(o))
  BY <1>1, <1>2, SameReadR DEF R!readPacket, Packets, R!Start
<1>4. Done(R!Reader)' <=> Done(R!Reader)
  <2>1. R!Reader' = R!Reader /\ Turn' = Turn
    BY <1>1, ReaderStays
  <2> QED
    BY <1>1, <2>1 DEF Done
<1>5. ASSUME NEW k, FlvAt(k) PROVE FlvAt(k)'
  <2>1. /\ flv = Flv(tags, k) /\ Done(R!Reader) /\ k \in 0 .. Len(tags) /\ tags \in Seq(RtmpTag)
        /\ rHanded \in Seq(Seq(FlvByte)) /\ (fAt # "start" => rHanded = <<>>) /\ FlvReading(k)
        /\ \/ fAt = "probe" /\ frd.size = ProbeTags /\ frd.net - Len(frd.buf) = 1
           \/ fAt = "start" /\ frd.size <= 0
    BY <1>1, <1>5 DEF FlvAt
  <2>2. PICK h \in 0 .. k : GotOf(h, k) /\ (fAt = "start" => L!FlattenSeq(rHanded) = FlvTags(tags, h))
    BY <2>1 DEF FlvReading
  <2>3. ReaderOK(frd) /\ frd.net <= Len(flv) /\ Len(flv) \in Nat
    BY <2>1, FlvIs, LenProperties DEF FlvReading
  <2>4. /\ got \in Seq(FlvByte) /\ (got # <<>> => h < k /\ Len(got) < tags[h + 1].size + 1)
        /\ \A x \in 1 .. Len(got) : got[x] = TagByte(tags, h + 1, x)
        /\ Place(frd) = (1 + Len(FlvTags(tags, h))) + Len(got)
    BY <2>2 DEF GotOf
  <2>5. want \in Nat \ {0}
    BY <1>2, <2>1, <2>4, TagWanted
  <2>6. /\ ReadFails(frd, o) \/ ReadGives(frd, want, o)
        /\ o.r.net <= Len(flv)
    BY <1>3, <2>3, <2>5, Reads
  <2>7. CASE ReadFails(frd, o)
    <3>1. o.fails = TRUE /\ frd.size > 0 /\ o.r.net > frd.size + (frd.net - Len(frd.buf))
      BY <2>7 DEF ReadFails
    <3>2. fAt = "probe" /\ frd.size = ProbeTags /\ frd.net - Len(frd.buf) = 1
      <4>1. frd.size \in Int
        BY <2>3, ReaderNumbers
      <4> QED
        BY <2>1, <3>1, <4>1
    <3>3. fAt' = "failed" /\ rHanded' = rHanded /\ frd'.net > ProbeTags + 1
      BY <1>3, <3>1, <3>2
    <3>4. frd'.net \in Int => frd'.net > ProbeTags
      BY <3>3, RtmpAssumption
    <3>5. frd'.net \in Int
      BY <1>3, <2>7 DEF ReadFails
    <3> QED
      BY <1>1, <1>4, <2>1, <3>2, <3>3, <3>4, <3>5 DEF FlvAt
  <2>8. CASE ReadGives(frd, want, o)
    <3>1. PICK n \in 1 .. want : o.got = B!Bytes(Place(frd), n) /\ Place(o.r) = Place(frd) + n
      BY <2>8 DEF ReadGives
    <3>2. o.fails = FALSE /\ ReaderOK(o.r) /\ SizeKept(frd, o.r)
      BY <2>8 DEF ReadGives
    <3>3. PICK p \in Nat : p = Place(frd)
      <4>1. Place(frd) \in Nat
        BY <2>3, ReaderNumbers DEF Place
      <4> QED
        BY <4>1
    <3>4. p + n <= Len(flv)
      <4>1. Place(o.r) <= o.r.net
        BY <3>2, ReaderNumbers DEF Place
      <4>2. o.r.net \in Nat
        BY <3>2, ReaderNumbers
      <4> QED
        BY <2>3, <2>6, <3>1, <3>3, <4>1, <4>2
    <3>5. PICK q, c : q = R!Tokens(o) /\ c = got \o q
      OBVIOUS
    <3>6. q = [i \in 1 .. n |-> flv[p + i]]
      <4>1. Len(o.got) = n /\ \A i \in 1 .. n : o.got[i] = p + i
        BY <2>5, <3>1, <3>3, BytesFacts
      <4> QED
        BY <3>5, <4>1 DEF R!Tokens
    <3>7. /\ h < k /\ c \in Seq(FlvByte) /\ Len(c) = Len(got) + n /\ c # <<>>
          /\ c[1].size = tags[h + 1].size /\ Len(c) <= tags[h + 1].size + 1
          /\ \A x \in 1 .. Len(c) : c[x] = TagByte(tags, h + 1, x)
          /\ Len(c) = tags[h + 1].size + 1 => c = TagList(tags, h + 1)
      <4>1. q = [i \in 1 .. n |-> Flv(tags, k)[p + i]] /\ p + n <= Len(Flv(tags, k))
            /\ p = (1 + Len(FlvTags(tags, h))) + Len(got)
        BY <2>1, <2>4, <3>3, <3>4, <3>6
      <4>2. TagBytes(tags, k, h, got, want, n, p, q, c)
        BY <1>2, <2>1, <2>2, <2>4, <2>5, <3>1, <3>5, <4>1 DEF TagBytes
      <4> QED
        BY ONLY <4>2, TagRead
    <3>8. Packets(c) /\ frd' = o.r
      BY <1>3, <3>2, <3>5
    <3>9. Place(frd') = (1 + Len(FlvTags(tags, h))) + Len(c)
      <4>1. PICK a \in Nat, m \in Nat : a = Len(FlvTags(tags, h)) /\ m = Len(got)
        BY <2>1, <2>4, TagPlace, LenProperties
      <4>2. p = (1 + a) + m /\ Len(c) = m + n /\ n \in Nat
        BY <2>4, <2>5, <3>3, <3>7, <4>1
      <4>3. p + n = (1 + a) + (m + n)
        BY ONLY <4>1, <4>2
      <4> QED
        BY <3>1, <3>3, <3>8, <4>1, <4>2, <4>3
    <3>10. /\ fAt' \in {fAt, "check"} /\ (fAt = "start" => fAt' = "start")
           /\ (fAt' = "check" => got' = <<>>)
           /\ rHanded' \in Seq(Seq(FlvByte)) /\ (fAt # "start" => rHanded' = rHanded)
           /\ \E j \in 0 .. k : /\ GotOf(j, k)'
                                /\ fAt' = "start" => L!FlattenSeq(rHanded') = FlvTags(tags', j)
      BY <1>1, <2>1, <2>2, <3>7, <3>8, <3>9, PacketRead
    <3>11. FlvReading(k)'
      <4>1. ReaderOK(frd)' /\ frd'.net <= Len(flv')
        BY <1>1, <2>6, <3>2, <3>8 DEF ReaderOK
      <4> QED
        BY <3>10, <4>1 DEF FlvReading
    <3>12. \/ fAt' \in {"check", "probe"} /\ frd'.size = ProbeTags /\ frd'.net - Len(frd'.buf) = 1
           \/ fAt' = "start" /\ frd'.size <= 0
      <4>1. CASE fAt = "probe" /\ frd.size = ProbeTags /\ frd.net - Len(frd.buf) = 1
        <5>1. frd.size > 0
          BY <4>1, RtmpAssumption
        <5>2. o.r.size = ProbeTags /\ o.r.net - Len(o.r.buf) = 1
          BY <3>2, <4>1, <5>1 DEF SizeKept
        <5> QED
          BY <3>8, <3>10, <4>1, <5>2
      <4>2. CASE fAt = "start" /\ frd.size <= 0
        <5>1. ~ frd.size > 0
          BY <2>3, <4>2, ReaderNumbers
        <5>2. o.r.size <= 0
          BY <3>2, <5>1 DEF SizeKept
        <5> QED
          BY <3>8, <3>10, <4>2, <5>2
      <4> QED
        BY <2>1, <4>1, <4>2
    <3> QED
      BY <1>1, <1>4, <2>1, <3>10, <3>11, <3>12 DEF FlvAt
  <2> QED
    BY <2>6, <2>7, <2>8
<1> QED
  BY <1>1, <1>5, ProducerMoves

(* Every step keeps the invariant. *)
LEMMA RtmpStep == RtmpInv /\ [R!Next]_rtmpVars => RtmpInv'
<1> SUFFICES ASSUME RtmpInv, [R!Next]_rtmpVars PROVE RtmpInv'
  OBVIOUS
<1>1. CASE R!NewClient /\ UNCHANGED <<flv, R!flvVars>>
  BY <1>1, NewClientStep
<1>2. CASE R!NewServer /\ UNCHANGED <<flv, R!flvVars>>
  BY <1>2, NewServerStep
<1>3. CASE R!ClientAsks /\ UNCHANGED <<flv, R!flvVars>>
  BY <1>3, ClientAsksStep
<1>4. CASE R!ClientWaits /\ UNCHANGED <<flv, R!flvVars>>
  BY <1>4, ClientWaitsStep
<1>5. CASE R!ServerReads /\ UNCHANGED <<flv, R!flvVars>>
  BY <1>5, ServerReadsStep
<1>6. CASE R!WriteStart /\ UNCHANGED <<flv, R!flvVars>>
  BY <1>6, WriteStartStep
<1>7. CASE (R!WriteTag \/ R!ForeignTag) /\ UNCHANGED <<flv, R!flvVars>>
  BY <1>7, MediaStep
<1>8. CASE R!Producer
  BY <1>8, ProducerStep
<1>9. CASE R!ConnRead
  BY <1>9, ConnReadStep
<1>10. CASE R!readHeader
  BY <1>10, ReadHeaderStep
<1>11. CASE R!Probes
  BY <1>11, ProbesStep
<1>12. CASE R!readPacket
  BY <1>12, FlvPacketStep
<1>13. CASE UNCHANGED rtmpVars
  <2>1. UNCHANGED R!connVars /\ UNCHANGED <<flv, fAt, frd, got, rHanded, tags, mode, cAt, sAt>>
    BY <1>13 DEF rtmpVars, R!connVars
  <2>2. Done(R!Reader) => Done(R!Reader)'
    BY <2>1 DEF Done, R!Reader, R!Writer, R!Peer, Turn
  <2>3. \A k : FlvAt(k) => FlvAt(k)'
    BY <2>1, <2>2, FlvRests
  <2> QED
    BY <2>1, <2>3, ProducerMoves
<1> QED
  BY <1>1, <1>2, <1>3, <1>4, <1>5, <1>6, <1>7, <1>8, <1>9, <1>10, <1>11, <1>12, <1>13
     DEF R!Next, R!rtmpVars, rtmpVars

(* Start has handed on the first of the tags that were written. *)
LEMMA HandedFirst ==
  ASSUME NEW k, FlvAt(k)
  PROVE  R!IsPrefix(R!FlattenSeq(rHanded), R!Written)
<1>1. k \in 0 .. Len(tags) /\ tags \in Seq(RtmpTag) /\ (fAt # "start" => rHanded = <<>>)
  BY DEF FlvAt
<1>2. PICK l \in Nat : l = Len(tags)
  BY <1>1, LenProperties
<1>3. PICK h \in 0 .. l : L!FlattenSeq(rHanded) = FlvTags(tags, h)
  <2>1. CASE fAt = "start"
    <3>1. PICK h \in 0 .. k : L!FlattenSeq(rHanded) = FlvTags(tags, h)
      BY <2>1 DEF FlvAt, FlvReading
    <3>2. h \in 0 .. l
      BY <1>1, <1>2
    <3> QED
      BY <3>1, <3>2
  <2>2. CASE fAt # "start"
    <3>1. 0 \in 0 .. l
      BY <1>2
    <3>2. FlvTags(tags, 0) = <<>>
      <4>1. 0 \in 0 .. k
        BY <1>1, <1>2
      <4> QED
        BY <1>1, <4>1, TagPlace
    <3> QED
      BY <1>1, <2>2, <3>1, <3>2, L!FlattenEmpty
  <2> QED
    BY <2>1, <2>2
<1>4. l \in 0 .. l
  OBVIOUS
<1>5. PICK t \in Seq(FlvByte), a \in Seq(FlvByte) :
        a = FlvTags(tags, h) /\ FlvTags(tags, l) = a \o t
  BY <1>1, <1>2, <1>4, TagPlace
<1>6. M!IsPrefix(a, a \o t)
  BY PrefixOf
<1>7. \A x, y : M!IsPrefix(x, y) <=> R!IsPrefix(x, y)
  BY DEF M!IsPrefix, R!IsPrefix
<1>8. R!FlattenSeq(rHanded) = a /\ R!Written = a \o t
  BY <1>1, <1>2, <1>3, <1>5, SameFlattenR, WrittenIs
<1> QED
  BY <1>6, <1>7, <1>8

(* When all has been read, it has handed on all. *)
LEMMA HandedAll ==
  ASSUME NEW w, NEW b, NEW k, SideOK(R!Reader, w, b, k), fAt = "start",
         frd.net = Len(flv), frd.pos = Len(frd.buf), rWire[R!Reader] = <<>>
  PROVE  R!FlattenSeq(rHanded) \o got = R!Written
<1>1. FlvAt(k)
  BY DEF SideOK
<1>2. /\ k \in 0 .. Len(tags) /\ tags \in Seq(RtmpTag) /\ flv = Flv(tags, k) /\ Done(R!Reader)
      /\ FlvReading(k)
  BY <1>1 DEF FlvAt
<1>3. PICK s : s = R!Reader
  OBVIOUS
<1>4. Phase(s) = 3
  BY <1>2, <1>3 DEF Phase
<1>5. w = <<>> /\ b = 0
  <2>1. w \in Seq(Message) /\ rWire[s] = OnWire(w) /\ Order(s, w, b, 3)
    BY <1>3, <1>4 DEF SideOK, Carries
  <2>2. w = <<>>
    BY <1>3, <2>1, WireTop
  <2> QED
    BY <2>1, <2>2 DEF Order
<1>6. k = Len(tags)
  <2>1. MediaOf(tags, last, chunks[s], w, b, k)
    BY <1>3 DEF SideOK
  <2>2. Len(tags) = k + (Len(w) - b) /\ k \in Nat
    BY <2>1 DEF MediaOf
  <2>3. Len(w) = 0
    BY <1>5, EmptySeq
  <2> QED
    BY <1>5, <2>2, <2>3
<1>7. PICK h \in 0 .. k : GotOf(h, k) /\ L!FlattenSeq(rHanded) = FlvTags(tags, h)
  BY <1>2 DEF FlvReading
<1>8. PICK a \in Nat, d \in Nat, m \in Nat :
        a = Len(FlvTags(tags, h)) /\ d = Len(FlvTags(tags, k)) /\ m = Len(got)
  <2>1. Len(FlvTags(tags, h)) \in Nat /\ Len(FlvTags(tags, k)) \in Nat
    BY <1>2, TagPlace
  <2>2. Len(got) \in Nat
    BY <1>7, LenProperties DEF GotOf
  <2> QED
    BY <2>1, <2>2
<1>9. d = a + m
  <2>1. Place(frd) = frd.net
    <3>1. frd.net \in Nat /\ Len(frd.buf) \in Nat
      BY <1>2, ReaderNumbers DEF FlvReading
    <3> QED
      BY <3>1 DEF Place
  <2>2. Place(frd) = (1 + a) + m
    BY <1>7, <1>8 DEF GotOf
  <2>3. Len(flv) = 1 + d
    BY <1>2, <1>8, FlvIs
  <2>4. (1 + a) + m = 1 + d
    BY <2>1, <2>2, <2>3
  <2> QED
    BY ONLY <1>8, <2>4
<1>10. ~ h < k
  <2> SUFFICES ASSUME h < k PROVE FALSE
    OBVIOUS
  <2>1. PICK z \in Nat : z = tags[h + 1].size /\ a + (z + 1) <= d
    BY <1>2, <1>8, TagPlace
  <2>2. CASE got = <<>>
    <3>1. m = 0
      BY <1>8, <2>2, EmptySeq
    <3> QED
      BY <1>9, <2>1, <3>1
  <2>3. CASE got # <<>>
    <3>1. m < z + 1
      BY <1>7, <1>8, <2>1, <2>3 DEF GotOf
    <3> QED
      BY <1>9, <2>1, <3>1
  <2> QED
    BY <2>2, <2>3
<1>11. h = k /\ got = <<>>
  <2>1. k \in Nat
    <3>1. PICK l \in Nat : l = Len(tags)
      BY <1>2, LenProperties
    <3> QED
      BY <1>2, <3>1
  <2>2. h = k
    BY <1>10, <2>1
  <2> QED
    BY <1>7, <1>10, <2>2 DEF GotOf
<1>12. PICK f \in Seq(FlvByte) : f = FlvTags(tags, k)
  BY <1>2, <1>11, TagPlace
<1>13. R!FlattenSeq(rHanded) = f /\ R!Written = f
  BY <1>2, <1>6, <1>7, <1>11, <1>12, SameFlattenR, WrittenIs
<1>14. f \o <<>> = f
  BY ConcatEmptySeq
<1> QED
  BY <1>11, <1>13, <1>14

(* The invariant is strong enough. *)
LEMMA RtmpMessages == RtmpInv => R!MessagesWhole
<1> SUFFICES ASSUME RtmpInv PROVE R!MessagesWhole
  OBVIOUS
<1>1. ~ broken
  BY DEF RtmpInv, ControlOK
<1>2. ASSUME NEW s \in R!Sides, rWire[s] # <<>> PROVE Head(rWire[s]).mark = "header"
  <2>1. PICK w, b, k : SideOK(s, w, b, k)
    BY DEF RtmpInv
  <2>2. w \in Seq(Message) /\ rWire[s] = OnWire(w)
    BY <2>1 DEF SideOK, Carries
  <2> QED
    BY <1>2, <2>2, WireTop
<1>3. PICK w, b, k : SideOK(R!Reader, w, b, k)
  <2>1. R!Reader \in R!Sides
    BY ControlFacts, SideFacts
  <2> QED
    BY <2>1 DEF RtmpInv
<1>4. FlvAt(k)
  BY <1>3 DEF SideOK
<1>5. R!IsPrefix(R!FlattenSeq(rHanded), R!Written)
  BY <1>4, HandedFirst
<1>6. fAt = "failed" => frd.net > ProbeTags
  BY <1>4 DEF FlvAt
<1>7. fAt = "start" /\ frd.net = Len(flv) /\ frd.pos = Len(frd.buf) /\ rWire[R!Reader] = <<>> =>
        R!FlattenSeq(rHanded) \o got = R!Written
  BY <1>3, HandedAll
<1> QED
  BY <1>1, <1>2, <1>5, <1>6, <1>7 DEF R!MessagesWhole

(* rtmp/conn.go, rtmp/flv.go, flv/producer.go: a reader of RTMP never takes *)
(* the header of a chunk for data, whatever sizes of chunks the sides       *)
(* announce and however times are written; and what flv.Producer hands on   *)
(* is every message of the media from the first, whole and in order, though *)
(* the probe has read some of them.                                         *)
THEOREM MessagesWholeSafe == MediaSpec => []MessagesWhole
<1>1. RtmpMove => []RtmpInv
  BY RtmpInit, RtmpStep, PTL DEF RtmpMove
<1>2. RtmpInv => MessagesWhole
  BY RtmpMessages DEF MessagesWhole
<1> QED
  BY <1>1, <1>2, RtmpMoves, PTL
=============================================================================
