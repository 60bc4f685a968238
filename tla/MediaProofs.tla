---------------------------- MODULE MediaProofs ----------------------------
(***************************************************************************)
(* What TLAPS proves about the parts of MCMedia that have no run of their  *)
(* own.  The first lemma of a section shows that the run moves the part as *)
(* the part's own Init and Next say; the rest is about those.              *)
(***************************************************************************)
EXTENDS MCMedia, SequenceTheorems, TLAPS

B == INSTANCE ReadBuffer
L == INSTANCE ListProofs

(* Srtp *)

(* What the run does to Srtp. *)
SrtpMove == S!Init /\ [][S!Next]_srtpVars

(* The run's other parts leave the SRTP server alone. *)
LEMMA SrtpMoves == MediaSpec => SrtpMove
<1>1. MediaInit => S!Init
  BY DEF MediaInit
<1>2. [MediaNext]_mediaVars => [S!Next]_srtpVars
  BY DEF MediaNext, mediaVars, srtpVars
<1> QED
  BY <1>1, <1>2, PTL DEF MediaSpec, SrtpMove

Users == Sources \cup Controllers

(* Types, and who has sessions left to add. *)
SrtpTypeOK ==
  /\ conn \in {"none", "open", "closed"} /\ panic \in BOOLEAN
  /\ sessions \subseteq S!Session
  /\ on \in [S!Session -> {"none", "here", "old"}]
  /\ handle \in [Readers -> {"none", "loop", "read", "stale"}]
  /\ start \in [Sources -> {"none", "exchange", "config", "add", "end"}]
  /\ stop \in [Sources -> 0 .. Kinds]
  /\ added \in [Users -> 0 .. Kinds]
  /\ \A c \in Sources :
       /\ start[c] \in {"none", "exchange", "config"} => added[c] = 0
       /\ start[c] = "add" => added[c] < Kinds

(* The socket is open while there are sessions, which are on it.           *)
SocketServed ==
  /\ \A s \in sessions : on[s] = "here"
  /\ (conn = "open") = (sessions # {})
  /\ sessions # {} => \E h \in Readers : handle[h] \in {"loop", "read"}

SrtpInv == SrtpTypeOK /\ SocketServed

(* The server begins without sessions and without a socket. *)
LEMMA SrtpInit == S!Init => SrtpInv
<1> SUFFICES ASSUME S!Init PROVE SrtpInv
  OBVIOUS
<1>1. on \in [S!Session -> {"none", "here", "old"}]
  BY DEF S!Init
<1>2. /\ handle \in [Readers -> {"none", "loop", "read", "stale"}]
      /\ start \in [Sources -> {"none", "exchange", "config", "add", "end"}]
  BY DEF S!Init
<1>3. /\ stop \in [Sources -> 0 .. Kinds] /\ added \in [Users -> 0 .. Kinds]
      /\ \A c \in Sources : start[c] = "none" /\ added[c] = 0
  BY SrtpAssumption DEF S!Init, Users
<1>4. SocketServed /\ conn = "none" /\ panic = FALSE /\ sessions = {}
  BY DEF S!Init, SocketServed
<1> QED
  BY <1>1, <1>2, <1>3, <1>4 DEF SrtpInv, SrtpTypeOK

(* Whether it is the first session or joins others, the session that was   *)
(* added is on an open socket that is read.                                *)
LEMMA SessionAdded ==
  ASSUME SrtpInv, NEW s \in S!Session, S!AddSession(s)
  PROVE  /\ conn' \in {"none", "open", "closed"}
         /\ sessions' \subseteq S!Session
         /\ on' \in [S!Session -> {"none", "here", "old"}]
         /\ handle' \in [Readers -> {"none", "loop", "read", "stale"}]
         /\ SocketServed'
<1>1. CASE sessions = {} /\ S!Listen(s)
  <2>1. PICK h \in Readers : handle' = [g \in Readers |-> IF g = h THEN "loop"
                               ELSE IF handle[g] = "read" THEN "stale" ELSE handle[g]]
    BY <1>1 DEF S!Listen
  <2> QED
    BY <1>1, <2>1 DEF S!Listen, SrtpInv, SrtpTypeOK, SocketServed
<1>2. CASE sessions = {} /\ S!ListenFails
  BY <1>2 DEF S!ListenFails, SrtpInv, SrtpTypeOK, SocketServed
<1>3. CASE sessions # {} /\ ~ (S!Listen(s) \/ S!ListenFails)
  BY <1>3 DEF S!AddSession, SrtpInv, SrtpTypeOK, SocketServed
<1> QED
  BY <1>1, <1>2, <1>3 DEF S!AddSession, SrtpInv, SrtpTypeOK, SocketServed

(* Clients, Consumers and readers keep the invariant. *)
LEMMA SrtpStep == SrtpInv /\ [S!Next]_srtpVars => SrtpInv'
<1> SUFFICES ASSUME SrtpInv, [S!Next]_srtpVars PROVE SrtpInv'
  OBVIOUS
<1> USE SrtpAssumption
<1>1. ASSUME NEW c \in Sources,
             S!Start(c) \/ S!ExchangeEndpoints(c) \/ S!SetStreamConfig(c) \/ S!NewStreamFails(c)
      PROVE  SrtpInv'
  BY <1>1 DEF S!Start, S!ExchangeEndpoints, S!SetStreamConfig, S!NewStreamFails, S!Step,
              SrtpInv, SrtpTypeOK, SocketServed
<1>2. ASSUME NEW c \in Sources, S!AddSessions(c) PROVE SrtpInv'
  <2>1. /\ added[c] \in 0 .. Kinds /\ added[c] < Kinds /\ <<c, added[c] + 1>> \in S!Session
    BY <1>2 DEF S!AddSessions, S!Step, SrtpInv, SrtpTypeOK, Users, S!Session
  <2>2. /\ start' = [start EXCEPT ![c] = IF added[c] + 1 = Kinds THEN "end" ELSE "add"]
        /\ added' = [added EXCEPT ![c] = added[c] + 1]
        /\ UNCHANGED <<stop, panic>>
    BY <1>2 DEF S!AddSessions, S!Step
  <2>3. /\ start' \in [Sources -> {"none", "exchange", "config", "add", "end"}]
        /\ added' \in [Users -> 0 .. Kinds]
        /\ \A d \in Sources :
             /\ start'[d] \in {"none", "exchange", "config"} => added'[d] = 0
             /\ start'[d] = "add" => added'[d] < Kinds
    BY <2>1, <2>2 DEF SrtpInv, SrtpTypeOK, Users
  <2> QED
    BY <1>2, <2>1, <2>2, <2>3, SessionAdded DEF S!AddSessions, SrtpInv, SrtpTypeOK
<1>3. ASSUME NEW c \in Sources, S!Stop(c) PROVE SrtpInv'
  <2>1. /\ stop' \in [Sources -> 0 .. Kinds]
        /\ UNCHANGED <<on, handle, start, added, panic>>
    BY <1>3 DEF S!Stop, SrtpInv, SrtpTypeOK
  <2>2. S!DelSession(<<c, stop[c] + 1>>) \/ UNCHANGED <<conn, sessions>>
    BY <1>3 DEF S!Stop
  <2> QED
    BY <2>1, <2>2 DEF S!DelSession, SrtpInv, SrtpTypeOK, SocketServed
<1>4. ASSUME NEW c \in Controllers, S!SetConfig(c) PROVE SrtpInv'
  <2>1. added[c] \in 0 .. Kinds /\ added[c] < Kinds /\ <<c, added[c] + 1>> \in S!Session
    BY <1>4 DEF S!SetConfig, SrtpInv, SrtpTypeOK, Users, S!Session
  <2>2. /\ added' = [added EXCEPT ![c] = added[c] + 1]
        /\ UNCHANGED <<start, stop, panic>>
    BY <1>4 DEF S!SetConfig
  <2>3. /\ added' \in [Users -> 0 .. Kinds]
        /\ \A d \in Sources : added'[d] = added[d]
    BY <2>1, <2>2 DEF SrtpInv, SrtpTypeOK, Users
  <2> QED
    BY <1>4, <2>1, <2>2, <2>3, SessionAdded DEF S!SetConfig, SrtpInv, SrtpTypeOK
<1>5. ASSUME NEW c \in Controllers, S!WriteRTP(c) PROVE SrtpInv'
  BY <1>5 DEF S!WriteRTP, SrtpInv, SrtpTypeOK, SocketServed
<1>6. ASSUME NEW h \in Readers, S!Loop(h) \/ S!Receive(h) \/ S!ReadFails(h) PROVE SrtpInv'
  BY <1>6 DEF S!Loop, S!Receive, S!ReadFails, SrtpInv, SrtpTypeOK, SocketServed
<1>7. CASE UNCHANGED srtpVars
  BY <1>7 DEF srtpVars, SrtpInv, SrtpTypeOK, SocketServed
<1> QED
  BY <1>1, <1>2, <1>3, <1>4, <1>5, <1>6, <1>7 DEF S!Next

(* However Start and Stop of any number of clients meet, and whenever the  *)
(* server cannot listen, its sessions are on its own socket, which is open *)
(* and which a goroutine reads (pkg/srtp/server.go).                       *)
THEOREM ServedSafe == MediaSpec => []Served
<1>1. SrtpInv => Served
  BY DEF SrtpInv, SocketServed, Served, S!Served
<1> QED
  BY <1>1, SrtpInit, SrtpStep, SrtpMoves, PTL DEF SrtpMove
-----------------------------------------------------------------------------
(* ReadBuffer *)

Reader == [size : Int, buf : Seq(Nat), pos : Nat, net : Nat]

(* What is kept is the last of what was taken from the network. *)
ReaderOK(r) ==
  /\ r \in Reader
  /\ r.pos <= Len(r.buf) /\ Len(r.buf) <= r.net
  /\ r.buf = B!Bytes(r.net - Len(r.buf), Len(r.buf))
  /\ r.size = 0 => r.buf = <<>>

(* How much of the stream has been given, since it was last reset. *)
Place(r) == r.net - Len(r.buf) + r.pos

(* n bytes from the a-th on: how many there are, and which is which.       *)
LEMMA BytesFacts ==
  ASSUME NEW a \in Nat, NEW n \in Nat
  PROVE  /\ B!Bytes(a, n) \in Seq(Nat) /\ Len(B!Bytes(a, n)) = n
         /\ \A i \in 1 .. n : B!Bytes(a, n)[i] = a + i
  BY DEF B!Bytes

(* Bytes that follow one another are one run of them. *)
LEMMA BytesConcat ==
  ASSUME NEW a \in Nat, NEW m \in Nat, NEW n \in Nat
  PROVE  B!Bytes(a, m) \o B!Bytes(a + m, n) = B!Bytes(a, m + n)
<1>1. PICK am \in Nat, mn \in Nat : am = a + m /\ mn = m + n
  OBVIOUS
<1>2. /\ B!Bytes(a, m) \in Seq(Nat) /\ Len(B!Bytes(a, m)) = m
      /\ \A i \in 1 .. m : B!Bytes(a, m)[i] = a + i
  BY BytesFacts
<1>3. /\ B!Bytes(am, n) \in Seq(Nat) /\ Len(B!Bytes(am, n)) = n
      /\ \A i \in 1 .. n : B!Bytes(am, n)[i] = am + i
  BY BytesFacts
<1>4. /\ B!Bytes(a, mn) \in Seq(Nat) /\ Len(B!Bytes(a, mn)) = mn
      /\ \A i \in 1 .. mn : B!Bytes(a, mn)[i] = a + i
  BY BytesFacts
<1>5. PICK both : both = B!Bytes(a, m) \o B!Bytes(am, n)
  OBVIOUS
<1>6. /\ both \in Seq(Nat) /\ Len(both) = m + n
      /\ \A i \in 1 .. m + n : both[i] = IF i <= m THEN B!Bytes(a, m)[i] ELSE B!Bytes(am, n)[i - m]
  <2> DEFINE f == B!Bytes(a, m)
             g == B!Bytes(am, n)
  <2>1. f \in Seq(Nat) /\ g \in Seq(Nat) /\ Len(f) = m /\ Len(g) = n
    BY <1>2, <1>3
  <2>2. both = f \o g
    BY <1>5
  <2> HIDE DEF f, g
  <2>3. /\ both \in Seq(Nat) /\ Len(both) = m + n
        /\ \A i \in 1 .. m + n : both[i] = IF i <= m THEN f[i] ELSE g[i - m]
    BY <2>1, <2>2, ConcatProperties
  <2> QED
    BY <2>3 DEF f, g
<1>7. ASSUME NEW i \in 1 .. mn PROVE both[i] = B!Bytes(a, mn)[i]
  <2>1. CASE i <= m
    <3>1. i \in 1 .. m /\ i \in 1 .. m + n
      BY <1>1, <2>1
    <3>2. both[i] = B!Bytes(a, m)[i] /\ B!Bytes(a, m)[i] = a + i
      BY <1>2, <1>6, <2>1, <3>1
    <3> QED
      BY <1>4, <3>2
  <2>2. CASE i > m
    <3>1. i - m \in 1 .. n /\ am + (i - m) = a + i /\ i \in 1 .. m + n
      BY <1>1, <2>2
    <3>2. both[i] = B!Bytes(am, n)[i - m]
      BY <1>6, <2>2, <3>1
    <3> QED
      BY <1>3, <1>4, <3>1, <3>2
  <2> QED
    BY <2>1, <2>2
<1>8. both = B!Bytes(a, mn)
  <2>1. Len(both) = Len(B!Bytes(a, mn))
    BY <1>1, <1>4, <1>6
  <2>2. \A i \in 1 .. Len(both) : both[i] = B!Bytes(a, mn)[i]
    BY <1>1, <1>6, <1>7
  <2> QED
    BY <1>4, <1>6, <2>1, <2>2, SeqEqual
<1> QED
  BY <1>1, <1>5, <1>8

(* What is kept is a part of the stream as well. *)
LEMMA BytesPart ==
  ASSUME NEW a \in Nat, NEW n \in Nat, NEW from \in 0 .. n, NEW k \in 0 .. n - from
  PROVE  SubSeq(B!Bytes(a, n), from + 1, from + k) = B!Bytes(a + from, k)
<1> DEFINE these == SubSeq(B!Bytes(a, n), from + 1, from + k)
<1>1. B!Bytes(a, n) \in Seq(Nat) /\ Len(B!Bytes(a, n)) = n
      /\ \A i \in 1 .. n : B!Bytes(a, n)[i] = a + i
  BY BytesFacts
<1>2. /\ these \in Seq(Nat) /\ Len(these) = k
      /\ \A i \in 1 .. k : these[i] = B!Bytes(a, n)[from + i]
  BY <1>1, SubSeqProperties
<1>3. \A i \in 1 .. k : these[i] = a + from + i
  BY <1>1, <1>2
<1>4. /\ B!Bytes(a + from, k) \in Seq(Nat) /\ Len(B!Bytes(a + from, k)) = k
      /\ \A i \in 1 .. k : B!Bytes(a + from, k)[i] = a + from + i
  <2>1. a + from \in Nat /\ k \in Nat
    OBVIOUS
  <2> QED
    BY <2>1, BytesFacts
<1> HIDE DEF these
<1>5. these = B!Bytes(a + from, k)
  BY <1>2, <1>3, <1>4, SeqEqual
<1> QED
  BY <1>5 DEF these

(* The numbers of a reader. *)
LEMMA ReaderNumbers ==
  ASSUME NEW r, ReaderOK(r)
  PROVE  /\ r.size \in Int /\ r.pos \in Nat /\ r.net \in Nat /\ Len(r.buf) \in Nat
         /\ r.pos <= Len(r.buf) /\ Len(r.buf) <= r.net /\ r.net - Len(r.buf) \in Nat
         /\ r.buf \in Seq(Nat)
<1>1. /\ r.size \in Int /\ r.pos \in Nat /\ r.net \in Nat /\ r.buf \in Seq(Nat)
      /\ r.pos <= Len(r.buf) /\ Len(r.buf) <= r.net
  BY DEF ReaderOK, Reader
<1>2. Len(r.buf) \in Nat
  BY <1>1, LenProperties
<1> QED
  BY <1>1, <1>2

(* A reader that keeps n bytes more, and one that keeps nothing any more.  *)
LEMMA ReaderKeeps ==
  ASSUME NEW r, NEW s, NEW n \in Nat, ReaderOK(r), r.pos = Len(r.buf), r.size # 0,
         s \in Reader, s.size = r.size, s.buf = r.buf \o B!Bytes(r.net, n),
         s.pos = r.pos + n, s.net = r.net + n
  PROVE  /\ ReaderOK(s) /\ Place(s) = Place(r) + n /\ Place(r) = r.net
         /\ s.net - Len(s.buf) = r.net - Len(r.buf)
<1>1. PICK l \in Nat, d \in Nat : l = Len(r.buf) /\ r.net = d + l
  <2>1. r.net = (r.net - Len(r.buf)) + Len(r.buf)
    BY ReaderNumbers
  <2> QED
    BY <2>1, ReaderNumbers
<1>2. s.buf = B!Bytes(d, l + n)
  <2>1. r.buf = B!Bytes(d, l)
    <3>1. r.net - Len(r.buf) = d
      BY <1>1
    <3> QED
      BY <1>1, <3>1 DEF ReaderOK
  <2> QED
    BY <1>1, <2>1, BytesConcat, ZenonT(60)
<1>3. Len(s.buf) = l + n
  <2>1. l + n \in Nat
    OBVIOUS
  <2> QED
    BY <1>2, <2>1, BytesFacts
<1>4. s.net = (d + l) + n /\ s.net - (l + n) = d /\ s.pos = l + n
  <2>1. s.net = (d + l) + n /\ s.pos = l + n
    BY <1>1
  <2> QED
    BY <2>1
<1>5. l + n <= s.net
  BY <1>4
<1>6. ReaderOK(s)
  BY <1>2, <1>3, <1>4, <1>5 DEF ReaderOK
<1>7. Place(s) = (d + l) + n /\ Place(r) = d + l /\ r.net = d + l
      /\ s.net - Len(s.buf) = d /\ r.net - Len(r.buf) = d
  <2>1. s.net - Len(s.buf) = d /\ s.pos = l + n
    BY <1>3, <1>4
  <2>2. r.net - Len(r.buf) = d /\ r.pos = l /\ r.net = d + l
    BY <1>1
  <2>3. Place(s) = d + (l + n) /\ Place(r) = d + l
    BY <2>1, <2>2 DEF Place
  <2>4. d + (l + n) = (d + l) + n
    OBVIOUS
  <2>5. Place(s) = (d + l) + n
    BY <2>3, <2>4, Zenon
  <2> QED
    BY <2>1, <2>2, <2>3, <2>5
<1> QED
  BY <1>6, <1>7

(* A reader that keeps nothing passes n bytes of the network on. *)
LEMMA ReaderPasses ==
  ASSUME NEW r, NEW s, NEW n \in Nat, ReaderOK(r), r.pos = Len(r.buf),
         s \in Reader, s.size = 0, s.buf = <<>>, s.pos = 0, s.net = r.net + n
  PROVE  ReaderOK(s) /\ Place(s) = Place(r) + n /\ Place(r) = r.net
<1>1. r.net \in Nat /\ Len(r.buf) \in Nat /\ r.net + n \in Nat /\ Len(s.buf) = 0
  BY ReaderNumbers, EmptySeq
<1>2. B!Bytes(r.net + n, 0) = <<>>
  <2>1. B!Bytes(r.net + n, 0) \in Seq(Nat) /\ Len(B!Bytes(r.net + n, 0)) = 0
    BY <1>1, BytesFacts
  <2> QED
    BY <2>1, EmptySeq
<1>3. s.net - Len(s.buf) = r.net + n
  BY <1>1
<1> QED
  BY <1>1, <1>2, <1>3 DEF ReaderOK, Place

(* A reader that gives n of the bytes it has kept. *)
LEMMA ReaderRepeats ==
  ASSUME NEW r, NEW s, NEW n \in Nat, ReaderOK(r), r.pos + n <= Len(r.buf), n > 0,
         s \in Reader, s.size = r.size, s.buf = r.buf, s.pos = r.pos + n, s.net = r.net
  PROVE  /\ ReaderOK(s) /\ Place(s) = Place(r) + n
         /\ SubSeq(SubSeq(r.buf, r.pos + 1, Len(r.buf)), 1, n) = B!Bytes(Place(r), n)
<1>1. PICK l \in Nat, d \in Nat, p \in Nat : l = Len(r.buf) /\ r.net = d + l /\ p = r.pos
  <2>1. r.net = (r.net - Len(r.buf)) + Len(r.buf)
    BY ReaderNumbers
  <2> QED
    BY <2>1, ReaderNumbers
<1>2. p + n <= l /\ r.net - l = d
  BY <1>1
<1>3. r.buf = B!Bytes(d, l)
  BY <1>1, <1>2 DEF ReaderOK
<1>4. PICK k \in Nat : l = p + k /\ n <= k
  <2>1. l - p \in Nat /\ l = p + (l - p) /\ n <= l - p
    BY <1>2
  <2> QED
    BY <2>1
<1>5. SubSeq(r.buf, p + 1, l) = B!Bytes(d + p, k)
  <2>1. p \in 0 .. l /\ k \in 0 .. l - p /\ p + k = l
    BY <1>4
  <2>2. SubSeq(B!Bytes(d, l), p + 1, p + k) = B!Bytes(d + p, k)
    BY <2>1, BytesPart
  <2> QED
    BY <1>3, <2>1, <2>2
<1>6. SubSeq(B!Bytes(d + p, k), 1, n) = B!Bytes(d + p, n)
  <2>1. /\ d + p \in Nat /\ 0 \in 0 .. k /\ n \in 0 .. k - 0
        /\ 0 + 1 = 1 /\ 0 + n = n /\ (d + p) + 0 = d + p
    BY <1>4
  <2>2. PICK a \in Nat, z \in 0 .. k : a = d + p /\ z = 0
    BY <2>1
  <2>3. n \in 0 .. k - z
    BY <2>1, <2>2
  <2>4. SubSeq(B!Bytes(a, k), z + 1, z + n) = B!Bytes(a + z, n)
    BY <2>3, BytesPart
  <2> QED
    BY <2>1, <2>2, <2>4
<1>7. Place(r) = d + p /\ Place(s) = d + p + n
  BY <1>1, <1>2 DEF Place
<1>8. ReaderOK(s)
  BY <1>1, <1>2, <1>3 DEF ReaderOK
<1> QED
  BY <1>1, <1>5, <1>6, <1>7, <1>8

(* What a Read leaves of the reader's size, when it fails and when it gives. *)
SizeKept(r, s) ==
  IF r.size > 0 THEN s.size = r.size /\ s.net - Len(s.buf) = r.net - Len(r.buf) ELSE s.size <= 0
ReadFails(r, o) ==
  /\ o.fails = TRUE /\ o.got = <<>> /\ r.size > 0
  /\ o.r.net \in Nat /\ o.r.net > r.size + (r.net - Len(r.buf))
ReadGives(r, want, o) ==
  /\ o.fails = FALSE /\ ReaderOK(o.r) /\ SizeKept(r, o.r)
  /\ \E n \in 1 .. want : o.got = B!Bytes(Place(r), n) /\ Place(o.r) = Place(r) + n

(* A Read gives what comes next, some of it, or fails because it cannot be *)
(* kept; it takes no more than there is.                                   *)
LEMMA Reads ==
  ASSUME NEW r, ReaderOK(r), NEW want \in Nat \ {0}, NEW total \in Nat,
         NEW o \in B!Read(r, want, total)
  PROVE  /\ ReadFails(r, o) \/ ReadGives(r, want, o)
         /\ r.net <= total => o.r.net <= total
<1> DEFINE kept == SubSeq(r.buf, r.pos + 1, Len(r.buf))
<1>0. r \in Reader
  BY DEF ReaderOK
<1>1. /\ kept \in Seq(Nat) /\ Len(kept) = Len(r.buf) - r.pos
      /\ kept # <<>> => Len(kept) > 0
      /\ kept = <<>> => r.pos = Len(r.buf)
  <2>1. r.pos + 1 \in 1 .. Len(r.buf) + 1
    BY ReaderNumbers
  <2>2. kept \in Seq(Nat) /\ Len(kept) = (Len(r.buf) - (r.pos + 1)) + 1
    BY <2>1, ReaderNumbers, SubSeqProperties, SMTT(30)
  <2>3. Len(kept) = Len(r.buf) - r.pos
    BY <2>2, ReaderNumbers
  <2>4. kept # <<>> => Len(kept) # 0
    BY <2>2, EmptySeq
  <2>5. kept = <<>> => Len(kept) = 0
    BY EmptySeq
  <2> HIDE DEF kept
  <2> QED
    BY <2>2, <2>3, <2>4, <2>5, ReaderNumbers
<1>2. CASE r.size # 0 /\ kept # <<>>
  <2>1. PICK m : /\ m = IF Len(kept) < want THEN Len(kept) ELSE want
                 /\ o = [r |-> [r EXCEPT !.pos = @ + m], got |-> SubSeq(kept, 1, m), fails |-> FALSE]
    BY <1>2 DEF B!Read
  <2>2. m \in Nat /\ m \in 1 .. want /\ r.pos + m <= Len(r.buf) /\ m > 0
    <3> HIDE DEF kept
    <3>1. Len(kept) \in Nat \ {0} /\ r.pos + Len(kept) = Len(r.buf)
      BY <1>1, <1>2, ReaderNumbers
    <3> QED
      BY <2>1, <3>1, ReaderNumbers
  <2>3. o.r = [r EXCEPT !.pos = @ + m] /\ o.got = SubSeq(kept, 1, m) /\ o.fails = FALSE
    BY <2>1
  <2> HIDE DEF kept
  <2>4. PICK p \in Nat : p = r.pos + m
    <3>1. r.pos + m \in Nat
      BY <2>2, ReaderNumbers
    <3> QED
      BY <3>1
  <2>5. o.r = [r EXCEPT !.pos = p]
    BY <2>3, <2>4, Zenon
  <2>6. o.r \in Reader /\ o.r.size = r.size /\ o.r.buf = r.buf /\ o.r.pos = p /\ o.r.net = r.net
    BY <1>0, <2>5 DEF Reader
  <2>7. /\ ReaderOK(o.r) /\ Place(o.r) = Place(r) + m
        /\ SubSeq(SubSeq(r.buf, r.pos + 1, Len(r.buf)), 1, m) = B!Bytes(Place(r), m)
    <3>1. o.r.pos = r.pos + m
      BY <2>4, <2>6
    <3> QED
      BY <2>2, <2>6, <3>1, ReaderRepeats
  <2>8. o.got = B!Bytes(Place(r), m)
    BY <2>3, <2>7 DEF kept
  <2> QED
    <3>1. SizeKept(r, o.r)
      BY <1>2, <2>6, ReaderNumbers DEF SizeKept
    <3> QED
      BY <2>2, <2>3, <2>6, <2>7, <2>8, <3>1 DEF ReadGives
<1>3. CASE ~ (r.size # 0 /\ kept # <<>>)
  <2>1. r.pos = Len(r.buf)
    BY <1>1, <1>3, ReaderNumbers, EmptySeq DEF ReaderOK
  <2>2. PICK n \in 1 .. want :
          /\ r.net + n <= total
          /\ o = IF r.size <= 0
                 THEN [r |-> [[r EXCEPT !.size = 0, !.buf = <<>>, !.pos = 0] EXCEPT !.net = @ + n],
                       got |-> B!Bytes(r.net, n), fails |-> FALSE]
                 ELSE IF Len(r.buf) + n > r.size
                 THEN [r |-> [r EXCEPT !.net = @ + n], got |-> <<>>, fails |-> TRUE]
                 ELSE [r |-> [r EXCEPT !.net = @ + n, !.buf = @ \o B!Bytes(r.net, n), !.pos = @ + n],
                       got |-> B!Bytes(r.net, n), fails |-> FALSE]
    BY <1>3 DEF B!Read
  <2> HIDE DEF kept
  <2>3. PICK q \in Nat, p \in Nat : q = r.net + n /\ p = r.pos + n /\ q <= total
    <3>1. n \in Nat /\ r.net + n \in Nat /\ r.pos + n \in Nat
      BY ReaderNumbers
    <3> QED
      BY <2>2, <3>1
  <2>4. CASE r.size <= 0
    <3>1. o.r = [[r EXCEPT !.size = 0, !.buf = <<>>, !.pos = 0] EXCEPT !.net = @ + n]
          /\ o.got = B!Bytes(r.net, n) /\ o.fails = FALSE
      BY <2>2, <2>4
    <3>2. PICK e \in Seq(Nat) : e = <<>>
      BY EmptySeq
    <3>3. PICK z \in Int, y \in Nat : z = 0 /\ y = 0
      OBVIOUS
    <3> DEFINE t == [r EXCEPT !.size = z, !.buf = e, !.pos = y]
    <3>5. t \in Reader /\ t.size = z /\ t.buf = e /\ t.pos = y /\ t.net = r.net
      BY <1>0 DEF Reader
    <3>6. o.r = [t EXCEPT !.net = @ + n]
      BY <3>1, <3>2, <3>3, Zenon
    <3> HIDE DEF t
    <3>7. o.r = [t EXCEPT !.net = q]
      BY <2>3, <3>5, <3>6, Zenon
    <3>8. o.r \in Reader /\ o.r.size = z /\ o.r.buf = e /\ o.r.pos = y /\ o.r.net = q
      BY <3>5, <3>7 DEF Reader
    <3>9. ReaderOK(o.r) /\ Place(o.r) = Place(r) + n /\ Place(r) = r.net
      <4>1. o.r.size = 0 /\ o.r.buf = <<>> /\ o.r.pos = 0 /\ o.r.net = r.net + n /\ n \in Nat
        BY <2>3, <3>2, <3>3, <3>8
      <4> QED
        BY <2>1, <3>8, <4>1, ReaderPasses
    <3>10. o.got = B!Bytes(Place(r), n)
      BY <3>1, <3>9
    <3> QED
      <4>1. ~ (r.size > 0) /\ o.r.size <= 0 /\ o.r.net <= total
        BY <2>3, <2>4, <3>3, <3>8, ReaderNumbers
      <4> QED
        <5>1. SizeKept(r, o.r)
          BY <4>1 DEF SizeKept
        <5> QED
          BY <3>1, <3>9, <3>10, <4>1, <5>1 DEF ReadGives
  <2>5. CASE r.size > 0 /\ Len(r.buf) + n > r.size
    <3>1. o.r = [r EXCEPT !.net = @ + n] /\ o.got = <<>> /\ o.fails = TRUE
      BY <2>2, <2>5, ReaderNumbers
    <3>2. o.r.net = q
      BY <1>0, <2>3, <3>1 DEF Reader
    <3>3. q > r.size + (r.net - Len(r.buf))
      BY <2>3, <2>5, ReaderNumbers, SMTT(30)
    <3> QED
      BY <2>3, <2>5, <3>1, <3>2, <3>3 DEF ReadFails
  <2>6. CASE r.size > 0 /\ Len(r.buf) + n <= r.size
    <3>1. /\ o.r = [r EXCEPT !.net = @ + n, !.buf = @ \o B!Bytes(r.net, n), !.pos = @ + n]
          /\ o.got = B!Bytes(r.net, n) /\ o.fails = FALSE
      BY <2>2, <2>6, ReaderNumbers
    <3>2. PICK b \in Seq(Nat) : b = r.buf \o B!Bytes(r.net, n)
      <4>1. r.net \in Nat /\ n \in Nat /\ r.buf \in Seq(Nat)
        BY ReaderNumbers
      <4>2. B!Bytes(r.net, n) \in Seq(Nat)
        BY <4>1, BytesFacts
      <4> QED
        BY <4>1, <4>2, ConcatProperties
    <3>3. o.r = [r EXCEPT !.net = q, !.buf = b, !.pos = p]
      BY <2>3, <3>1, <3>2, Zenon
    <3>4. o.r \in Reader /\ o.r.size = r.size /\ o.r.buf = b /\ o.r.pos = p /\ o.r.net = q
      BY <1>0, <3>3 DEF Reader
    <3>5. /\ ReaderOK(o.r) /\ Place(o.r) = Place(r) + n /\ Place(r) = r.net
          /\ o.r.net - Len(o.r.buf) = r.net - Len(r.buf)
      <4>1. /\ o.r.buf = r.buf \o B!Bytes(r.net, n) /\ o.r.pos = r.pos + n /\ o.r.net = r.net + n
            /\ n \in Nat /\ r.size # 0
        BY <2>3, <2>6, <3>2, <3>4
      <4> QED
        BY <2>1, <3>4, <4>1, ReaderKeeps
    <3>6. o.got = B!Bytes(Place(r), n)
      BY <3>1, <3>5
    <3> QED
      <4>1. SizeKept(r, o.r) /\ o.r.net <= total
        BY <2>3, <2>6, <3>4, <3>5 DEF SizeKept
      <4> QED
        BY <3>1, <3>5, <3>6, <4>1 DEF ReadGives
  <2>7. r.size <= 0 \/ (r.size > 0 /\ Len(r.buf) + n > r.size)
          \/ (r.size > 0 /\ Len(r.buf) + n <= r.size)
    BY ReaderNumbers
  <2> QED
    BY <2>4, <2>5, <2>6, <2>7
<1> QED
  BY <1>2, <1>3

(* A new reader has nothing. *)
LEMMA ReaderNew ==
  /\ ReaderOK(B!NewReadBuffer) /\ B!NewReadBuffer.net = 0 /\ B!NewReadBuffer.buf = <<>>
  /\ Place(B!NewReadBuffer) = 0
<1>1. B!Bytes(0, 0) = <<>> /\ <<>> \in Seq(Nat) /\ Len(<<>>) = 0
  BY BytesFacts, EmptySeq
<1>2. PICK r : r = B!NewReadBuffer
  OBVIOUS
<1>3. r \in Reader /\ r.size = 0 /\ r.buf = <<>> /\ r.pos = 0 /\ r.net = 0
  BY <1>1, <1>2 DEF B!NewReadBuffer, Reader
<1>4. r.net - Len(r.buf) = 0 /\ Len(r.buf) = 0
  <2>1. Len(r.buf) = 0 /\ r.net = 0
    BY <1>1, <1>3
  <2> QED
    BY <2>1
<1>5. ReaderOK(r) /\ Place(r) = 0
  BY <1>1, <1>3, <1>4 DEF ReaderOK, Place
<1> QED
  BY <1>2, <1>3, <1>5

(* A reader that is reset gives again all that it keeps. *)
LEMMA ReaderReset ==
  ASSUME NEW r, ReaderOK(r)
  PROVE  /\ ReaderOK(B!Reset(r)) /\ B!Reset(r).size <= 0 /\ B!Reset(r).net = r.net
         /\ B!Reset(r).buf = r.buf /\ Place(B!Reset(r)) = r.net - Len(r.buf)
<1>0. r \in Reader /\ r.net \in Nat /\ Len(r.buf) \in Nat /\ r.buf \in Seq(Nat)
  BY ReaderNumbers DEF ReaderOK
<1>1. PICK a \in Int, z \in Nat : a = -1 /\ z = 0
  OBVIOUS
<1>2. PICK s : s = B!Reset(r)
  OBVIOUS
<1>3. s = [r EXCEPT !.size = a, !.pos = z]
  BY <1>1, <1>2, Zenon DEF B!Reset, B!Drain
<1>4. s \in Reader /\ s.size = -1 /\ s.buf = r.buf /\ s.pos = 0 /\ s.net = r.net
  <2>1. s \in Reader /\ s.size = a /\ s.buf = r.buf /\ s.pos = z /\ s.net = r.net
    BY <1>0, <1>3 DEF Reader
  <2> QED
    BY <1>1, <2>1
<1>5. ReaderOK(s) /\ Place(s) = r.net - Len(r.buf)
  BY <1>0, <1>4 DEF ReaderOK, Place
<1> QED
  BY <1>2, <1>4, <1>5

(* A new reader that has been looked into keeps what was seen. *)
LEMMA ReaderPeek ==
  ASSUME NEW n \in Nat
  PROVE  LET r == B!Peek(B!NewReadBuffer, n) IN
         /\ ReaderOK(r) /\ r.net = n /\ Len(r.buf) = n /\ Place(r) = 0
<1>1. /\ B!Bytes(0, n) \in Seq(Nat) /\ Len(B!Bytes(0, n)) = n
      /\ <<>> \o B!Bytes(0, n) = B!Bytes(0, n) /\ Len(<<>>) = 0
  BY BytesFacts, ConcatEmptySeq, EmptySeq
<1>2. PICK r : r = B!NewReadBuffer
  OBVIOUS
<1>3. r \in Reader /\ r.size = 0 /\ r.buf = <<>> /\ r.pos = 0 /\ r.net = 0
  BY <1>2, ReaderNew DEF B!NewReadBuffer, ReaderOK
<1>4. /\ (IF n > Len(r.buf) THEN r.net + (n - Len(r.buf)) ELSE r.net) = n
      /\ B!Bytes(r.net, IF n > Len(r.buf) THEN n - Len(r.buf) ELSE 0) = B!Bytes(0, n)
  <2>1. (IF n > Len(r.buf) THEN n - Len(r.buf) ELSE 0) = n
    BY <1>1, <1>3
  <2> QED
    BY <1>1, <1>3, <2>1
<1>5. PICK b : b \in Seq(Nat) /\ b = B!Bytes(0, n)
  BY <1>1
<1>6. PICK s \in Int : s = n
  OBVIOUS
<1> DEFINE t == [r EXCEPT !.size = s, !.net = n, !.buf = b]
<1>7. t \in Reader /\ t.size = s /\ t.buf = b /\ t.pos = r.pos /\ t.net = n
  BY <1>3, <1>5 DEF Reader
<1>8. r.buf \o B!Bytes(r.net, IF n > Len(r.buf) THEN n - Len(r.buf) ELSE 0) = b
  BY <1>1, <1>3, <1>4, <1>5
<1>9. B!Peek(r, n) = B!Reset(t)
  BY <1>4, <1>6, <1>8, Zenon DEF B!Peek
<1> HIDE DEF t
<1>10. ReaderOK(t)
  <2>1. Len(t.buf) = n /\ t.net - Len(t.buf) = 0 /\ t.pos = 0
    BY <1>1, <1>3, <1>5, <1>7
  <2> QED
    BY <1>1, <1>3, <1>5, <1>6, <1>7, <2>1, EmptySeq DEF ReaderOK
<1> QED
  BY <1>1, <1>2, <1>5, <1>7, <1>9, <1>10, ReaderReset
-----------------------------------------------------------------------------
(* Mpegts *)

(* What the run does to a source of MPEG-TS. *)
MpegtsMove == M!Init /\ [][M!Next]_mpegtsVars

(* The run's other parts leave the source of MPEG-TS alone. *)
LEMMA MpegtsMoves == MediaSpec => MpegtsMove
<1>1. MediaInit => M!Init
  BY DEF MediaInit
<1>2. [MediaNext]_mediaVars => [M!Next]_mpegtsVars
  BY DEF MediaNext, mediaVars, mpegtsVars
<1> QED
  BY <1>1, <1>2, PTL DEF MediaSpec, MpegtsMove

(* Of the cells s: none of the first d, or this one, is the newest of PID p. *)
NoneYet(s, p, d) == \A j \in 1 .. d : s[j].pid # p
Newest(s, p, d, i) == i \in 1 .. d /\ s[i].pid = p /\ \A j \in i + 1 .. d : s[j].pid # p

Follows(c, e) ==
  IF c.k < c.n
  THEN e.frame = c.frame /\ e.k = c.k + 1 /\ e.n = c.n /\ e.size = c.size
  ELSE e.k = 1

CellOK(c) ==
  /\ 1 <= c.k /\ c.k <= c.n
  /\ IF c.frame = 0 THEN c.size = 0 ELSE c.size \in {0, c.n}

(* The cells of a PID are whole frames, one behind the other; only the     *)
(* frame that the stream was joined in is cut, and it has the number 0.    *)
Preceded(s, d, e) ==
  \/ NoneYet(s, e.pid, d) /\ (e.k = 1 \/ e.frame = 0)
  \/ \E i \in 1 .. d : Newest(s, e.pid, d, i) /\ Follows(s[i], e)
CellsFollow(s) ==
  \A j \in 1 .. Len(s) : s[j].pid \in M!Pids => CellOK(s[j]) /\ Preceded(s, j - 1, s[j])

(* The encoder is where the newest cells are. *)
EncoderOf(s, p, o) ==
  /\ o.k <= o.n
  /\ IF o.frame = 0 THEN o.size = 0 ELSE o.size \in {0, o.n}
  /\ \/ NoneYet(s, p, Len(s)) /\ o.frame = 0
     \/ \E i \in 1 .. Len(s) :
          Newest(s, p, Len(s), i) /\ s[i] = M!Cell(p, o.frame, o.k, o.n, o.size)

TsCell == [pid : M!Pids \cup {"PAT", "PMT"}, frame : Nat, k : Nat, n : Nat, size : Nat]
Encoder == [frame : Nat, k : Nat, n : Nat, size : Nat]
Piece == Nat \X Nat \X Nat

StreamOK(s, o) ==
  /\ s \in Seq(TsCell) /\ Len(s) >= 2
  /\ s[1].pid = "PAT" /\ s[2].pid = "PMT"
  /\ o \in [M!Pids -> Encoder]
  /\ CellsFollow(s)
  /\ \A p \in M!Pids : EncoderOf(s, p, o[p])

(* The cells of PID p among the first d. *)
Upto(p, d) == L!Firsts([i \in 1 .. Len(stream) |-> M!CellOf(p, stream[i])], d)

(* What is held after a cell c, when something is. *)
Holds(c, held, size) ==
  IF c.frame = 0 THEN size = 0 /\ held[1][1] = 0
  ELSE Len(held) = c.k /\ size = c.size /\ \A x \in 1 .. c.k : held[x] = <<c.frame, x, c.n>>

(* What a PES holds after d cells: nothing, when its last frame has been   *)
(* handed on, or its last frame so far.                                    *)
PayloadOK(p, d) ==
  LET held == pes[p].payload IN
  /\ NoneYet(stream, p, d) => held = <<>> /\ pes[p].size = 0
  /\ \A i \in 1 .. d : Newest(stream, p, d, i) => LET c == stream[i] IN
       IF held = <<>> THEN c.k = c.n
       ELSE Holds(c, held, pes[p].size)

HandedWhole(p) ==
  \A i \in 1 .. Len(handed[p]) : handed[p][i][1][1] # 0 => M!FrameWhole(handed[p][i])

(* Start has looked at d cells. *)
InOrder(p, d) == L!FlattenSeq(handed[p]) \o pes[p].payload = Upto(p, d)
Pes == [payload : Seq(Piece), size : Nat]
NothingHanded == \A p \in M!Pids : handed[p] = <<>>
DemuxAt(d) ==
  IF d < 2 THEN pes = <<>> /\ NothingHanded /\ (d = 1 => pat = TRUE)
  ELSE /\ pes \in [M!Pids -> Pes]
       /\ \A p \in M!Pids : InOrder(p, d) /\ (p # Opus => PayloadOK(p, d) /\ HandedWhole(p))

(* The bytes of d cells have been read, and some of the next one. *)
ReadAt(d) ==
  /\ Len(cell) \in 0 .. CellSize /\ cell = B!Bytes(CellSize * d, Len(cell))
  /\ Place(rd) = CellSize * d + Len(cell)

ReadingOK ==
  /\ ReaderOK(rd) /\ rd.net <= Len(stream) * CellSize
  /\ IF stage = "start" THEN rd.size <= 0
     ELSE rd.size = ProbeSize /\ rd.net = Len(rd.buf) /\ NothingHanded
  /\ \E d \in 0 .. Len(stream) : ReadAt(d) /\ (stage = "start" => DemuxAt(d))

MpegtsInv ==
  /\ StreamOK(stream, open) /\ handed \in [M!Pids -> Seq(Seq(Piece))]
  /\ \/ stage = "send" /\ rd = B!NewReadBuffer /\ M!NoDemuxer /\ NothingHanded
     \/ stage \in {"check", "probe", "start"} /\ ReadingOK
     \/ stage = "failed" /\ rd.net > ProbeSize /\ Len(cell) < CellSize /\ NothingHanded

(* What is used of the reader and of lists, under their names there.       *)
LEMMA SameRead ==
  /\ \A r, n, m : M!Read(r, n, m) = B!Read(r, n, m)
  /\ \A r : M!Reset(r) = B!Reset(r)
  /\ \A r, n : M!Peek(r, n) = B!Peek(r, n)
  /\ M!NewReadBuffer = B!NewReadBuffer
  BY DEF M!Read, M!Reset, M!Peek, M!NewReadBuffer, M!Bytes, M!Drain,
         B!Read, B!Reset, B!Peek, B!NewReadBuffer, B!Bytes, B!Drain

(* FlattenSeq is one operator, under either name. *)
LEMMA SameFlatten == \A s : M!FlattenSeq(s) = L!FlattenSeq(s)
  BY DEF M!FlattenSeq, L!FlattenSeq

(* What begins with s has it as a prefix. *)
LEMMA PrefixOf ==
  ASSUME NEW Q, NEW s \in Seq(Q), NEW t \in Seq(Q)
  PROVE  M!IsPrefix(s, s \o t)
<1>1. s \o t \in Seq(Q) /\ Len(s \o t) = Len(s) + Len(t) /\ Len(s) \in Nat /\ Len(t) \in Nat
      /\ \A i \in 1 .. Len(s) : (s \o t)[i] = s[i]
  BY ConcatProperties, LenProperties
<1>2. PICK u \in Seq(Q) : u = s \o t
  BY <1>1
<1>3. PICK v : v = SubSeq(u, 1, Len(s))
  OBVIOUS
<1>4. v \in Seq(Q) /\ Len(v) = Len(s) /\ \A i \in 1 .. Len(s) : v[i] = u[i]
  BY <1>1, <1>2, <1>3, SubSeqProperties
<1>5. v = s
  BY <1>1, <1>2, <1>4, SeqEqual
<1>6. PICK w : w = SubSeq(s, 1, Len(s))
  OBVIOUS
<1>7. w \in Seq(Q) /\ Len(w) = Len(s) /\ \A i \in 1 .. Len(s) : w[i] = s[i]
  BY <1>1, <1>6, SubSeqProperties
<1>8. w = s
  BY <1>7, SeqEqual
<1> QED
  BY <1>1, <1>2, <1>3, <1>5, <1>6, <1>8 DEF M!IsPrefix

(* Where the cells are among the bytes. *)
LEMMA CellsNext ==
  ASSUME NEW d \in Nat
  PROVE  /\ CellSize * d \in Nat /\ CellSize * 0 = 0
         /\ CellSize * (d + 1) = CellSize * d + CellSize
  BY MpegtsAssumption

(* Places that are whole numbers of cells compare as those numbers do. *)
LEMMA CellsThere ==
  ASSUME NEW d \in Nat, NEW e \in Nat
  PROVE  /\ CellSize * d + CellSize <= e * CellSize => d + 1 <= e
         /\ CellSize * d = e * CellSize => d = e
<1> USE MpegtsAssumption
<1>1. d > e => CellSize * d > e * CellSize
  OBVIOUS
<1>2. d < e => CellSize * d < e * CellSize
  OBVIOUS
<1>3. d >= e => CellSize * d >= e * CellSize
  OBVIOUS
<1>4. CellSize * d \in Nat /\ e * CellSize \in Nat /\ CellSize \in Nat \ {0}
  OBVIOUS
<1> QED
  BY <1>1, <1>2, <1>3, <1>4

(* Where a cell ends, and where it begins. *)
LEMMA CellAligned ==
  ASSUME NEW d \in Nat
  PROVE  /\ (CellSize * d + CellSize) \div CellSize = d + 1
         /\ (CellSize * d + 1) % CellSize = 1
<1> USE MpegtsAssumption
<1>1. (CellSize * d + CellSize) \div CellSize = d + 1
  OBVIOUS
<1>2. (CellSize * d + 1) \div CellSize = d
  OBVIOUS
<1>3. (CellSize * d + 1) % CellSize = (CellSize * d + 1) - CellSize * ((CellSize * d + 1) \div CellSize)
  OBVIOUS
<1>4. CellSize * d \in Nat
  OBVIOUS
<1> QED
  BY <1>1, <1>2, <1>3, <1>4

(* The cells of a PID, one cell further. *)
LEMMA CellOfType ==
  ASSUME NEW p, NEW c \in TsCell
  PROVE  M!CellOf(p, c) \in Seq(Piece)
<1>1. <<c.frame, c.k, c.n>> \in Piece
  BY DEF TsCell, Piece
<1> QED
  BY <1>1, EmptySeq DEF M!CellOf

(* The cells of a PID, cell by cell of the stream. *)
LEMMA CellsOfPid ==
  ASSUME stream \in Seq(TsCell), NEW p
  PROVE  LET f == [i \in 1 .. Len(stream) |-> M!CellOf(p, stream[i])] IN
         f \in Seq(Seq(Piece)) /\ Len(f) = Len(stream)
<1>1. Len(stream) \in Nat /\ \A i \in 1 .. Len(stream) : stream[i] \in TsCell
  BY LenProperties, ElementOfSeq
<1>2. \A i \in 1 .. Len(stream) : M!CellOf(p, stream[i]) \in Seq(Piece)
  BY <1>1, CellOfType
<1> QED
  BY <1>1, <1>2

(* One cell further. *)
LEMMA UptoStep ==
  ASSUME stream \in Seq(TsCell), NEW p, NEW d \in Nat
  PROVE  /\ Upto(p, 0) = <<>>
         /\ d <= Len(stream) => Upto(p, d) \in Seq(Piece)
         /\ d + 1 <= Len(stream) => Upto(p, d + 1) = Upto(p, d) \o M!CellOf(p, stream[d + 1])
<1>1. PICK f \in Seq(Seq(Piece)) :
        f = [i \in 1 .. Len(stream) |-> M!CellOf(p, stream[i])] /\ Len(f) = Len(stream)
  BY CellsOfPid
<1>2. d + 1 <= Len(stream) => f[d + 1] = M!CellOf(p, stream[d + 1])
  BY <1>1, LenProperties
<1>3. \A n : Upto(p, n) = L!Firsts(f, n)
  BY <1>1 DEF Upto
<1>4. /\ L!Firsts(f, 0) = <<>>
      /\ d <= Len(f) => L!Firsts(f, d) \in Seq(Piece)
      /\ d + 1 <= Len(f) => L!Firsts(f, d + 1) = L!Firsts(f, d) \o f[d + 1]
  BY L!FirstsStep
<1> QED
  BY <1>1, <1>2, <1>3, <1>4

(* The cells so far are the first of all of them. *)
LEMMA UptoPrefix ==
  ASSUME stream \in Seq(TsCell), NEW p, NEW d \in 0 .. Len(stream)
  PROVE  \E t \in Seq(Piece) : M!CellsOf(p) = Upto(p, d) \o t
<1>1. PICK f \in Seq(Seq(Piece)) :
        f = [i \in 1 .. Len(stream) |-> M!CellOf(p, stream[i])] /\ Len(f) = Len(stream)
  BY CellsOfPid
<1>2. \E t \in Seq(Piece) : L!FlattenSeq(f) = L!Firsts(f, d) \o t
  <2>1. d \in 0 .. Len(f)
    BY <1>1
  <2>2. /\ L!Firsts(f, Len(f)) = L!FlattenSeq(f)
        /\ \E t \in Seq(Piece) : L!Firsts(f, Len(f)) = L!Firsts(f, d) \o t
    BY <2>1, L!FirstsPrefix
  <2> QED
    BY <2>2
<1> QED
  BY <1>1, <1>2, SameFlatten DEF Upto, M!CellsOf

(* The cells of a PID are all that Upto counts. *)
LEMMA AllCells ==
  ASSUME stream \in Seq(TsCell), NEW p
  PROVE  M!CellsOf(p) = Upto(p, Len(stream))
<1>1. PICK f \in Seq(Seq(Piece)) :
        f = [i \in 1 .. Len(stream) |-> M!CellOf(p, stream[i])] /\ Len(f) = Len(stream)
  BY CellsOfPid
<1>2. 0 \in 0 .. Len(f)
  BY LenProperties
<1>3. L!FlattenSeq(f) = L!Firsts(f, Len(f))
  BY <1>2, L!FirstsPrefix
<1> QED
  BY <1>1, <1>3, SameFlatten DEF Upto, M!CellsOf

(* What was before is before when a cell is appended. *)
LEMMA BeforeSame ==
  ASSUME NEW s \in Seq(TsCell), NEW e \in TsCell, NEW t, t = Append(s, e),
         NEW d \in 0 .. Len(s)
  PROVE  /\ Len(s) \in Nat /\ t \in Seq(TsCell) /\ Len(t) = Len(s) + 1 /\ t[Len(s) + 1] = e
         /\ \A j \in 1 .. Len(s) : t[j] = s[j]
         /\ \A p : NoneYet(s, p, d) => NoneYet(t, p, d)
         /\ \A p : \A i \in 1 .. d : Newest(s, p, d, i) => Newest(t, p, d, i)
         /\ \A c : Preceded(s, d, c) => Preceded(t, d, c)
<1>1. /\ Len(s) \in Nat /\ t \in Seq(TsCell) /\ Len(t) = Len(s) + 1 /\ t[Len(s) + 1] = e
      /\ \A j \in 1 .. Len(s) : t[j] = s[j]
  BY AppendProperties, LenProperties
<1>2. \A j \in 1 .. d : t[j] = s[j]
  BY <1>1
<1>3. \A p : NoneYet(s, p, d) => NoneYet(t, p, d)
  BY <1>2 DEF NoneYet
<1>4. \A p : \A i \in 1 .. d : Newest(s, p, d, i) => Newest(t, p, d, i)
  <2> SUFFICES ASSUME NEW p, NEW i \in 1 .. d, Newest(s, p, d, i) PROVE Newest(t, p, d, i)
    OBVIOUS
  <2>1. \A j \in i + 1 .. d : t[j] = s[j]
    BY <1>2
  <2> QED
    BY <1>2, <2>1 DEF Newest
<1>5. \A c : Preceded(s, d, c) => Preceded(t, d, c)
  <2> SUFFICES ASSUME NEW c, Preceded(s, d, c) PROVE Preceded(t, d, c)
    OBVIOUS
  <2>1. CASE NoneYet(s, c.pid, d) /\ (c.k = 1 \/ c.frame = 0)
    BY <1>3, <2>1 DEF Preceded
  <2>2. CASE \E i \in 1 .. d : Newest(s, c.pid, d, i) /\ Follows(s[i], c)
    <3>1. PICK i \in 1 .. d : Newest(s, c.pid, d, i) /\ Follows(s[i], c)
      BY <2>2
    <3>2. Newest(t, c.pid, d, i) /\ Follows(t[i], c)
      BY <1>2, <1>4, <3>1
    <3> QED
      BY <3>2 DEF Preceded
  <2> QED
    BY <2>1, <2>2 DEF Preceded
<1> QED
  BY <1>1, <1>3, <1>4, <1>5

(* A cell of another PID does not change where the encoder is. *)
LEMMA EncoderOther ==
  ASSUME NEW s \in Seq(TsCell), NEW e \in TsCell, NEW p, e.pid # p, NEW o, EncoderOf(s, p, o)
  PROVE  EncoderOf(Append(s, e), p, o)
<1>1. PICK t : t = Append(s, e)
  OBVIOUS
<1>2. /\ Len(s) \in Nat /\ Len(t) = Len(s) + 1 /\ t[Len(s) + 1] = e
      /\ \A j \in 1 .. Len(s) : t[j] = s[j]
  <2>1. 0 \in 0 .. Len(s)
    BY LenProperties
  <2> QED
    BY <1>1, <2>1, BeforeSame
<1>3. NoneYet(s, p, Len(s)) => NoneYet(t, p, Len(t))
  BY <1>2 DEF NoneYet
<1>4. ASSUME NEW i \in 1 .. Len(s), Newest(s, p, Len(s), i) PROVE Newest(t, p, Len(t), i)
  <2>1. t[i] = s[i] /\ i \in 1 .. Len(t)
    BY <1>2
  <2>2. ASSUME NEW j \in i + 1 .. Len(t) PROVE t[j].pid # p
    <3>1. CASE j = Len(s) + 1
      BY <1>2, <3>1
    <3>2. CASE j # Len(s) + 1
      <4>1. j \in i + 1 .. Len(s) /\ j \in 1 .. Len(s)
        BY <1>2, <3>2
      <4> QED
        BY <1>2, <1>4, <4>1 DEF Newest
    <3> QED
      BY <3>1, <3>2
  <2> QED
    BY <1>4, <2>1, <2>2 DEF Newest
<1>5. ASSUME NEW i \in 1 .. Len(s), Newest(s, p, Len(s), i),
             s[i] = M!Cell(p, o.frame, o.k, o.n, o.size)
      PROVE  \E h \in 1 .. Len(t) :
               Newest(t, p, Len(t), h) /\ t[h] = M!Cell(p, o.frame, o.k, o.n, o.size)
  <2>1. i \in 1 .. Len(t) /\ t[i] = s[i] /\ Newest(t, p, Len(t), i)
    BY <1>2, <1>4, <1>5
  <2> QED
    BY <1>5, <2>1
<1> QED
  BY <1>1, <1>3, <1>5 DEF EncoderOf

(* One cell more, from the encoder. *)
LEMMA StreamMore ==
  ASSUME NEW s, NEW o, StreamOK(s, o), NEW e \in TsCell,
         e.pid \in M!Pids => CellOK(e) /\ Preceded(s, Len(s), e),
         NEW q \in [M!Pids -> Encoder],
         \A p \in M!Pids : EncoderOf(Append(s, e), p, q[p])
  PROVE  StreamOK(Append(s, e), q)
<1>0. s \in Seq(TsCell) /\ Len(s) \in Nat /\ Len(s) >= 2 /\ s[1].pid = "PAT" /\ s[2].pid = "PMT"
  BY LenProperties DEF StreamOK
<1>1. PICK t : t = Append(s, e)
  OBVIOUS
<1>2. /\ t \in Seq(TsCell) /\ Len(t) = Len(s) + 1 /\ t[Len(s) + 1] = e
      /\ \A j \in 1 .. Len(s) : t[j] = s[j]
  <2>1. 0 \in 0 .. Len(s)
    BY <1>0
  <2> QED
    BY <1>0, <1>1, <2>1, BeforeSame
<1>3. ASSUME NEW j \in 1 .. Len(t), t[j].pid \in M!Pids
      PROVE  CellOK(t[j]) /\ Preceded(t, j - 1, t[j])
  <2>1. CASE j = Len(s) + 1
    <3>1. t[j] = e /\ j - 1 = Len(s) /\ Len(s) \in 0 .. Len(s)
      BY <1>0, <1>2, <2>1
    <3>2. Preceded(s, Len(s), e) => Preceded(t, Len(s), e)
      BY <1>0, <1>1, <3>1, BeforeSame
    <3> QED
      BY <1>3, <3>1, <3>2
  <2>2. CASE j # Len(s) + 1
    <3>1. j \in 1 .. Len(s) /\ j - 1 \in 0 .. Len(s)
      BY <1>0, <1>2, <2>2
    <3>2. t[j] = s[j]
      BY <1>2, <3>1
    <3>3. CellOK(s[j]) /\ Preceded(s, j - 1, s[j])
      BY <1>3, <3>1, <3>2 DEF StreamOK, CellsFollow
    <3>4. Preceded(t, j - 1, s[j])
      BY <1>0, <1>1, <3>1, <3>3, BeforeSame
    <3> QED
      BY <3>2, <3>3, <3>4
  <2> QED
    BY <2>1, <2>2
<1>4. CellsFollow(t)
  BY <1>3 DEF CellsFollow
<1>5. t[1].pid = "PAT" /\ t[2].pid = "PMT" /\ Len(t) >= 2
  BY <1>0, <1>2
<1> QED
  BY <1>1, <1>2, <1>4, <1>5 DEF StreamOK

(* Tables once more. *)
LEMMA TableMore ==
  ASSUME NEW s, NEW o, StreamOK(s, o), NEW e \in TsCell, e.pid \notin M!Pids
  PROVE  StreamOK(Append(s, e), o)
<1>1. s \in Seq(TsCell) /\ o \in [M!Pids -> Encoder]
  BY DEF StreamOK
<1>2. \A p \in M!Pids : EncoderOf(Append(s, e), p, o[p])
  BY <1>1, EncoderOther DEF StreamOK
<1> QED
  BY <1>1, <1>2, StreamMore

(* The tables are cells, and of no frame's pid. *)
LEMMA Tables ==
  /\ M!Table("PAT") \in TsCell /\ M!Table("PMT") \in TsCell
  /\ M!Table("PAT").pid = "PAT" /\ M!Table("PMT").pid = "PMT"
  /\ "PAT" \notin M!Pids /\ "PMT" \notin M!Pids /\ "Metadata" \notin M!Pids
  BY MpegtsAssumption DEF M!Table, M!Cell, TsCell, M!Pids

(* A stream begins with its tables, and nothing of it has been read.       *)
LEMMA MpegtsInit == M!Init => MpegtsInv
<1> SUFFICES ASSUME M!Init PROVE MpegtsInv
  OBVIOUS
<1>1. PICK s : s = stream
  OBVIOUS
<1>2. s \in Seq(TsCell) /\ Len(s) = 2 /\ s[1].pid = "PAT" /\ s[2].pid = "PMT"
  BY <1>1, Tables DEF M!Init, M!GetHeader
<1>3. \A p \in M!Pids : NoneYet(s, p, Len(s))
  <2>1. \A j \in 1 .. 2 : j = 1 \/ j = 2
    OBVIOUS
  <2> QED
    BY <1>2, <2>1, Tables DEF NoneYet
<1>4. CellsFollow(s)
  <2>1. \A j \in 1 .. 2 : j = 1 \/ j = 2
    OBVIOUS
  <2> QED
    BY <1>2, <2>1, Tables DEF CellsFollow
<1>5. open \in [M!Pids -> Encoder]
      /\ \A p \in M!Pids : /\ open[p].k <= open[p].n
                           /\ open[p].frame = 0 /\ open[p].size = 0
  BY DEF M!Init, Encoder
<1>6. StreamOK(s, open)
  <2>1. \A p \in M!Pids : EncoderOf(s, p, open[p])
    BY <1>3, <1>5 DEF EncoderOf
  <2> QED
    BY <1>2, <1>4, <1>5, <2>1 DEF StreamOK
<1>7. handed \in [M!Pids -> Seq(Seq(Piece))] /\ NothingHanded
  <2>1. <<>> \in Seq(Seq(Piece))
    BY EmptySeq
  <2> QED
    BY <2>1 DEF M!Init, NothingHanded
<1>8. stage = "send" /\ rd = B!NewReadBuffer /\ M!NoDemuxer
  BY SameRead DEF M!Init
<1> QED
  BY <1>1, <1>6, <1>7, <1>8 DEF MpegtsInv

(* The encoder begins a frame, goes on with one, or repeats the tables.    *)
LEMMA EncoderNext ==
  ASSUME NEW s, NEW o, StreamOK(s, o), NEW p \in M!Pids, NEW q \in Encoder,
         \/ o[p].k = o[p].n /\ q.frame # 0 /\ q.k = 1 /\ 1 <= q.n /\ q.size \in {0, q.n}
         \/ /\ o[p].k < o[p].n /\ q.frame = o[p].frame /\ q.k = o[p].k + 1
            /\ q.n = o[p].n /\ q.size = o[p].size
  PROVE  LET e == M!Cell(p, q.frame, q.k, q.n, q.size) IN
         StreamOK(Append(s, e), [o EXCEPT ![p] = q])
<1>1. PICK e : e = M!Cell(p, q.frame, q.k, q.n, q.size)
  OBVIOUS
<1>2. /\ e \in TsCell /\ e.pid = p /\ e.frame = q.frame /\ e.k = q.k /\ e.n = q.n
      /\ e.size = q.size
  BY <1>1 DEF M!Cell, TsCell, Encoder
<1>3. /\ s \in Seq(TsCell) /\ o \in [M!Pids -> Encoder] /\ EncoderOf(s, p, o[p])
      /\ o[p] \in Encoder
  BY DEF StreamOK
<1>4. /\ q.frame \in Nat /\ q.k \in Nat /\ q.n \in Nat /\ q.size \in Nat
      /\ o[p].frame \in Nat /\ o[p].k \in Nat /\ o[p].n \in Nat /\ o[p].size \in Nat
  BY <1>3 DEF Encoder
<1>5. q.k <= q.n /\ 1 <= q.k /\ IF q.frame = 0 THEN q.size = 0 ELSE q.size \in {0, q.n}
  BY <1>3, <1>4 DEF EncoderOf
<1>6. CellOK(e)
  BY <1>2, <1>5 DEF CellOK
<1>7. Preceded(s, Len(s), e)
  <2>1. CASE NoneYet(s, p, Len(s)) /\ o[p].frame = 0
    BY <1>2, <2>1 DEF Preceded
  <2>2. CASE \E i \in 1 .. Len(s) :
               /\ Newest(s, p, Len(s), i)
               /\ s[i] = M!Cell(p, o[p].frame, o[p].k, o[p].n, o[p].size)
    <3>1. PICK i \in 1 .. Len(s) :
            /\ Newest(s, p, Len(s), i)
            /\ s[i] = M!Cell(p, o[p].frame, o[p].k, o[p].n, o[p].size)
      BY <2>2
    <3>2. /\ s[i].frame = o[p].frame /\ s[i].k = o[p].k /\ s[i].n = o[p].n
          /\ s[i].size = o[p].size
      BY <3>1 DEF M!Cell
    <3>3. Follows(s[i], e)
      BY <1>2, <1>4, <3>2 DEF Follows
    <3> QED
      BY <1>2, <3>1, <3>3 DEF Preceded
  <2> QED
    BY <1>3, <2>1, <2>2 DEF EncoderOf
<1>8. PICK t : t = Append(s, e)
  OBVIOUS
<1>9. Len(s) \in Nat /\ Len(t) = Len(s) + 1 /\ t[Len(s) + 1] = e
  <2>1. 0 \in 0 .. Len(s)
    BY <1>3, LenProperties
  <2> QED
    BY <1>2, <1>3, <1>8, <2>1, BeforeSame
<1>10. EncoderOf(t, p, q)
  <2>1. Newest(t, p, Len(t), Len(s) + 1) /\ Len(s) + 1 \in 1 .. Len(t)
    BY <1>2, <1>9 DEF Newest
  <2>2. t[Len(s) + 1] = M!Cell(p, q.frame, q.k, q.n, q.size)
    BY <1>1, <1>9
  <2> QED
    BY <1>5, <2>1, <2>2 DEF EncoderOf
<1>11. PICK w : w = [o EXCEPT ![p] = q]
  OBVIOUS
<1>12. w \in [M!Pids -> Encoder] /\ w[p] = q /\ \A h \in M!Pids : h # p => w[h] = o[h]
  BY <1>3, <1>11
<1>13. \A h \in M!Pids : EncoderOf(t, h, w[h])
  <2> SUFFICES ASSUME NEW h \in M!Pids, h # p PROVE EncoderOf(t, h, w[h])
    BY <1>10, <1>12
  <2>1. EncoderOf(s, h, o[h]) /\ w[h] = o[h]
    BY <1>12 DEF StreamOK
  <2> QED
    BY <1>2, <1>3, <1>8, <2>1, EncoderOther
<1> QED
  BY <1>1, <1>2, <1>6, <1>7, <1>8, <1>11, <1>12, <1>13, StreamMore

(* The encoder sends more, or its tables again. *)
LEMMA StreamSent ==
  ASSUME MpegtsInv, M!Repeat \/ M!WritePES
  PROVE  MpegtsInv'
<1>1. StreamOK(stream, open) /\ stream \in Seq(TsCell) /\ open \in [M!Pids -> Encoder]
  BY DEF MpegtsInv, StreamOK
<1>2. stage = "send" /\ stage' = stage /\ UNCHANGED <<rd, cell, skip, pat, pes, handed>>
  BY DEF M!Repeat, M!WritePES
<1>3. CASE M!Repeat
  <2>1. PICK a \in TsCell, z \in TsCell : /\ a = M!Table("PAT") /\ z = M!Table("PMT")
                                          /\ a.pid \notin M!Pids /\ z.pid \notin M!Pids
    BY Tables
  <2>2. stream' = stream \o <<a, z>> /\ open' = open
    BY <1>3, <2>1 DEF M!Repeat, M!GetHeader
  <2>3. stream \o <<a, z>> = Append(Append(stream, a), z)
    <3>1. /\ <<a, z>> = <<a>> \o <<z>> /\ <<a>> \in Seq(TsCell) /\ <<z>> \in Seq(TsCell)
          /\ Append(stream, a) \in Seq(TsCell)
      <4>1. <<a>> \in Seq(TsCell) /\ <<z>> \in Seq(TsCell)
        OBVIOUS
      <4>2. <<a>> \o <<z>> = Append(<<a>>, z)
        BY <4>1, AppendIsConcat
      <4>3. Append(<<a>>, z) = <<a, z>>
        <5>1. PICK g, h : g = Append(<<a>>, z) /\ h = <<a, z>>
          OBVIOUS
        <5>2. g \in Seq(TsCell) /\ Len(g) = 2 /\ g[1] = a /\ g[2] = z
          BY <4>1, <5>1, AppendProperties
        <5>3. h \in Seq(TsCell) /\ Len(h) = 2 /\ h[1] = a /\ h[2] = z
          BY <5>1
        <5>4. \A i \in 1 .. Len(g) : g[i] = h[i]
          <6>1. \A i \in 1 .. 2 : i = 1 \/ i = 2
            OBVIOUS
          <6> QED
            BY <5>2, <5>3, <6>1
        <5>5. g = h
          BY <5>2, <5>3, <5>4, SeqEqual
        <5> QED
          BY <5>1, <5>5
      <4> QED
        BY <1>1, <4>1, <4>2, <4>3, AppendProperties
    <3>2. stream \o (<<a>> \o <<z>>) = (stream \o <<a>>) \o <<z>>
      BY <1>1, <3>1, ConcatAssociative
    <3>3. stream \o <<a>> = Append(stream, a)
      BY <1>1, AppendIsConcat
    <3>4. Append(stream, a) \o <<z>> = Append(Append(stream, a), z)
      BY <3>1, AppendIsConcat
    <3> QED
      BY <3>1, <3>2, <3>3, <3>4
  <2>4. StreamOK(Append(stream, a), open)
    BY <1>1, <2>1, TableMore
  <2>5. StreamOK(Append(Append(stream, a), z), open)
    BY <2>1, <2>4, TableMore
  <2>6. StreamOK(stream', open')
    BY <2>2, <2>3, <2>5
  <2> QED
    BY <1>2, <2>6 DEF MpegtsInv, NothingHanded, M!NoDemuxer
<1>4. CASE M!WritePES
  <2>1. PICK p \in M!Pids :
          /\ \/ \E n \in 1 .. MaxFrame, size \in 0 .. MaxFrame : M!Begins(p, n, size)
             \/ M!Continues(p)
          /\ stream' = Append(stream, M!Cell(p, open'[p].frame, open'[p].k, open'[p].n, open'[p].size))
    BY <1>4 DEF M!WritePES, M!Emit
  <2>2. open[p] \in Encoder
    BY <1>1
  <2>3. PICK q \in Encoder :
          /\ open' = [open EXCEPT ![p] = q]
          /\ \/ open[p].k = open[p].n /\ q.frame # 0 /\ q.k = 1 /\ 1 <= q.n /\ q.size \in {0, q.n}
             \/ /\ open[p].k < open[p].n /\ q.frame = open[p].frame /\ q.k = open[p].k + 1
                /\ q.n = open[p].n /\ q.size = open[p].size
    <3>1. CASE M!Continues(p)
      <4>1. PICK q : q = [open[p] EXCEPT !.k = @ + 1]
        OBVIOUS
      <4>2. /\ q \in Encoder /\ q.frame = open[p].frame /\ q.k = open[p].k + 1
            /\ q.n = open[p].n /\ q.size = open[p].size
        BY <2>2, <4>1 DEF Encoder
      <4>3. open' = [open EXCEPT ![p] = q] /\ open[p].k < open[p].n
        BY <3>1, <4>1 DEF M!Continues
      <4> QED
        BY <4>2, <4>3
    <3>2. CASE \E n \in 1 .. MaxFrame, size \in 0 .. MaxFrame : M!Begins(p, n, size)
      <4>1. PICK n \in 1 .. MaxFrame, size \in 0 .. MaxFrame : M!Begins(p, n, size)
        BY <3>2
      <4>2. PICK q : q = [frame |-> open[p].frame + 1, k |-> 1, n |-> n, size |-> size]
        OBVIOUS
      <4>3. /\ open' = [open EXCEPT ![p] = q] /\ open[p].k = open[p].n
            /\ size \in {n} \cup (IF p = Video THEN {0} ELSE {})
        BY <4>1, <4>2 DEF M!Begins
      <4>4. /\ q \in Encoder /\ q.frame # 0 /\ q.k = 1 /\ q.n = n /\ q.size = size
            /\ 1 <= n /\ size \in {0, n}
        BY <2>2, <4>2, <4>3, MpegtsAssumption DEF Encoder
      <4> QED
        BY <4>3, <4>4
    <3> QED
      BY <2>1, <3>1, <3>2
  <2>4. open'[p] = q
    BY <1>1, <2>3
  <2>5. StreamOK(stream', open')
    BY <1>1, <2>1, <2>3, <2>4, EncoderNext
  <2> QED
    BY <1>2, <2>5 DEF MpegtsInv, NothingHanded, M!NoDemuxer
<1> QED
  BY <1>3, <1>4

(* Open sets the size of what is kept. *)
LEMMA ReaderSized ==
  ASSUME NEW r, ReaderOK(r), NEW m \in Int, m # 0
  PROVE  LET s == [r EXCEPT !.size = m] IN
         /\ ReaderOK(s) /\ s.size = m /\ s.net = r.net /\ s.buf = r.buf /\ Place(s) = Place(r)
<1>1. PICK s : s = [r EXCEPT !.size = m]
  OBVIOUS
<1>2. s \in Reader /\ s.size = m /\ s.buf = r.buf /\ s.pos = r.pos /\ s.net = r.net
  BY <1>1 DEF ReaderOK, Reader
<1>3. ReaderOK(s) /\ Place(s) = Place(r)
  BY <1>2 DEF ReaderOK, Place
<1> QED
  BY <1>1, <1>2, <1>3

(* Open looks at the first bytes and gives them back. *)
LEMMA OpenStep ==
  ASSUME MpegtsInv, M!Open
  PROVE  MpegtsInv'
<1>1. /\ stage = "send" /\ rd = B!NewReadBuffer /\ cell = <<>> /\ NothingHanded
      /\ StreamOK(stream, open) /\ handed \in [M!Pids -> Seq(Seq(Piece))]
  BY DEF MpegtsInv, M!Open, M!NoDemuxer
<1>2. /\ stage' = "check" /\ UNCHANGED <<stream, open, cell, handed>>
      /\ Len(stream) * CellSize >= PeekSize
  BY DEF M!Open
<1>3. PICK r \in {B!NewReadBuffer, B!Peek(B!NewReadBuffer, PeekSize)} :
        rd' = [r EXCEPT !.size = ProbeSize]
  BY SameRead DEF M!Open
<1>4. Len(stream) * CellSize \in Nat /\ Len(stream) \in Nat
  <2>1. Len(stream) \in Nat
    BY <1>1, LenProperties DEF StreamOK
  <2> QED
    BY <2>1, MpegtsAssumption
<1>5. ReaderOK(r) /\ r.net = Len(r.buf) /\ Place(r) = 0 /\ r.net <= Len(stream) * CellSize
  <2>1. CASE r = B!NewReadBuffer
    BY <1>4, <2>1, ReaderNew, EmptySeq
  <2>2. CASE r = B!Peek(B!NewReadBuffer, PeekSize)
    BY <1>2, <1>4, <2>2, ReaderPeek, MpegtsAssumption
  <2> QED
    BY <1>3, <2>1, <2>2
<1>6. /\ ReaderOK(rd') /\ rd'.size = ProbeSize /\ rd'.net = r.net /\ rd'.buf = r.buf
      /\ Place(rd') = 0
  BY <1>3, <1>5, ReaderSized, MpegtsAssumption
<1>7. ReadAt(0)'
  <2>1. cell' = <<>> /\ Place(rd)' = 0
    BY <1>1, <1>2, <1>6 DEF Place
  <2>2. Len(cell') = 0 /\ CellSize * 0 = 0 /\ CellSize \in Nat
    BY <2>1, EmptySeq, CellsNext, MpegtsAssumption
  <2>3. B!Bytes(0, 0) \in Seq(Nat) /\ Len(B!Bytes(0, 0)) = 0
    BY BytesFacts
  <2>4. B!Bytes(0, 0) = <<>>
    BY <2>3, EmptySeq
  <2> QED
    BY <2>1, <2>2, <2>4 DEF ReadAt
<1>8. ReadingOK'
  <2>1. 0 \in 0 .. Len(stream')
    BY <1>2, <1>4
  <2> QED
    BY <1>1, <1>2, <1>5, <1>6, <1>7, <2>1 DEF ReadingOK, NothingHanded
<1> QED
  BY <1>1, <1>2, <1>8 DEF MpegtsInv

(* probe goes on; nothing has been read in between. *)
LEMMA ProbeMoreStep ==
  ASSUME MpegtsInv, M!ProbeMore
  PROVE  MpegtsInv'
  BY DEF MpegtsInv, M!ProbeMore, ReadingOK, NothingHanded, ReadAt, Place

(* probe is done: all that it read will be read again. *)
LEMMA ProbedStep ==
  ASSUME MpegtsInv, M!Probed
  PROVE  MpegtsInv'
<1>1. /\ stage = "check" /\ ReadingOK /\ NothingHanded
      /\ StreamOK(stream, open) /\ handed \in [M!Pids -> Seq(Seq(Piece))]
      /\ ReaderOK(rd) /\ rd.net = Len(rd.buf) /\ rd.net <= Len(stream) * CellSize
  BY DEF MpegtsInv, M!Probed, ReadingOK
<1>2. /\ stage' = "start" /\ rd' = B!Reset(rd) /\ cell' = <<>> /\ pes' = <<>>
      /\ UNCHANGED <<stream, open, handed>>
  BY SameRead DEF M!Probed, M!NewDemuxer
<1>3. /\ ReaderOK(rd') /\ rd'.size <= 0 /\ rd'.net = rd.net
      /\ Place(rd') = 0
  BY <1>1, <1>2, ReaderReset, ReaderNumbers
<1>4. ReadAt(0)'
  <2>1. Place(rd)' = 0 /\ cell' = <<>>
    BY <1>2, <1>3 DEF Place
  <2>2. Len(cell') = 0 /\ CellSize * 0 = 0 /\ CellSize \in Nat
    BY <2>1, EmptySeq, CellsNext, MpegtsAssumption
  <2>3. B!Bytes(0, 0) \in Seq(Nat) /\ Len(B!Bytes(0, 0)) = 0
    BY BytesFacts
  <2>4. B!Bytes(0, 0) = <<>>
    BY <2>3, EmptySeq
  <2> QED
    BY <2>1, <2>2, <2>4 DEF ReadAt
<1>5. DemuxAt(0)'
  BY <1>1, <1>2 DEF DemuxAt, NothingHanded
<1>6. ReadingOK'
  <2>1. 0 \in 0 .. Len(stream')
    BY <1>1, <1>2, LenProperties DEF StreamOK
  <2> QED
    BY <1>1, <1>2, <1>3, <1>4, <1>5, <2>1 DEF ReadingOK
<1> QED
  BY <1>1, <1>2, <1>6 DEF MpegtsInv

(* What the demuxer knows does not depend on the bytes of a cell. *)
LEMMA DemuxSame ==
  ASSUME NEW d, DemuxAt(d), UNCHANGED <<stream, pat, pes, handed>>
  PROVE  DemuxAt(d)'
  BY DEF DemuxAt, NothingHanded, InOrder, Upto, PayloadOK, HandedWhole

(* ReadPacket reads into the cell: what comes next, or it fails. *)
LEMMA ReadCellStep ==
  ASSUME MpegtsInv, M!ReadCell
  PROVE  MpegtsInv'
<1>1. /\ stage \in {"probe", "start"} /\ ReadingOK /\ Len(cell) < CellSize
      /\ StreamOK(stream, open) /\ handed \in [M!Pids -> Seq(Seq(Piece))]
      /\ UNCHANGED <<stream, open, skip, pat, pes, handed>>
  BY DEF MpegtsInv, M!ReadCell
<1>2. PICK d \in 0 .. Len(stream) : ReadAt(d) /\ (stage = "start" => DemuxAt(d))
  BY <1>1 DEF ReadingOK
<1>3. Len(stream) \in Nat /\ d \in Nat /\ CellSize * d \in Nat /\ Len(stream) * CellSize \in Nat
  <2>1. Len(stream) \in Nat /\ d \in Nat
    BY <1>1, LenProperties DEF StreamOK
  <2> QED
    BY <2>1, CellsNext, MpegtsAssumption
<1>4. PICK l \in Nat, want \in Nat \ {0} : l = Len(cell) /\ want = CellSize - l /\ cell \in Seq(Nat)
  <2>2. cell = B!Bytes(CellSize * d, Len(cell)) /\ Len(cell) \in 0 .. CellSize
    BY <1>2 DEF ReadAt
  <2>4. Len(cell) \in Nat
    BY <2>2
  <2>3. cell \in Seq(Nat)
    BY <1>3, <2>2, <2>4, BytesFacts
  <2>5. CellSize - Len(cell) \in Nat \ {0}
    BY <1>1, <2>4, MpegtsAssumption
  <2> QED
    BY <2>3, <2>4, <2>5
<1>5. PICK o \in B!Read(rd, want, Len(stream) * CellSize) :
        rd' = o.r /\ cell' = cell \o o.got /\ stage' = IF o.fails THEN "failed" ELSE stage
  BY <1>4, SameRead DEF M!ReadCell
<1>6. rd.net <= Len(stream) * CellSize /\ ReaderOK(rd)
  BY <1>1 DEF ReadingOK
<1>7. /\ ReadFails(rd, o) \/ ReadGives(rd, want, o)
      /\ o.r.net <= Len(stream) * CellSize
  BY <1>3, <1>5, <1>6, Reads
<1>8. CASE o.fails = TRUE
  <2>1. o.got = <<>> /\ rd.size > 0 /\ o.r.net > rd.size + (rd.net - Len(rd.buf))
    BY <1>8, <1>7 DEF ReadFails, ReadGives
  <2>2. stage # "start" /\ rd.size = ProbeSize /\ rd.net = Len(rd.buf) /\ NothingHanded
    BY <1>1, <1>6, <2>1, ReaderNumbers DEF ReadingOK
  <2>3. rd'.net > ProbeSize
    <3>1. rd.net - Len(rd.buf) = 0
      BY <1>6, <2>2, ReaderNumbers
    <3>2. rd'.net > ProbeSize + 0
      BY <1>5, <2>1, <2>2, <3>1
    <3> QED
      BY <3>2, MpegtsAssumption
  <2>4. cell' = cell
    BY <1>4, <1>5, <2>1, ConcatEmptySeq
  <2>5. stage' = "failed"
    BY <1>5, <1>8
  <2> QED
    BY <1>1, <2>2, <2>3, <2>4, <2>5 DEF MpegtsInv, NothingHanded
<1>9. CASE o.fails = FALSE
  <2>1. ReaderOK(o.r) /\ SizeKept(rd, o.r) /\ o.r.net <= Len(stream) * CellSize
    BY <1>9, <1>7 DEF ReadFails, ReadGives
  <2>2. PICK n \in 1 .. want : o.got = B!Bytes(Place(rd), n) /\ Place(o.r) = Place(rd) + n
    BY <1>9, <1>7 DEF ReadFails, ReadGives
  <2>3. Place(rd) = CellSize * d + l /\ cell = B!Bytes(CellSize * d, l)
    BY <1>2, <1>4 DEF ReadAt
  <2>4. cell' = B!Bytes(CellSize * d, l + n)
    <3>1. n \in Nat
      OBVIOUS
    <3>2. B!Bytes(CellSize * d, l) \o B!Bytes(CellSize * d + l, n) = B!Bytes(CellSize * d, l + n)
      BY <1>3, <3>1, BytesConcat
    <3> QED
      BY <1>5, <2>2, <2>3, <3>2
  <2>5. Len(cell') = l + n /\ l + n <= CellSize
    <3>1. l + n \in Nat /\ l + n <= CellSize
      BY <1>4, MpegtsAssumption
    <3> QED
      BY <1>3, <2>4, <3>1, BytesFacts
  <2>6. Place(rd)' = CellSize * d + Len(cell')
    <3>1. Place(rd)' = (CellSize * d + l) + n
      BY <1>5, <2>2, <2>3 DEF Place
    <3>2. (CellSize * d + l) + n = CellSize * d + (l + n)
      BY <1>3
    <3> QED
      BY <2>5, <3>1, <3>2
  <2>7. ReadAt(d)'
    BY <2>4, <2>5, <2>6 DEF ReadAt
  <2>8. stage' = stage
    BY <1>5, <1>9
  <2>9. stage = "start" => DemuxAt(d)'
    BY <1>1, <1>2, DemuxSame
  <2>10. IF stage = "start" THEN rd'.size <= 0
         ELSE rd'.size = ProbeSize /\ rd'.net = Len(rd'.buf) /\ NothingHanded'
    <3>1. CASE stage = "start"
      BY <1>1, <1>5, <2>1, <3>1, ReaderNumbers DEF ReadingOK, SizeKept
    <3>2. CASE stage # "start"
      <4>1. rd.size = ProbeSize /\ rd.net = Len(rd.buf) /\ NothingHanded
        BY <1>1, <3>2 DEF ReadingOK
      <4>2. rd'.size = ProbeSize /\ rd'.net - Len(rd'.buf) = rd.net - Len(rd.buf)
        BY <1>5, <2>1, <4>1, MpegtsAssumption DEF SizeKept
      <4>3. rd'.net \in Nat /\ Len(rd'.buf) \in Nat /\ rd.net - Len(rd.buf) = 0
        BY <1>5, <1>6, <2>1, <4>1, ReaderNumbers
      <4>4. rd'.net = Len(rd'.buf)
        BY <4>2, <4>3
      <4>5. NothingHanded'
        BY <1>1, <4>1 DEF NothingHanded
      <4> QED
        BY <3>2, <4>2, <4>4, <4>5
    <3> QED
      BY <3>1, <3>2
  <2>11. ReadingOK'
    <3>1. ReaderOK(rd)' /\ rd'.net <= Len(stream') * CellSize
      <4>1. ReaderOK(rd')
        BY <1>5, <2>1
      <4> QED
        BY <1>1, <1>5, <2>1, <4>1 DEF ReaderOK
    <3>2. d \in 0 .. Len(stream')
      BY <1>1, <1>2
    <3>3. ReadAt(d)' /\ (stage' = "start" => DemuxAt(d)')
      BY <2>7, <2>8, <2>9
    <3> QED
      BY <2>8, <2>10, <3>1, <3>2, <3>3 DEF ReadingOK
  <2> QED
    BY <1>1, <2>8, <2>11 DEF MpegtsInv
<1> QED
  BY <1>8, <1>9, <1>7 DEF ReadFails, ReadGives

(* The cell that has been read is the next one of the stream. *)
LEMMA CellRead ==
  ASSUME stream \in Seq(TsCell), NEW d \in 0 .. Len(stream), ReadAt(d), Len(cell) = CellSize,
         ReaderOK(rd), rd.net <= Len(stream) * CellSize
  PROVE  /\ M!Aligned /\ M!Current = stream[d + 1] /\ d + 1 \in 1 .. Len(stream)
         /\ M!Current \in TsCell
<1>1. d \in Nat /\ Len(stream) \in Nat /\ CellSize \in Nat \ {0, 1}
  BY LenProperties, MpegtsAssumption
<1>2. PICK b \in Nat : b = CellSize * d
  BY <1>1, CellsNext
<1>3. cell = B!Bytes(b, CellSize) /\ Place(rd) = b + CellSize
  BY <1>2 DEF ReadAt
<1>4. \A i \in 1 .. CellSize : cell[i] = b + i
  <2>1. CellSize \in Nat
    BY <1>1
  <2>2. \A i \in 1 .. CellSize : B!Bytes(b, CellSize)[i] = b + i
    BY <2>1, BytesFacts
  <2> QED
    BY <1>3, <2>2
<1>5. cell[1] = b + 1 /\ cell[CellSize] = b + CellSize
  BY <1>1, <1>4
<1>6. (b + CellSize) \div CellSize = d + 1 /\ (b + 1) % CellSize = 1
  BY <1>1, <1>2, CellAligned
<1>7. M!Aligned
  <2>1. ASSUME NEW i \in 1 .. CellSize PROVE cell[i] = cell[1] + i - 1
    BY <1>4, <1>5
  <2> QED
    BY <1>5, <1>6, <2>1 DEF M!Aligned
<1>8. M!Current = stream[d + 1]
  BY <1>5, <1>6 DEF M!Current
<1>9. d + 1 <= Len(stream)
  <2>1. Place(rd) <= rd.net
    BY ReaderNumbers DEF Place
  <2>2. b + CellSize <= Len(stream) * CellSize
    <3>1. PICK m \in Int : m = Len(stream) * CellSize
      BY <1>1
    <3>2. rd.net \in Nat /\ rd.net <= m /\ b + CellSize <= rd.net
      BY <1>3, <2>1, <3>1, ReaderNumbers
    <3>3. b + CellSize <= m
      BY <1>1, <3>2
    <3> QED
      BY <3>1, <3>3
  <2> QED
    BY <1>1, <1>2, <2>2, CellsThere
<1>10. d + 1 \in 1 .. Len(stream) /\ stream[d + 1] \in TsCell
  <2>1. d + 1 \in 1 .. Len(stream)
    BY <1>1, <1>9
  <2> QED
    BY <2>1, ElementOfSeq
<1> QED
  BY <1>7, <1>8, <1>10

(* The demuxer is done with it. *)
LEMMA CellDone ==
  ASSUME NEW d \in Nat, ReadAt(d), Len(cell) = CellSize, cell' = <<>>, rd' = rd
  PROVE  ReadAt(d + 1)'
<1>1. Len(cell') = 0 /\ CellSize \in Nat \ {0} /\ d + 1 \in Nat
  BY EmptySeq, MpegtsAssumption
<1>2. PICK b \in Nat : b = CellSize * (d + 1) /\ b = CellSize * d + CellSize
  BY <1>1, CellsNext
<1>3. B!Bytes(b, 0) \in Seq(Nat) /\ Len(B!Bytes(b, 0)) = 0
  BY BytesFacts
<1>4. B!Bytes(b, 0) = <<>>
  BY <1>3, EmptySeq
<1>5. Place(rd) = b
  BY <1>2 DEF ReadAt
<1>6. Place(rd)' = b + Len(cell')
  BY <1>1, <1>5 DEF Place
<1> QED
  BY <1>1, <1>2, <1>4, <1>6 DEF ReadAt

(* While probing only the cells are counted. *)
LEMMA ParseProbe ==
  ASSUME MpegtsInv, M!Parse, stage = "probe"
  PROVE  MpegtsInv'
<1>1. /\ ReadingOK /\ Len(cell) = CellSize /\ UNCHANGED <<stream, open, rd>>
      /\ StreamOK(stream, open) /\ handed \in [M!Pids -> Seq(Seq(Piece))]
  BY DEF MpegtsInv, M!Parse
<1>2. PICK d \in 0 .. Len(stream) : ReadAt(d)
  BY <1>1 DEF ReadingOK
<1>3. /\ stream \in Seq(TsCell) /\ ReaderOK(rd) /\ rd.net <= Len(stream) * CellSize
      /\ Len(stream) \in Nat /\ d \in Nat
      /\ rd.size = ProbeSize /\ rd.net = Len(rd.buf) /\ NothingHanded
  BY <1>1, LenProperties DEF StreamOK, ReadingOK
<1>4. d + 1 \in 0 .. Len(stream)
  <2>1. d + 1 \in 1 .. Len(stream)
    BY <1>1, <1>2, <1>3, CellRead
  <2> QED
    BY <2>1
<1>5. /\ cell' = cell \/ cell' = <<>>
      /\ stage' \in {"probe", "check"} /\ handed' = handed
  BY DEF M!Parse, M!Finish, M!Fill, M!GetPacket, M!Return
<1>6. \E e \in 0 .. Len(stream') : ReadAt(e)'
  <2>1. CASE cell' = cell
    BY <1>1, <1>2, <2>1 DEF ReadAt, Place
  <2>2. CASE cell' = <<>>
    <3>1. ReadAt(d + 1)'
      BY <1>1, <1>2, <1>3, <2>2, CellDone
    <3> QED
      BY <1>1, <1>4, <3>1
  <2> QED
    BY <1>5, <2>1, <2>2
<1>7. ReadingOK'
  <2>1. ReaderOK(rd)' /\ rd'.net <= Len(stream') * CellSize
    BY <1>1, <1>3 DEF ReaderOK
  <2>2. NothingHanded'
    BY <1>3, <1>5 DEF NothingHanded
  <2>3. rd'.size = ProbeSize /\ rd'.net = Len(rd'.buf) /\ stage' # "start"
    BY <1>1, <1>3, <1>5
  <2> QED
    BY <1>6, <2>1, <2>2, <2>3 DEF ReadingOK
<1> QED
  BY <1>1, <1>5, <1>7 DEF MpegtsInv

(* Lists of cells, one behind the other. *)
LEMMA PiecesJoin ==
  ASSUME NEW a \in Seq(Piece), NEW b \in Seq(Piece), NEW c \in Seq(Piece)
  PROVE  /\ (a \o b) \o c = a \o (b \o c)
         /\ a \o b \in Seq(Piece) /\ a \o <<>> = a /\ <<>> \o a = a
  BY ConcatAssociative, ConcatProperties, ConcatEmptySeq

(* A packet that is given: all that the PES holds, or of Opus the first    *)
(* cell; what is handed on and what is still held are the same in all.     *)
LEMMA PacketGiven ==
  ASSUME stage = "start", pes \in [M!Pids -> Pes], handed \in [M!Pids -> Seq(Seq(Piece))],
         NEW p \in M!Pids, NEW held \in Seq(Piece), held # <<>>, NEW size \in Nat,
         M!GetPacket(p, held, size)
  PROVE  /\ stage' = stage
         /\ pes' \in [M!Pids -> Pes] /\ handed' \in [M!Pids -> Seq(Seq(Piece))]
         /\ \A q \in M!Pids : q # p => pes'[q] = pes[q] /\ handed'[q] = handed[q]
         /\ L!FlattenSeq(handed'[p]) \o pes'[p].payload = L!FlattenSeq(handed[p]) \o held
         /\ p # Opus => handed'[p] = Append(handed[p], held) /\ pes'[p].payload = <<>>
<1>1. PICK g, w : g = M!Given(p, held) /\ w = M!Left(p, held)
  OBVIOUS
<1>2. g \in Seq(Piece) /\ w \in Seq(Piece) /\ g \o w = held
  <2>1. CASE p = Opus
    <3>1. g = <<held[1]>> /\ w = Tail(held)
      BY <1>1, <2>1 DEF M!Given, M!Left
    <3>2. /\ held[1] \in Piece /\ Tail(held) \in Seq(Piece) /\ held = <<Head(held)>> \o Tail(held)
          /\ Head(held) = held[1]
      <4>1. Len(held) \in Nat /\ Len(held) # 0
        BY LenProperties, EmptySeq
      <4>2. held[1] \in Piece
        BY <4>1, ElementOfSeq
      <4> QED
        BY <4>2, HeadTailProperties
    <3> QED
      BY <3>1, <3>2
  <2>2. CASE p # Opus
    <3>1. g = held /\ w = <<>>
      BY <1>1, <2>2 DEF M!Given, M!Left
    <3> QED
      BY <3>1, ConcatEmptySeq, EmptySeq
  <2> QED
    BY <2>1, <2>2
<1>3. /\ pes' = [pes EXCEPT ![p] = [payload |-> w, size |-> size]]
      /\ handed' = [handed EXCEPT ![p] = Append(@, g)]
      /\ stage' = stage
  BY <1>1 DEF M!GetPacket, M!Return, M!Start
<1>4. [payload |-> w, size |-> size] \in Pes
  BY <1>2 DEF Pes
<1>5. pes' \in [M!Pids -> Pes] /\ pes'[p] = [payload |-> w, size |-> size]
      /\ \A q \in M!Pids : q # p => pes'[q] = pes[q]
  BY <1>3, <1>4
<1>6. /\ handed[p] \in Seq(Seq(Piece)) /\ Append(handed[p], g) \in Seq(Seq(Piece))
      /\ handed'[p] = Append(handed[p], g)
      /\ \A q \in M!Pids : q # p => handed'[q] = handed[q]
      /\ handed' \in [M!Pids -> Seq(Seq(Piece))]
  <2>1. handed[p] \in Seq(Seq(Piece)) /\ Append(handed[p], g) \in Seq(Seq(Piece))
    BY <1>2, AppendProperties
  <2> QED
    BY <1>3, <2>1
<1>7. L!FlattenSeq(handed'[p]) \o w = L!FlattenSeq(handed[p]) \o held
  <2>1. PICK f \in Seq(Piece) : f = L!FlattenSeq(handed[p])
    BY <1>6, <1>2, L!FlattenAppend
  <2>2. L!FlattenSeq(handed'[p]) = f \o g
    BY <1>2, <1>6, <2>1, L!FlattenAppend
  <2>3. (f \o g) \o w = f \o (g \o w)
    <3>1. f \in Seq(Piece) /\ g \in Seq(Piece) /\ w \in Seq(Piece)
      BY <1>2, <2>1
    <3> QED
      BY <3>1, PiecesJoin, SMTT(30)
  <2> QED
    BY <1>2, <2>1, <2>2, <2>3
<1>8. p # Opus => g = held /\ w = <<>>
  BY <1>1 DEF M!Given, M!Left
<1> QED
  BY <1>3, <1>5, <1>6, <1>7, <1>8

(* A PID that the cell is not of. *)
LEMMA OtherPid ==
  ASSUME stream \in Seq(TsCell), NEW d \in Nat, d + 1 <= Len(stream),
         NEW q \in M!Pids, stream[d + 1].pid # q,
         InOrder(q, d), q # Opus => PayloadOK(q, d) /\ HandedWhole(q),
         stream' = stream, pes'[q] = pes[q], handed'[q] = handed[q]
  PROVE  /\ InOrder(q, d + 1)' /\ (q # Opus => PayloadOK(q, d + 1)' /\ HandedWhole(q)')
<1>1. d + 1 \in 1 .. Len(stream) /\ Len(stream) \in Nat /\ d <= Len(stream)
  BY LenProperties
<1>2. Upto(q, d + 1) = Upto(q, d)
  <2>1. M!CellOf(q, stream[d + 1]) = <<>>
    BY DEF M!CellOf
  <2>2. Upto(q, d) \in Seq(Piece) /\ Upto(q, d) \o <<>> = Upto(q, d)
    BY <1>1, UptoStep, ConcatEmptySeq
  <2> QED
    BY <1>1, <2>1, <2>2, UptoStep
<1>3. InOrder(q, d + 1)'
  <2>1. Upto(q, d + 1)' = Upto(q, d)
    BY <1>2 DEF Upto
  <2> QED
    BY <2>1 DEF InOrder
<1>4. HandedWhole(q) => HandedWhole(q)'
  BY DEF HandedWhole
<1>5. ASSUME PayloadOK(q, d) PROVE PayloadOK(q, d + 1)'
  <2>1. NoneYet(stream, q, d + 1) => NoneYet(stream, q, d)
    BY DEF NoneYet
  <2>2. ASSUME NEW i \in 1 .. d + 1, Newest(stream, q, d + 1, i)
        PROVE  i \in 1 .. d /\ Newest(stream, q, d, i)
    <3>1. i # d + 1
      BY <2>2 DEF Newest
    <3>2. i \in 1 .. d
      BY <3>1
    <3>3. \A j \in i + 1 .. d : j \in i + 1 .. d + 1
      BY <3>2
    <3> QED
      BY <2>2, <3>2, <3>3 DEF Newest
  <2>3. \A i \in 1 .. d + 1 : Newest(stream, q, d + 1, i) => i \in 1 .. d /\ Newest(stream, q, d, i)
    BY <2>2
  <2> QED
    BY <1>5, <2>1, <2>3 DEF PayloadOK
<1> QED
  BY <1>3, <1>4, <1>5

(* There is one newest cell. *)
LEMMA NewestOne ==
  ASSUME NEW s, NEW p, NEW d \in Nat, NEW i, NEW j, Newest(s, p, d, i), Newest(s, p, d, j)
  PROVE  i = j
<1>1. i \in 1 .. d /\ j \in 1 .. d /\ s[i].pid = p /\ s[j].pid = p
  BY DEF Newest
<1>2. ~ i < j
  <2>1. i < j => j \in i + 1 .. d
    BY <1>1
  <2> QED
    BY <1>1, <2>1 DEF Newest
<1>3. ~ j < i
  <2>1. j < i => i \in j + 1 .. d
    BY <1>1
  <2> QED
    BY <1>1, <2>1 DEF Newest
<1> QED
  BY <1>1, <1>2, <1>3

(* A frame is whole when its last cell has come. *)
LEMMA HeldWhole ==
  ASSUME NEW c \in TsCell, CellOK(c), NEW held \in Seq(Piece), NEW size,
         Holds(c, held, size), c.k = c.n, held[1][1] # 0
  PROVE  M!FrameWhole(held)
<1>1. c.k \in Nat /\ 1 <= c.k /\ c.k = c.n
  BY DEF TsCell, CellOK
<1>2. Len(held) = c.k /\ \A x \in 1 .. c.k : held[x] = <<c.frame, x, c.n>>
  BY DEF Holds
<1>3. held[1][1] = c.frame
  <2>1. held[1] = <<c.frame, 1, c.n>>
    BY <1>1, <1>2
  <2> QED
    BY <2>1
<1> QED
  BY <1>1, <1>2, <1>3 DEF M!FrameWhole

(* One frame more is handed on. *)
LEMMA HandedMore ==
  ASSUME NEW p, handed[p] \in Seq(Seq(Piece)), HandedWhole(p), NEW held \in Seq(Piece),
         held[1][1] # 0 => M!FrameWhole(held), handed'[p] = Append(handed[p], held)
  PROVE  HandedWhole(p)'
<1>1. PICK h, g : h = handed[p] /\ g = handed'[p]
  OBVIOUS
<1>2. /\ Len(h) \in Nat /\ Len(g) = Len(h) + 1 /\ g[Len(h) + 1] = held
      /\ \A i \in 1 .. Len(h) : g[i] = h[i]
  BY <1>1, AppendProperties, LenProperties
<1>3. ASSUME NEW i \in 1 .. Len(g), g[i][1][1] # 0 PROVE M!FrameWhole(g[i])
  <2>1. CASE i = Len(h) + 1
    BY <1>2, <1>3, <2>1
  <2>2. CASE i # Len(h) + 1
    <3>1. i \in 1 .. Len(h)
      BY <1>2, <2>2
    <3> QED
      BY <1>1, <1>2, <1>3, <3>1 DEF HandedWhole
  <2> QED
    BY <2>1, <2>2
<1>4. HandedWhole(p)' <=> \A i \in 1 .. Len(g) : g[i][1][1] # 0 => M!FrameWhole(g[i])
  BY <1>1 DEF HandedWhole, M!FrameWhole
<1> QED
  BY <1>3, <1>4

(* A demuxer that knows the streams has a PES for each. *)
LEMMA PesKnown ==
  pes \in [M!Pids -> Pes] => pes # <<>>
<1> SUFFICES ASSUME pes \in [M!Pids -> Pes] PROVE pes # <<>>
  OBVIOUS
<1>1. DOMAIN pes = M!Pids /\ Video \in M!Pids
  BY DEF M!Pids
<1>2. DOMAIN <<>> = {}
  OBVIOUS
<1> QED
  BY <1>1, <1>2

(* The next cell of the stream and the newest one of its PID. *)
LEMMA NextCell ==
  ASSUME StreamOK(stream, open), NEW d \in Nat, d + 1 <= Len(stream), NEW p \in M!Pids,
         stream[d + 1].pid = p
  PROVE  /\ stream[d + 1] \in TsCell /\ CellOK(stream[d + 1])
         /\ \/ NoneYet(stream, p, d) /\ (stream[d + 1].k = 1 \/ stream[d + 1].frame = 0)
            \/ \E i \in 1 .. d :
                 /\ Newest(stream, p, d, i) /\ Follows(stream[i], stream[d + 1])
                 /\ stream[i] \in TsCell /\ CellOK(stream[i])
<1>1. PICK e : e = stream[d + 1]
  OBVIOUS
<1>2. d + 1 \in 1 .. Len(stream) /\ (d + 1) - 1 = d /\ Len(stream) \in Nat
      /\ stream \in Seq(TsCell)
  BY LenProperties DEF StreamOK
<1>3. e \in TsCell /\ CellOK(e) /\ Preceded(stream, d, e)
  <2>1. stream[d + 1] \in TsCell
    BY <1>2, ElementOfSeq
  <2>2. CellOK(stream[d + 1]) /\ Preceded(stream, (d + 1) - 1, stream[d + 1])
    BY <1>2 DEF StreamOK, CellsFollow
  <2> QED
    BY <1>1, <1>2, <2>1, <2>2
<1>4. ASSUME NEW i \in 1 .. d, Newest(stream, p, d, i)
      PROVE  stream[i] \in TsCell /\ CellOK(stream[i])
  <2>1. i \in 1 .. Len(stream) /\ stream[i].pid = p
    BY <1>2, <1>4 DEF Newest
  <2>2. stream[i] \in TsCell
    BY <1>2, <2>1, ElementOfSeq
  <2> QED
    BY <2>1, <2>2 DEF StreamOK, CellsFollow
<1> QED
  BY <1>1, <1>3, <1>4 DEF Preceded
(* What DemuxAt says of a PID. *)
PidAt(q, d) == InOrder(q, d) /\ (q # Opus => PayloadOK(q, d) /\ HandedWhole(q))

(* A PID that nothing is done to, by a step that looks at no cell. *)
LEMMA SamePid ==
  ASSUME NEW d, NEW q, PidAt(q, d), stream' = stream, pes'[q] = pes[q], handed'[q] = handed[q]
  PROVE  PidAt(q, d)'
  BY DEF PidAt, InOrder, Upto, PayloadOK, HandedWhole

(* The cell that begins the next frame hands on the one before it, and is  *)
(* looked at again.                                                        *)
LEMMA DemuxAgain ==
  ASSUME StreamOK(stream, open), stage = "start", handed \in [M!Pids -> Seq(Seq(Piece))],
         NEW d \in Nat, 2 <= d, d + 1 <= Len(stream), DemuxAt(d), NEW p \in M!Pids,
         stream[d + 1].pid = p, M!Again(p, stream[d + 1]), M!Finish(p), stream' = stream
  PROVE  stage' = stage /\ handed' \in [M!Pids -> Seq(Seq(Piece))] /\ DemuxAt(d)'
<1>1. /\ pes \in [M!Pids -> Pes] /\ ~ d < 2
      /\ \A q \in M!Pids : PidAt(q, d)
  BY DEF DemuxAt, PidAt
<1>2. PICK held \in Seq(Piece), size \in Nat :
        held = pes[p].payload /\ size = pes[p].size /\ held # <<>>
  <2>1. pes[p] \in Pes /\ pes[p].payload # <<>>
    BY <1>1 DEF M!Again
  <2> QED
    BY <2>1 DEF Pes
<1>3. M!GetPacket(p, held, size)
  BY <1>2 DEF M!Finish
<1>4. /\ stage' = stage
      /\ pes' \in [M!Pids -> Pes] /\ handed' \in [M!Pids -> Seq(Seq(Piece))]
      /\ \A q \in M!Pids : q # p => pes'[q] = pes[q] /\ handed'[q] = handed[q]
      /\ L!FlattenSeq(handed'[p]) \o pes'[p].payload = L!FlattenSeq(handed[p]) \o held
      /\ p # Opus => handed'[p] = Append(handed[p], held) /\ pes'[p].payload = <<>>
  BY <1>1, <1>2, <1>3, PacketGiven
<1>5. InOrder(p, d)'
  <2>1. InOrder(p, d)
    BY <1>1 DEF PidAt
  <2>2. Upto(p, d)' = Upto(p, d)
    BY DEF Upto
  <2> QED
    BY <1>2, <1>4, <2>1, <2>2 DEF InOrder
<1>6. ASSUME p # Opus PROVE PayloadOK(p, d)' /\ HandedWhole(p)'
  <2>1. PayloadOK(p, d) /\ HandedWhole(p) /\ handed[p] \in Seq(Seq(Piece))
    BY <1>1, <1>6 DEF PidAt
  <2>2. ~ NoneYet(stream, p, d)
    BY <1>2, <2>1 DEF PayloadOK
  <2>3. PICK i \in 1 .. d :
          /\ Newest(stream, p, d, i) /\ Follows(stream[i], stream[d + 1])
          /\ stream[i] \in TsCell /\ CellOK(stream[i])
    BY <2>2, NextCell
  <2>4. PICK c \in TsCell : c = stream[i] /\ CellOK(c)
    BY <2>3
  <2>5. c.k = c.n
    <3>1. stream[d + 1].k = 1
      BY DEF M!Again
    <3> QED
      BY <2>3, <2>4, <3>1 DEF Follows, CellOK, TsCell
  <2>6. Holds(c, held, size)
    BY <1>2, <2>1, <2>3, <2>4 DEF PayloadOK
  <2>7. HandedWhole(p)'
    <3>1. held[1][1] # 0 => M!FrameWhole(held)
      BY <2>4, <2>5, <2>6, HeldWhole
    <3> QED
      BY <1>4, <1>6, <2>1, <3>1, HandedMore
  <2>8. PayloadOK(p, d)'
    <3>1. \A j \in 1 .. d : Newest(stream, p, d, j) => stream[j].k = stream[j].n
      BY <2>3, <2>4, <2>5, NewestOne
    <3> QED
      BY <1>4, <1>6, <2>2, <3>1 DEF PayloadOK
  <2> QED
    BY <2>7, <2>8
<1>7. ASSUME NEW q \in M!Pids PROVE PidAt(q, d)'
  <2>1. CASE q = p
    BY <1>5, <1>6, <2>1 DEF PidAt
  <2>2. CASE q # p
    BY <1>1, <1>4, <2>2, SamePid
  <2> QED
    BY <2>1, <2>2
<1>8. DemuxAt(d)'
  BY <1>1, <1>4, <1>7 DEF DemuxAt, PidAt
<1> QED
  BY <1>4, <1>8

(* What a PES holds with the next cell. *)
LEMMA HoldsNext ==
  ASSUME StreamOK(stream, open), pes \in [M!Pids -> Pes], NEW d \in Nat, d + 1 <= Len(stream),
         NEW p \in M!Pids, PayloadOK(p, d), stream[d + 1].pid = p,
         ~ M!Again(p, stream[d + 1]),
         NEW held \in Seq(Piece), NEW e \in TsCell, e = stream[d + 1],
         held = Append(pes[p].payload, <<e.frame, e.k, e.n>>)
  PROVE  Holds(e, held, IF e.k = 1 THEN e.size ELSE pes[p].size)
<1> DEFINE piece == <<e.frame, e.k, e.n>>
<1>1. PICK was \in Seq(Piece) : was = pes[p].payload
  BY DEF Pes
<1>2. piece \in Piece
  BY DEF Piece, TsCell
<1>3. /\ Len(was) \in Nat /\ Len(held) = Len(was) + 1 /\ held[Len(was) + 1] = piece
      /\ \A x \in 1 .. Len(was) : held[x] = was[x]
  BY <1>1, <1>2, AppendProperties, LenProperties
<1>4. CellOK(e) /\ e.k \in Nat
  BY NextCell DEF TsCell
<1>5. was = <<>> => Len(held) = 1 /\ held[1] = piece
  <2>1. was = <<>> => Len(was) = 0
    BY EmptySeq
  <2> QED
    BY <1>3, <2>1
<1>6. CASE e.k = 1
  <2>1. was = <<>>
    BY <1>1, <1>6 DEF M!Again
  <2>2. Len(held) = 1 /\ held[1] = piece
    BY <1>5, <2>1
  <2>3. \A x \in 1 .. e.k : held[x] = <<e.frame, x, e.n>>
    <3>1. \A x \in 1 .. e.k : x = 1
      BY <1>6
    <3>2. held[1] = <<e.frame, 1, e.n>>
      BY <1>6, <2>2
    <3> QED
      BY <3>1, <3>2
  <2>4. held[1][1] = e.frame
    BY <2>2
  <2>5. e.frame = 0 => e.size = 0
    BY <1>4 DEF CellOK
  <2> QED
    BY <1>6, <2>2, <2>3, <2>4, <2>5 DEF Holds
<1>7. CASE e.k # 1
  <2>1. CASE NoneYet(stream, p, d) /\ e.frame = 0
    <3>1. was = <<>> /\ pes[p].size = 0
      BY <1>1, <2>1 DEF PayloadOK
    <3>2. held[1][1] = 0
      BY <1>5, <2>1, <3>1
    <3> QED
      BY <1>7, <2>1, <3>1, <3>2 DEF Holds
  <2>2. CASE \E i \in 1 .. d :
               /\ Newest(stream, p, d, i) /\ Follows(stream[i], stream[d + 1])
               /\ stream[i] \in TsCell /\ CellOK(stream[i])
    <3>1. PICK i \in 1 .. d :
            /\ Newest(stream, p, d, i) /\ Follows(stream[i], stream[d + 1])
            /\ stream[i] \in TsCell /\ CellOK(stream[i])
      BY <2>2
    <3>2. PICK c \in TsCell : c = stream[i]
      BY <3>1
    <3>3. /\ c.k < c.n /\ e.frame = c.frame /\ e.k = c.k + 1 /\ e.n = c.n /\ e.size = c.size
          /\ c.k \in Nat /\ 1 <= c.k
      BY <1>7, <3>1, <3>2 DEF Follows, CellOK, TsCell
    <3>4. was # <<>> /\ Holds(c, was, pes[p].size)
      <4>1. IF was = <<>> THEN c.k = c.n ELSE Holds(c, was, pes[p].size)
        BY <1>1, <3>1, <3>2 DEF PayloadOK
      <4>2. c.k # c.n
        BY <3>3 DEF TsCell
      <4> QED
        BY <4>1, <4>2
    <3>5. CASE c.frame = 0
      <4>1. pes[p].size = 0 /\ was[1][1] = 0
        BY <3>4, <3>5 DEF Holds
      <4>2. held[1] = was[1]
        <5>1. Len(was) # 0
          BY <3>4, EmptySeq
        <5>2. 1 \in 1 .. Len(was)
          BY <1>3, <5>1
        <5> QED
          BY <1>3, <5>2
      <4> QED
        BY <1>7, <3>3, <3>5, <4>1, <4>2 DEF Holds
    <3>6. CASE c.frame # 0
      <4>1. /\ Len(was) = c.k /\ pes[p].size = c.size
            /\ \A x \in 1 .. c.k : was[x] = <<c.frame, x, c.n>>
        BY <3>4, <3>6 DEF Holds
      <4>2. Len(held) = e.k /\ held[e.k] = piece
        BY <1>3, <3>3, <4>1
      <4>3. ASSUME NEW x \in 1 .. e.k PROVE held[x] = <<e.frame, x, e.n>>
        <5>1. CASE x = e.k
          BY <4>2, <5>1
        <5>2. CASE x # e.k
          <6>1. x \in 1 .. c.k
            BY <3>3, <5>2
          <6> QED
            BY <1>3, <3>3, <4>1, <6>1
        <5> QED
          BY <5>1, <5>2
      <4> QED
        BY <1>7, <3>3, <3>6, <4>1, <4>2, <4>3 DEF Holds
    <3> QED
      BY <3>5, <3>6
  <2> QED
    BY <1>7, <2>1, <2>2, NextCell
<1> QED
  BY <1>6, <1>7
(* A cell in the middle of a frame, or the first one of a frame when       *)
(* nothing is held: it is kept, and what it completes is handed on.        *)
LEMMA DemuxFill ==
  ASSUME StreamOK(stream, open), stage = "start", handed \in [M!Pids -> Seq(Seq(Piece))],
         NEW d \in Nat, 2 <= d, d + 1 <= Len(stream), DemuxAt(d), NEW p \in M!Pids,
         stream[d + 1].pid = p, ~ M!Again(p, stream[d + 1]), M!Fill(p, stream[d + 1]),
         stream' = stream
  PROVE  stage' = stage /\ handed' \in [M!Pids -> Seq(Seq(Piece))] /\ DemuxAt(d + 1)'
<1>1. /\ pes \in [M!Pids -> Pes] /\ ~ d + 1 < 2 /\ stream \in Seq(TsCell)
      /\ \A q \in M!Pids : InOrder(q, d) /\ (q # Opus => PayloadOK(q, d) /\ HandedWhole(q))
  BY DEF DemuxAt, StreamOK
<1>2. PICK e \in TsCell : e = stream[d + 1] /\ CellOK(e)
  BY NextCell
<1>3. PICK was \in Seq(Piece), had \in Nat : was = pes[p].payload /\ had = pes[p].size
  <2>1. pes[p] \in Pes
    BY <1>1
  <2> QED
    BY <2>1 DEF Pes
<1>4. PICK piece \in Piece : piece = <<e.frame, e.k, e.n>>
  BY DEF Piece, TsCell
<1>5. PICK size \in Nat : size = IF e.k = 1 THEN e.size ELSE had
  BY DEF TsCell
<1>6. PICK held \in Seq(Piece) : held = Append(was, piece) /\ held # <<>>
  <2>1. PICK h : h = Append(was, piece)
    OBVIOUS
  <2>2. h \in Seq(Piece) /\ Len(h) = Len(was) + 1 /\ Len(was) \in Nat
    BY <2>1, AppendProperties, LenProperties
  <2>3. h # <<>>
    BY <2>2, EmptySeq
  <2> QED
    BY <2>1, <2>2, <2>3
<1>7. IF size # 0 /\ Len(held) >= size
      THEN M!GetPacket(p, held, size)
      ELSE /\ pes' = [pes EXCEPT ![p] = [payload |-> held, size |-> size]]
           /\ UNCHANGED <<stage, wait, handed>>
  <2>1. held = Append(IF e.k = 1 THEN <<>> ELSE was, <<e.frame, e.k, e.n>>)
    <3>1. e.k = 1 => was = <<>>
      BY <1>2, <1>3 DEF M!Again
    <3> QED
      BY <1>4, <1>6, <3>1
  <2> QED
    BY <1>2, <1>3, <1>5, <2>1 DEF M!Fill
<1>8. /\ stage' = stage
      /\ pes' \in [M!Pids -> Pes] /\ handed' \in [M!Pids -> Seq(Seq(Piece))]
      /\ \A q \in M!Pids : q # p => pes'[q] = pes[q] /\ handed'[q] = handed[q]
      /\ L!FlattenSeq(handed'[p]) \o pes'[p].payload = L!FlattenSeq(handed[p]) \o held
      /\ p # Opus =>
           \/ /\ size # 0 /\ Len(held) >= size
              /\ handed'[p] = Append(handed[p], held) /\ pes'[p].payload = <<>>
           \/ /\ handed'[p] = handed[p]
              /\ pes'[p].payload = held /\ pes'[p].size = size
  <2>1. CASE size # 0 /\ Len(held) >= size
    <3>1. M!GetPacket(p, held, size)
      BY <1>7, <2>1
    <3> QED
      BY <1>1, <1>6, <2>1, <3>1, PacketGiven
  <2>2. CASE ~ (size # 0 /\ Len(held) >= size)
    <3>1. /\ pes' = [pes EXCEPT ![p] = [payload |-> held, size |-> size]]
          /\ stage' = stage /\ handed' = handed
      BY <1>7, <2>2
    <3>2. [payload |-> held, size |-> size] \in Pes
      BY DEF Pes
    <3>3. /\ pes' \in [M!Pids -> Pes] /\ pes'[p] = [payload |-> held, size |-> size]
          /\ \A q \in M!Pids : q # p => pes'[q] = pes[q]
      BY <1>1, <3>1, <3>2
    <3>4. pes'[p].payload = held /\ pes'[p].size = size
      BY <3>3
    <3> QED
      BY <3>1, <3>3, <3>4
  <2> QED
    BY <2>1, <2>2
<1>9. InOrder(p, d + 1)'
  <2>1. M!CellOf(p, e) = <<piece>>
    BY <1>2, <1>4 DEF M!CellOf
  <2>2. Upto(p, d + 1) = Upto(p, d) \o <<piece>>
    BY <1>1, <1>2, <2>1, UptoStep
  <2>3. Upto(p, d) = L!FlattenSeq(handed[p]) \o was
    BY <1>1, <1>3 DEF InOrder
  <2>4. held = was \o <<piece>> /\ <<piece>> \in Seq(Piece)
    BY <1>6, AppendIsConcat
  <2>5. PICK f \in Seq(Piece) : f = L!FlattenSeq(handed[p])
    <3>1. handed[p] \in Seq(Seq(Piece)) /\ <<>> \in Seq(Piece)
      BY EmptySeq
    <3> QED
      BY <3>1, L!FlattenAppend
  <2>6. (f \o was) \o <<piece>> = f \o (was \o <<piece>>)
    <3>1. PICK one \in Seq(Piece) : one = <<piece>>
      BY <2>4
    <3> QED
      BY <3>1, PiecesJoin, SMTT(30)
  <2>7. Upto(p, d + 1) = L!FlattenSeq(handed[p]) \o held
    BY <2>2, <2>3, <2>4, <2>5, <2>6
  <2>8. Upto(p, d + 1)' = Upto(p, d + 1)
    BY DEF Upto
  <2> QED
    BY <1>8, <2>7, <2>8 DEF InOrder
<1>10. ASSUME p # Opus PROVE PayloadOK(p, d + 1)' /\ HandedWhole(p)'
  <2>1. PayloadOK(p, d) /\ HandedWhole(p) /\ handed[p] \in Seq(Seq(Piece))
    BY <1>1, <1>10
  <2>2. Holds(e, held, size)
    <3>1. held = Append(pes[p].payload, <<e.frame, e.k, e.n>>)
      BY <1>3, <1>4, <1>6
    <3>2. Holds(e, held, IF e.k = 1 THEN e.size ELSE pes[p].size)
      BY <1>1, <1>2, <2>1, <3>1, HoldsNext
    <3> QED
      BY <1>3, <1>5, <3>2
  <2>3. /\ d + 1 \in 1 .. d + 1 /\ Newest(stream, p, d + 1, d + 1)
        /\ ~ NoneYet(stream, p, d + 1)
    BY DEF Newest, NoneYet
  <2>4. \A i \in 1 .. d + 1 : Newest(stream, p, d + 1, i) => stream[i] = e
    BY <1>2, <2>3, NewestOne
  <2>5. CASE /\ size # 0 /\ Len(held) >= size
             /\ handed'[p] = Append(handed[p], held) /\ pes'[p].payload = <<>>
    <3>1. e.k = e.n
      <4>1. e.frame # 0 /\ Len(held) = e.k /\ size = e.size
        BY <2>2, <2>5 DEF Holds
      <4>2. e.size = e.n
        BY <1>2, <2>5, <4>1 DEF CellOK
      <4> QED
        BY <1>2, <2>5, <4>1, <4>2 DEF CellOK, TsCell
    <3>2. HandedWhole(p)'
      <4>1. held[1][1] # 0 => M!FrameWhole(held)
        BY <1>2, <2>2, <3>1, HeldWhole
      <4> QED
        BY <2>1, <2>5, <4>1, HandedMore
    <3>3. PayloadOK(p, d + 1)'
      BY <2>3, <2>4, <2>5, <3>1 DEF PayloadOK
    <3> QED
      BY <3>2, <3>3
  <2>6. CASE handed'[p] = handed[p] /\ pes'[p].payload = held /\ pes'[p].size = size
    <3>1. HandedWhole(p)'
      BY <2>1, <2>6 DEF HandedWhole
    <3>2. PayloadOK(p, d + 1)'
      BY <1>6, <2>2, <2>3, <2>4, <2>6 DEF PayloadOK
    <3> QED
      BY <3>1, <3>2
  <2> QED
    BY <1>8, <1>10, <2>5, <2>6
<1>11. ASSUME NEW q \in M!Pids
       PROVE  InOrder(q, d + 1)' /\ (q # Opus => PayloadOK(q, d + 1)' /\ HandedWhole(q)')
  <2>1. CASE q = p
    BY <1>9, <1>10, <2>1
  <2>2. CASE q # p
    BY <1>1, <1>8, <2>2, OtherPid
  <2> QED
    BY <2>1, <2>2
<1>12. DemuxAt(d + 1)'
  BY <1>1, <1>8, <1>11 DEF DemuxAt
<1> QED
  BY <1>8, <1>12

(* The second cell has the table of the streams: nothing is held yet. *)
LEMMA DemuxTables ==
  ASSUME StreamOK(stream, open), stage = "start", handed \in [M!Pids -> Seq(Seq(Piece))],
         NEW d \in Nat, d + 1 <= Len(stream), DemuxAt(d), pes = <<>>,
         stream[d + 1].pid = "PMT", M!readPMT, M!Return("Metadata", <<>>), stream' = stream
  PROVE  stage' = stage /\ handed' \in [M!Pids -> Seq(Seq(Piece))] /\ DemuxAt(d + 1)'
<1>1. d < 2
  BY PesKnown DEF DemuxAt
<1>2. stream \in Seq(TsCell) /\ stream[1].pid = "PAT" /\ stream[2].pid = "PMT" /\ Len(stream) >= 2
  BY DEF StreamOK
<1>3. d = 1
  <2>1. d # 0
    BY <1>2
  <2> QED
    BY <1>1, <2>1
<1>4. NothingHanded
  BY <1>1 DEF DemuxAt
<1>5. stage' = stage /\ handed' = handed
  BY Tables DEF M!Return, M!Start
<1>6. /\ pes' \in [M!Pids -> Pes]
      /\ \A q \in M!Pids : pes'[q].payload = <<>> /\ pes'[q].size = 0
  <2>1. [payload |-> <<>>, size |-> 0] \in Pes
    BY EmptySeq DEF Pes
  <2>2. pes' = [q \in M!Pids |-> [payload |-> <<>>, size |-> 0]]
    BY DEF M!readPMT
  <2>3. pes' \in [M!Pids -> Pes]
    BY <2>1, <2>2
  <2> QED
    BY <2>2, <2>3
<1>7. \A j \in 1 .. 2 : stream[j].pid \notin M!Pids
  <2>1. \A j \in 1 .. 2 : j = 1 \/ j = 2
    OBVIOUS
  <2> QED
    BY <1>2, <2>1, Tables
<1>8. ASSUME NEW q \in M!Pids
      PROVE  InOrder(q, 2)' /\ PayloadOK(q, 2)' /\ HandedWhole(q)'
  <2>1. Upto(q, 2) = <<>>
    <3>1. M!CellOf(q, stream[1]) = <<>> /\ M!CellOf(q, stream[2]) = <<>>
      BY <1>7 DEF M!CellOf
    <3>2. Upto(q, 0) = <<>> /\ Upto(q, 1) = Upto(q, 0) \o <<>>
      <4>1. 0 + 1 <= Len(stream) /\ 0 + 1 = 1 /\ 0 \in Nat
        BY <1>2, LenProperties
      <4> QED
        BY <1>2, <3>1, <4>1, UptoStep
    <3>3. Upto(q, 2) = Upto(q, 1) \o <<>>
      <4>1. 1 + 1 <= Len(stream) /\ 1 + 1 = 2 /\ 1 \in Nat
        BY <1>2, LenProperties
      <4> QED
        BY <1>2, <3>1, <4>1, UptoStep
    <3>4. <<>> \in Seq(Piece)
      BY EmptySeq
    <3> QED
      BY <3>2, <3>3, <3>4, PiecesJoin
  <2>2. handed'[q] = <<>>
    BY <1>4, <1>5 DEF NothingHanded
  <2>3. InOrder(q, 2)'
    <3>1. Upto(q, 2)' = <<>>
      BY <2>1 DEF Upto
    <3>2. L!FlattenSeq(<<>>) = <<>> /\ <<>> \in Seq(Piece)
      BY L!FlattenEmpty, EmptySeq
    <3>3. L!FlattenSeq(<<>>) \o <<>> = <<>>
      BY <3>2, PiecesJoin
    <3> QED
      BY <1>6, <2>2, <3>1, <3>3 DEF InOrder
  <2>4. PayloadOK(q, 2)'
    <3>1. ASSUME NEW i \in 1 .. 2, Newest(stream, q, 2, i) PROVE FALSE
      BY <1>7, <3>1 DEF Newest
    <3> QED
      BY <1>6, <3>1 DEF PayloadOK
  <2>5. HandedWhole(q)'
    <3>1. Len(handed'[q]) = 0
      BY <2>2, EmptySeq
    <3>2. \A i \in 1 .. Len(handed'[q]) : FALSE
      BY <3>1
    <3> QED
      BY <3>2 DEF HandedWhole
  <2> QED
    BY <2>3, <2>4, <2>5
<1>9. DemuxAt(2)'
  BY <1>6, <1>8 DEF DemuxAt
<1> QED
  BY <1>3, <1>5, <1>9

(* A table that is passed over. *)
LEMMA DemuxOther ==
  ASSUME StreamOK(stream, open), NEW d \in Nat, d + 1 <= Len(stream), DemuxAt(d),
         IF pes = <<>> THEN ~ (stream[d + 1].pid = "PMT" /\ pat = TRUE)
         ELSE stream[d + 1].pid \notin M!Pids,
         M!readPAT(stream[d + 1]), UNCHANGED <<stream, pes, handed>>
  PROVE  DemuxAt(d + 1)'
<1>1. stream \in Seq(TsCell) /\ stream[1].pid = "PAT" /\ stream[2].pid = "PMT"
  BY DEF StreamOK
<1>2. CASE d < 2
  <2>1. pes = <<>> /\ NothingHanded /\ (d = 1 => pat = TRUE)
    BY <1>2 DEF DemuxAt
  <2>2. d = 0
    <3>1. d # 1
      BY <1>1, <2>1
    <3> QED
      BY <1>2, <3>1
  <2>3. pat' = TRUE
    <3>1. PICK c : c = stream[d + 1] /\ c.pid = "PAT"
      BY <1>1, <2>2
    <3>2. pat' = (pat = TRUE \/ (c.pid = "PAT" /\ pes = <<>>))
      BY <3>1 DEF M!readPAT
    <3> QED
      BY <2>1, <3>1, <3>2
  <2> QED
    BY <2>1, <2>2, <2>3 DEF DemuxAt, NothingHanded
<1>3. CASE ~ d < 2
  <2>1. /\ pes \in [M!Pids -> Pes] /\ ~ d + 1 < 2
        /\ \A q \in M!Pids : InOrder(q, d) /\ (q # Opus => PayloadOK(q, d) /\ HandedWhole(q))
    BY <1>3 DEF DemuxAt
  <2>2. stream[d + 1].pid \notin M!Pids
    BY <2>1, PesKnown
  <2>3. ASSUME NEW q \in M!Pids
        PROVE  InOrder(q, d + 1)' /\ (q # Opus => PayloadOK(q, d + 1)' /\ HandedWhole(q)')
    BY <1>1, <2>1, <2>2, OtherPid
  <2> QED
    BY <2>1, <2>3 DEF DemuxAt
<1> QED
  BY <1>2, <1>3
(* A cell that Start's demuxer looks at. *)
LEMMA ParseStart ==
  ASSUME MpegtsInv, M!Parse, stage = "start"
  PROVE  MpegtsInv'
<1>1. /\ ReadingOK /\ Len(cell) = CellSize /\ UNCHANGED <<stream, open, rd>>
      /\ StreamOK(stream, open) /\ handed \in [M!Pids -> Seq(Seq(Piece))]
  BY DEF MpegtsInv, M!Parse
<1>2. PICK d \in 0 .. Len(stream) : ReadAt(d) /\ DemuxAt(d)
  BY <1>1 DEF ReadingOK
<1>3. /\ stream \in Seq(TsCell) /\ ReaderOK(rd) /\ rd.net <= Len(stream) * CellSize
      /\ Len(stream) \in Nat /\ d \in Nat /\ rd.size <= 0
  BY <1>1, LenProperties DEF StreamOK, ReadingOK
<1>4. M!Current = stream[d + 1] /\ d + 1 \in 1 .. Len(stream)
  BY <1>1, <1>2, <1>3, CellRead
<1>5. d + 1 <= Len(stream) /\ d + 1 \in 0 .. Len(stream)
  BY <1>3, <1>4
<1>6. \/ cell' = cell /\ stage' = "start" /\ handed' \in [M!Pids -> Seq(Seq(Piece))] /\ DemuxAt(d)'
      \/ cell' = <<>> /\ stage' = "start" /\ handed' \in [M!Pids -> Seq(Seq(Piece))] /\ DemuxAt(d + 1)'
  <2>1. PICK c : c = stream[d + 1]
    OBVIOUS
  <2>2. CASE pes # <<>> /\ c.pid \in M!Pids
    <3>1. 2 <= d
      BY <1>2, <2>2, <1>3 DEF DemuxAt
    <3>2. PICK p \in M!Pids : p = c.pid
      BY <2>2
    <3>3. p # "PMT"
      BY <3>2, Tables
    <3>4. \/ M!Again(p, c) /\ M!Finish(p) /\ cell' = cell
          \/ ~ M!Again(p, c) /\ M!Fill(p, c) /\ cell' = <<>>
      BY <1>4, <2>1, <2>2, <3>2 DEF M!Parse
    <3>5. CASE M!Again(p, c) /\ M!Finish(p) /\ cell' = cell
      <4>1. stage' = stage /\ handed' \in [M!Pids -> Seq(Seq(Piece))] /\ DemuxAt(d)'
        BY <1>1, <1>2, <1>3, <1>5, <2>1, <3>1, <3>2, <3>5, DemuxAgain
      <4> QED
        BY <3>5, <4>1
    <3>6. CASE ~ M!Again(p, c) /\ M!Fill(p, c) /\ cell' = <<>>
      <4>1. stage' = stage /\ handed' \in [M!Pids -> Seq(Seq(Piece))] /\ DemuxAt(d + 1)'
        BY <1>1, <1>2, <1>3, <1>5, <2>1, <3>1, <3>2, <3>6, DemuxFill
      <4> QED
        BY <3>6, <4>1
    <3> QED
      BY <3>4, <3>5, <3>6
  <2>3. CASE pes = <<>> /\ c.pid = "PMT" /\ pat = TRUE
    <3>1. M!readPMT /\ M!Return("Metadata", <<>>) /\ cell' = <<>>
      BY <1>4, <2>1, <2>3 DEF M!Parse, M!Metadata
    <3>2. stage' = stage /\ handed' \in [M!Pids -> Seq(Seq(Piece))] /\ DemuxAt(d + 1)'
      BY <1>1, <1>2, <1>3, <1>5, <2>1, <2>3, <3>1, DemuxTables
    <3> QED
      BY <3>1, <3>2
  <2>4. CASE IF pes = <<>> THEN ~ (c.pid = "PMT" /\ pat = TRUE) ELSE c.pid \notin M!Pids
    <3>1. M!readPAT(c) /\ cell' = <<>> /\ UNCHANGED <<stage, pes, handed>>
      BY <1>4, <2>1, <2>4 DEF M!Parse
    <3>2. DemuxAt(d + 1)'
      BY <1>1, <1>2, <1>3, <1>5, <2>1, <2>4, <3>1, DemuxOther
    <3> QED
      BY <1>1, <3>1, <3>2
  <2> QED
    BY <2>2, <2>3, <2>4
<1>7. ReaderOK(rd)' /\ rd'.net <= Len(stream') * CellSize /\ rd'.size <= 0
  BY <1>1, <1>3 DEF ReaderOK
<1>8. CASE cell' = cell /\ stage' = "start" /\ handed' \in [M!Pids -> Seq(Seq(Piece))] /\ DemuxAt(d)'
  <2>1. ReadAt(d)'
    BY <1>1, <1>2, <1>8 DEF ReadAt, Place
  <2>2. ReadingOK'
    BY <1>1, <1>7, <1>8, <2>1 DEF ReadingOK
  <2> QED
    BY <1>1, <1>8, <2>2 DEF MpegtsInv
<1>9. CASE cell' = <<>> /\ stage' = "start" /\ handed' \in [M!Pids -> Seq(Seq(Piece))] /\ DemuxAt(d + 1)'
  <2>1. ReadAt(d + 1)'
    BY <1>1, <1>2, <1>3, <1>9, CellDone
  <2>2. ReadingOK'
    BY <1>1, <1>5, <1>7, <1>9, <2>1 DEF ReadingOK
  <2> QED
    BY <1>1, <1>9, <2>2 DEF MpegtsInv
<1> QED
  BY <1>6, <1>8, <1>9

(* Every step of the source keeps what is read and handed on in order. *)
LEMMA MpegtsStep == MpegtsInv /\ [M!Next]_mpegtsVars => MpegtsInv'
<1> SUFFICES ASSUME MpegtsInv, [M!Next]_mpegtsVars PROVE MpegtsInv'
  OBVIOUS
<1>1. CASE UNCHANGED mpegtsVars
  BY <1>1, ZenonT(60) DEF mpegtsVars, MpegtsInv, M!NoDemuxer, ReadingOK, NothingHanded, ReadAt, Place,
              ReaderOK, DemuxAt, InOrder, Upto, PayloadOK, HandedWhole
<1>2. CASE M!Repeat \/ M!WritePES
  BY <1>2, StreamSent
<1>3. CASE M!Open
  BY <1>3, OpenStep
<1>4. CASE M!ProbeMore
  BY <1>4, ProbeMoreStep
<1>5. CASE M!Probed
  BY <1>5, ProbedStep
<1>6. CASE M!ReadCell
  BY <1>6, ReadCellStep
<1>7. CASE M!Parse
  <2>1. stage \in {"probe", "start"}
    BY <1>7 DEF M!Parse
  <2> QED
    BY <1>7, <2>1, ParseProbe, ParseStart
<1> QED
  BY <1>1, <1>2, <1>3, <1>4, <1>5, <1>6, <1>7 DEF M!Next

(* What FramesWhole says of a PID, before all has been read. *)
PidFrames(p) ==
  /\ M!IsPrefix(M!FlattenSeq(handed[p]), M!CellsOf(p))
  /\ p # Opus => HandedWhole(p)

(* Nothing is the beginning of every stream. *)
LEMMA NoFrames ==
  ASSUME stream \in Seq(TsCell), NothingHanded, NEW p \in M!Pids
  PROVE  PidFrames(p)
<1>1. handed[p] = <<>> /\ Len(handed[p]) = 0
  BY EmptySeq DEF NothingHanded
<1>2. PICK u \in Seq(Piece) : u = Upto(p, Len(stream))
  BY LenProperties, UptoStep
<1>3. M!IsPrefix(<<>>, u)
  <2>1. PICK z \in Seq(Piece) : z = <<>>
    BY EmptySeq
  <2>2. z \o u = u
    BY <2>1, PiecesJoin
  <2> QED
    BY <2>1, <2>2, PrefixOf
<1>4. M!FlattenSeq(handed[p]) = <<>>
  BY <1>1, SameFlatten, L!FlattenEmpty
<1>5. HandedWhole(p)
  BY <1>1 DEF HandedWhole
<1> QED
  BY <1>2, <1>3, <1>4, <1>5, AllCells DEF PidFrames

(* What has been handed on is in order and whole. *)
LEMMA FramesHanded ==
  ASSUME stream \in Seq(TsCell), NEW d \in 0 .. Len(stream), DemuxAt(d),
         handed \in [M!Pids -> Seq(Seq(Piece))], NEW p \in M!Pids
  PROVE  PidFrames(p)
<1>1. CASE d < 2
  BY <1>1, NoFrames DEF DemuxAt
<1>2. CASE ~ d < 2
  <2>1. pes \in [M!Pids -> Pes] /\ InOrder(p, d) /\ (p # Opus => HandedWhole(p))
    BY <1>2 DEF DemuxAt
  <2>2. PICK f \in Seq(Piece) : f = L!FlattenSeq(handed[p])
    <3>1. handed[p] \in Seq(Seq(Piece)) /\ <<>> \in Seq(Piece)
      BY EmptySeq
    <3> QED
      BY <3>1, L!FlattenAppend
  <2>3. PICK held \in Seq(Piece) : held = pes[p].payload
    BY <2>1 DEF Pes
  <2>4. PICK t \in Seq(Piece) : M!CellsOf(p) = Upto(p, d) \o t
    BY UptoPrefix
  <2>5. M!CellsOf(p) = f \o (held \o t) /\ held \o t \in Seq(Piece)
    <3>1. Upto(p, d) = f \o held
      BY <2>1, <2>2, <2>3 DEF InOrder
    <3> QED
      BY <2>4, <3>1, PiecesJoin, SMTT(30)
  <2>6. M!IsPrefix(f, f \o (held \o t))
    BY <2>5, PrefixOf
  <2>7. M!IsPrefix(M!FlattenSeq(handed[p]), M!CellsOf(p))
    BY <2>2, <2>5, <2>6, SameFlatten
  <2> QED
    BY <2>1, <2>7 DEF PidFrames
<1> QED
  BY <1>1, <1>2

(* At the end of the stream all of it has been given, or is still held. *)
LEMMA FramesEnd ==
  ASSUME StreamOK(stream, open), ReadingOK, stage = "start", cell = <<>>,
         rd.net = Len(stream) * CellSize, rd.pos = Len(rd.buf)
  PROVE  pes # <<>> /\ \A p \in M!Pids : M!FlattenSeq(handed[p]) \o pes[p].payload = M!CellsOf(p)
<1>1. Len(stream) \in Nat /\ Len(stream) >= 2
  BY LenProperties DEF StreamOK
<1>2. PICK d \in 0 .. Len(stream) : ReadAt(d) /\ DemuxAt(d)
  BY DEF ReadingOK
<1>3. d = Len(stream)
  <2>1. PICK m \in Nat : m = CellSize * d
    BY <1>1, CellsNext
  <2>2. Place(rd) = m + Len(cell) /\ Len(cell) = 0
    BY <1>2, <2>1, EmptySeq DEF ReadAt
  <2>3. Place(rd) = rd.net
    <3>1. ReaderOK(rd)
      BY DEF ReadingOK
    <3>2. rd.net \in Nat /\ Len(rd.buf) \in Nat
      BY <3>1, ReaderNumbers
    <3> QED
      BY <3>2 DEF Place
  <2>4. CellSize * d = Len(stream) * CellSize
    BY <2>1, <2>2, <2>3
  <2>5. d \in Nat
    BY <1>1
  <2> QED
    BY <1>1, <2>4, <2>5, CellsThere
<1>4. pes \in [M!Pids -> Pes] /\ \A p \in M!Pids : InOrder(p, d)
  BY <1>1, <1>2, <1>3 DEF DemuxAt
<1>5. \A p \in M!Pids : M!CellsOf(p) = Upto(p, d)
  BY <1>3, AllCells DEF StreamOK
<1> QED
  BY <1>4, <1>5, PesKnown, SameFlatten DEF InOrder

(* The invariant says what FramesWhole does. *)
LEMMA MpegtsFrames == MpegtsInv => M!FramesWhole
<1> SUFFICES ASSUME MpegtsInv PROVE M!FramesWhole
  OBVIOUS
<1>1. StreamOK(stream, open) /\ stream \in Seq(TsCell) /\ handed \in [M!Pids -> Seq(Seq(Piece))]
  BY DEF MpegtsInv, StreamOK
<1>2. CASE stage = "send" /\ cell = <<>> /\ NothingHanded
  <2>1. Len(cell) # CellSize
    BY <1>2, EmptySeq, MpegtsAssumption
  <2>2. \A p \in M!Pids : PidFrames(p)
    BY <1>1, <1>2, NoFrames
  <2> QED
    BY <1>2, <2>1, <2>2 DEF M!FramesWhole, PidFrames, HandedWhole
<1>3. CASE stage = "failed" /\ rd.net > ProbeSize /\ Len(cell) < CellSize /\ NothingHanded
  <2>1. Len(cell) # CellSize
    BY <1>3, MpegtsAssumption
  <2>2. \A p \in M!Pids : PidFrames(p)
    BY <1>1, <1>3, NoFrames
  <2> QED
    BY <1>3, <2>1, <2>2 DEF M!FramesWhole, PidFrames, HandedWhole
<1>4. CASE stage \in {"check", "probe", "start"} /\ ReadingOK
  <2>1. PICK d \in 0 .. Len(stream) : ReadAt(d) /\ (stage = "start" => DemuxAt(d))
    BY <1>4 DEF ReadingOK
  <2>2. Len(cell) = CellSize => M!Aligned
    <3>1. ReaderOK(rd) /\ rd.net <= Len(stream) * CellSize
      BY <1>4 DEF ReadingOK
    <3> QED
      BY <1>1, <2>1, <3>1, CellRead
  <2>3. ASSUME NEW p \in M!Pids PROVE PidFrames(p)
    <3>1. CASE stage = "start"
      BY <1>1, <2>1, <3>1, FramesHanded
    <3>2. CASE stage # "start"
      BY <1>1, <1>4, <3>2, NoFrames DEF ReadingOK
    <3> QED
      BY <3>1, <3>2
  <2>4. stage = "start" /\ rd.net = Len(stream) * CellSize /\ rd.pos = Len(rd.buf) /\ cell = <<>> =>
          pes # <<>> /\ \A p \in M!Pids : M!FlattenSeq(handed[p]) \o pes[p].payload = M!CellsOf(p)
    BY <1>1, <1>4, FramesEnd
  <2> QED
    BY <1>4, <2>2, <2>3, <2>4 DEF M!FramesWhole, PidFrames, HandedWhole
<1> QED
  BY <1>2, <1>3, <1>4 DEF MpegtsInv, M!NoDemuxer

(* mpegts/producer.go, demuxer.go, core/readbuffer.go: Start hands on the  *)
(* frames of a stream, from the first after the tables and each of them    *)
(* whole, whatever the probe has read of them and however the network cut  *)
(* the bytes.                                                              *)
THEOREM MpegtsFramesSafe == MediaSpec => []M!FramesWhole
<1>1. MpegtsMove => []MpegtsInv
  BY MpegtsInit, MpegtsStep, PTL DEF MpegtsMove
<1> QED
  BY <1>1, MpegtsMoves, MpegtsFrames, PTL
-----------------------------------------------------------------------------
(* Dvrip *)

(* What the run does to a DVRIP camera. *)
DvripMove == D!Init /\ [][D!Next]_dvripVars

(* The run's other parts leave the camera alone. *)
LEMMA DvripMoves == MediaSpec => DvripMove
<1>1. MediaInit => D!Init
  BY DEF MediaInit
<1>2. [MediaNext]_mediaVars => [D!Next]_dvripVars
  BY DEF MediaNext, mediaVars, dvripVars
<1> QED
  BY <1>1, <1>2, PTL DEF MediaSpec, DvripMove

Mark == Nat \X Nat
DvripPacket == {k \in [kind : D!PacketKinds, size : 1 .. 3] :
                  k.size \in D!Header(k.kind) .. D!Header(k.kind) + 1}
Bundle == Nat \X Seq(Mark)
Tracks == {"video", "audio"}

(* The units of the packets ps follow one another; <<0, 0>> is before the  *)
(* first of them.                                                          *)
Before == <<0, 0>>
UnitOf(ps, c) == c[1] \in 1 .. Len(ps) /\ c[2] \in 1 .. ps[c[1]].size
After(ps, c) ==
  IF c[1] # 0 /\ c[2] < ps[c[1]].size THEN <<c[1], c[2] + 1>> ELSE <<c[1] + 1, 1>>
EndOf(ps, i) == IF i = 0 THEN Before ELSE <<i, ps[i].size>>

(* The units q follow c, and the last of both. *)
Chained(ps, c, q) ==
  \A x \in 1 .. Len(q) :
    UnitOf(ps, q[x]) /\ q[x] = After(ps, IF x = 1 THEN c ELSE q[x - 1])
LastOf(c, q) == IF q = <<>> THEN c ELSE q[Len(q)]

(* The last unit among the first m marks; there is one before every header *)
(* but the first.                                                          *)
LastUnit(ms, m) ==
  IF m < 2 THEN Before ELSE IF D!IsHeader(ms[m]) THEN ms[m - 1] ELSE ms[m]

(* The marks are chunks, and the units of them follow one another. *)
Boundary(ms, m) == m \in 0 .. Len(ms) /\ (m < Len(ms) => D!IsHeader(ms[m + 1]))
Chunk(ms, m, n) ==
  n >= 1 /\ Boundary(ms, m + n) /\ \A x \in 1 .. n : ~ D!IsHeader(ms[m + x])
ChunksOK(ps, ms) ==
  /\ Boundary(ms, 0)
  /\ \A m \in 1 .. Len(ms) :
       IF D!IsHeader(ms[m]) THEN Chunk(ms, m, ms[m][2])
       ELSE UnitOf(ps, ms[m]) /\ ms[m] = After(ps, LastUnit(ms, m - 1))

(* What is not in a chunk yet follows what is, to the end. *)
WireOK(ps, ms, rest) ==
  /\ ps \in Seq(DvripPacket) /\ ms \in Seq(Mark) /\ rest \in Seq(Mark)
  /\ ChunksOK(ps, ms)
  /\ Chained(ps, LastUnit(ms, Len(ms)), rest)
  /\ LastOf(LastUnit(ms, Len(ms)), rest) = EndOf(ps, Len(ps))

(* client.buf has the units behind those of j packets, and the reader is   *)
(* behind them, or in a chunk that follows.                                *)
HeldAt(j) == cbuf \in Seq(Mark) /\ Chained(packets, EndOf(packets, j), cbuf)
ChunkRead(m) ==
  /\ m \in 1 .. Len(marks) /\ marks[m] = <<0, dSize>> /\ Len(dPart) < dSize
  /\ \A x \in 1 .. Len(dPart) : dPart[x] = marks[m + x]
  /\ Place(drd) = m + Len(dPart)
Behind(j) ==
  LET c == LastOf(EndOf(packets, j), cbuf) IN
  IF dSize = 0 THEN dPart = <<>> /\ Boundary(marks, Place(drd)) /\ LastUnit(marks, Place(drd)) = c
  ELSE D!ReadsChunk /\ \E m \in 1 .. Len(marks) : ChunkRead(m) /\ LastUnit(marks, m) = c

(* What the first j packets carry is given to the tracks. *)
Sofar(t, j) == L!Firsts([i \in 1 .. Len(packets) |-> D!CarriedBy(t, i)], j)
GivenAt(j) == \A t \in Tracks : given[t] = IF t \in tracks THEN Sofar(t, j) ELSE <<>>
NoneGiven == \A t \in Tracks : given[t] = <<>>

DvripReading ==
  /\ ReaderOK(drd) /\ drd.net <= Len(marks) /\ dPart \in Seq(Mark) /\ dSize \in Nat
  /\ IF dAt = "start" THEN drd.size <= 0
     ELSE drd.size = KeepSize /\ drd.net = Len(drd.buf) /\ NoneGiven
  /\ dAt = "check" => dSize = 0
  /\ \E j \in 0 .. Len(packets) : HeldAt(j) /\ Behind(j) /\ (dAt = "start" => GivenAt(j))

DvripInv ==
  /\ WireOK(packets, marks, left) /\ tracks \subseteq Tracks
  /\ given \in [Tracks -> Seq(Bundle)]
  /\ \/ /\ dAt = "send" /\ drd = B!NewReadBuffer /\ dPart = <<>> /\ dSize = 0 /\ cbuf = <<>>
        /\ NoneGiven
     \/ dAt \in {"check", "probe", "start"} /\ left = <<>> /\ DvripReading
     \/ dAt = "failed" /\ (drd.net > KeepSize \/ tracks = {}) /\ NoneGiven

(* What follows, follows all of it. *)
LEMMA ChainJoin ==
  ASSUME NEW ps, NEW c, NEW q \in Seq(Mark), NEW r \in Seq(Mark),
         Chained(ps, c, q), Chained(ps, LastOf(c, q), r)
  PROVE  /\ q \o r \in Seq(Mark)
         /\ Chained(ps, c, q \o r) /\ LastOf(c, q \o r) = LastOf(LastOf(c, q), r)
<1>1. PICK s, l, k : s = q \o r /\ l = Len(q) /\ k = Len(r)
  OBVIOUS
<1>2. /\ s \in Seq(Mark) /\ l \in Nat /\ k \in Nat /\ Len(s) = l + k
      /\ \A x \in 1 .. l + k : s[x] = IF x <= l THEN q[x] ELSE r[x - l]
      /\ (q = <<>> <=> l = 0) /\ (r = <<>> <=> k = 0) /\ (s = <<>> <=> l + k = 0)
  <2>1. s \in Seq(Mark) /\ Len(s) = l + k /\ l \in Nat /\ k \in Nat
        /\ \A x \in 1 .. l + k : s[x] = IF x <= l THEN q[x] ELSE r[x - l]
    BY <1>1, ConcatProperties, LenProperties
  <2> QED
    BY <1>1, <2>1, EmptySeq
<1>3. ASSUME NEW x \in 1 .. Len(s)
      PROVE  UnitOf(ps, s[x]) /\ s[x] = After(ps, IF x = 1 THEN c ELSE s[x - 1])
  <2>1. CASE x <= l
    <3>1. x \in 1 .. l /\ s[x] = q[x] /\ (x # 1 => s[x - 1] = q[x - 1])
      BY <1>2, <2>1
    <3> QED
      BY <1>1, <3>1 DEF Chained
  <2>2. CASE x = l + 1
    <3>1. 1 \in 1 .. k /\ s[x] = r[1]
      BY <1>2, <2>2
    <3>2. LastOf(c, q) = IF x = 1 THEN c ELSE s[x - 1]
      BY <1>1, <1>2, <2>2 DEF LastOf
    <3>3. UnitOf(ps, r[1]) /\ r[1] = After(ps, LastOf(c, q))
      BY <1>1, <3>1 DEF Chained
    <3> QED
      BY <3>1, <3>2, <3>3
  <2>3. CASE x > l + 1
    <3>1. x - l \in 1 .. k /\ x - l # 1 /\ s[x] = r[x - l] /\ s[x - 1] = r[(x - l) - 1] /\ x # 1
      <4>1. x - l \in 1 .. k /\ x - l # 1 /\ s[x] = r[x - l] /\ s[x - 1] = r[(x - 1) - l] /\ x # 1
        BY <1>2, <2>3
      <4>2. (x - 1) - l = (x - l) - 1
        BY <1>2
      <4> QED
        BY <4>1, <4>2
    <3>2. UnitOf(ps, r[x - l]) /\ r[x - l] = After(ps, r[(x - l) - 1])
      BY <1>1, <3>1 DEF Chained
    <3> QED
      BY <3>1, <3>2
  <2> QED
    BY <1>2, <2>1, <2>2, <2>3
<1>4. LastOf(c, s) = LastOf(LastOf(c, q), r)
  <2>1. CASE k = 0
    BY <1>1, <1>2, <2>1 DEF LastOf
  <2>2. CASE k # 0
    <3>1. s[l + k] = r[k]
      <4>1. s[l + k] = r[(l + k) - l] /\ (l + k) - l = k
        BY <1>2, <2>2
      <4> QED
        BY <4>1
    <3> QED
      BY <1>1, <1>2, <2>2, <3>1 DEF LastOf
  <2> QED
    BY <2>1, <2>2
<1> QED
  BY <1>1, <1>2, <1>3, <1>4 DEF Chained

(* The first n, and the others behind them. *)
LEMMA ChainCut ==
  ASSUME NEW ps, NEW c, NEW q \in Seq(Mark), NEW n \in 0 .. Len(q), Chained(ps, c, q)
  PROVE  LET a == SubSeq(q, 1, n)
             b == SubSeq(q, n + 1, Len(q))
         IN  /\ a \in Seq(Mark) /\ b \in Seq(Mark) /\ Len(a) = n /\ Len(b) = Len(q) - n
             /\ \A x \in 1 .. n : a[x] = q[x]
             /\ Chained(ps, c, a) /\ Chained(ps, LastOf(c, a), b)
             /\ LastOf(LastOf(c, a), b) = LastOf(c, q)
<1>1. PICK a, b, l : a = SubSeq(q, 1, n) /\ b = SubSeq(q, n + 1, l) /\ l = Len(q)
  OBVIOUS
<1>2. /\ l \in Nat /\ n \in Nat /\ n <= l
      /\ a \in Seq(Mark) /\ Len(a) = n /\ \A x \in 1 .. n : a[x] = q[x]
  BY <1>1, LenProperties, SubSeqProperties
<1>3. b \in Seq(Mark) /\ Len(b) = l - n /\ \A x \in 1 .. l - n : b[x] = q[n + x]
  <2>1. n + 1 \in 1 .. l + 1 /\ l \in (n + 1) - 1 .. l /\ (l - (n + 1)) + 1 = l - n
    BY <1>2
  <2>2. b \in Seq(Mark) /\ Len(b) = (l - (n + 1)) + 1
        /\ \A x \in 1 .. (l - (n + 1)) + 1 : b[x] = q[(n + 1) + x - 1]
    BY <1>1, <2>1, SubSeqProperties
  <2>3. \A x \in 1 .. l - n : (n + 1) + x - 1 = n + x
    BY <1>2
  <2> QED
    BY <2>1, <2>2, <2>3
<1>4. (q = <<>> <=> l = 0) /\ (a = <<>> <=> n = 0) /\ (b = <<>> <=> l = n)
  <2>1. Len(b) = 0 <=> l = n
    BY <1>2, <1>3
  <2> QED
    BY <1>1, <1>2, <1>3, <2>1, EmptySeq
<1>5. Chained(ps, c, a)
  <2>1. \A x \in 1 .. n : x \in 1 .. l /\ (x # 1 => x - 1 \in 1 .. n)
    BY <1>2
  <2> QED
    BY <1>1, <1>2, <2>1 DEF Chained
<1>6. LastOf(c, a) = IF n = 0 THEN c ELSE q[n]
  BY <1>2, <1>4 DEF LastOf
<1>7. ASSUME NEW x \in 1 .. l - n
      PROVE  UnitOf(ps, b[x]) /\ b[x] = After(ps, IF x = 1 THEN LastOf(c, a) ELSE b[x - 1])
  <2>1. n + x \in 1 .. l /\ b[x] = q[n + x]
    BY <1>2, <1>3
  <2>2. UnitOf(ps, q[n + x]) /\ q[n + x] = After(ps, IF n + x = 1 THEN c ELSE q[(n + x) - 1])
    BY <1>1, <2>1 DEF Chained
  <2>3. (IF n + x = 1 THEN c ELSE q[(n + x) - 1]) = IF x = 1 THEN LastOf(c, a) ELSE b[x - 1]
    <3>1. CASE x = 1
      <4>1. (n + x) - 1 = n /\ (n + x = 1 <=> n = 0)
        BY <1>2, <3>1
      <4> QED
        BY <1>6, <3>1, <4>1
    <3>2. CASE x # 1
      <4>1. x - 1 \in 1 .. l - n /\ n + (x - 1) = (n + x) - 1 /\ n + x # 1
        BY <1>2, <3>2
      <4> QED
        BY <1>3, <3>2, <4>1
    <3> QED
      BY <3>1, <3>2
  <2> QED
    BY <2>1, <2>2, <2>3
<1>8. Chained(ps, LastOf(c, a), b)
  BY <1>3, <1>7 DEF Chained
<1>9. LastOf(LastOf(c, a), b) = LastOf(c, q)
  <2>1. CASE l = n
    BY <1>1, <1>4, <1>6, <2>1 DEF LastOf
  <2>2. CASE l # n
    <3>1. b[l - n] = q[l] /\ l # 0
      <4>1. l - n \in 1 .. l - n /\ n + (l - n) = l /\ l # 0
        BY <1>2, <2>2
      <4> QED
        BY <1>3, <4>1
    <3> QED
      BY <1>1, <1>3, <1>4, <2>2, <3>1 DEF LastOf
  <2> QED
    BY <2>1, <2>2
<1> QED
  BY <1>1, <1>2, <1>3, <1>5, <1>8, <1>9

(* A unit, or what is before the first. *)
Known(ps, c) == c = Before \/ (c \in Mark /\ UnitOf(ps, c))

(* A packet of the camera is one to three units, a header of one or two first. *)
LEMMA PacketFacts ==
  ASSUME NEW ps \in Seq(DvripPacket), NEW i \in 1 .. Len(ps)
  PROVE  /\ ps[i] \in DvripPacket /\ ps[i].kind \in D!PacketKinds /\ ps[i].size \in 1 .. 3
         /\ D!Header(ps[i].kind) \in 1 .. 2
         /\ ps[i].size \in D!Header(ps[i].kind) .. D!Header(ps[i].kind) + 1
<1>1. ps[i] \in DvripPacket
  BY ElementOfSeq
<1> QED
  BY <1>1 DEF DvripPacket, D!Header

(* t is ps and more: what is said of the packets of ps, holds in t. *)
Grows(ps, t) ==
  /\ \A i \in 1 .. Len(ps) : t[i] = ps[i]
  /\ \A i \in 0 .. Len(ps) : EndOf(t, i) = EndOf(ps, i)
  /\ \A c : Known(ps, c) => After(t, c) = After(ps, c)
  /\ \A c : UnitOf(ps, c) => UnitOf(t, c)
  /\ \A c, q : Known(ps, c) /\ q \in Seq(Mark) /\ Chained(ps, c, q) => Chained(t, c, q)

(* One packet more changes nothing of the ones before it. *)
LEMMA PacketMore ==
  ASSUME NEW ps \in Seq(DvripPacket), NEW e \in DvripPacket, NEW t, t = Append(ps, e)
  PROVE  /\ t \in Seq(DvripPacket) /\ Len(ps) \in Nat /\ Len(t) = Len(ps) + 1 /\ t[Len(ps) + 1] = e
         /\ Grows(ps, t)
<1>1. /\ t \in Seq(DvripPacket) /\ Len(ps) \in Nat /\ Len(t) = Len(ps) + 1 /\ t[Len(ps) + 1] = e
      /\ \A i \in 1 .. Len(ps) : t[i] = ps[i]
  BY AppendProperties, LenProperties
<1>2. \A i \in 0 .. Len(ps) : EndOf(t, i) = EndOf(ps, i)
  <2>1. \A i \in 0 .. Len(ps) : i = 0 \/ i \in 1 .. Len(ps)
    BY <1>1
  <2> QED
    BY <1>1, <2>1 DEF EndOf
<1>3. \A c : Known(ps, c) => After(t, c) = After(ps, c)
  BY <1>1 DEF Known, After, UnitOf, Before
<1>4. \A c : UnitOf(ps, c) => UnitOf(t, c)
  BY <1>1 DEF UnitOf
<1>5. ASSUME NEW c, NEW q \in Seq(Mark), Known(ps, c), Chained(ps, c, q)
      PROVE  Chained(t, c, q)
  <2>1. ASSUME NEW x \in 1 .. Len(q)
        PROVE  UnitOf(t, q[x]) /\ q[x] = After(t, IF x = 1 THEN c ELSE q[x - 1])
    <3>1. UnitOf(ps, q[x]) /\ q[x] = After(ps, IF x = 1 THEN c ELSE q[x - 1])
      BY <1>5 DEF Chained
    <3>2. Known(ps, IF x = 1 THEN c ELSE q[x - 1])
      <4>1. CASE x = 1
        BY <1>5, <4>1
      <4>2. CASE x # 1
        <5>1. x - 1 \in 1 .. Len(q)
          BY <4>2, LenProperties
        <5>2. UnitOf(ps, q[x - 1]) /\ q[x - 1] \in Mark
          BY <1>5, <5>1, ElementOfSeq DEF Chained
        <5> QED
          BY <4>2, <5>2 DEF Known
      <4> QED
        BY <4>1, <4>2
    <3> QED
      BY <1>3, <1>4, <3>1, <3>2
  <2> QED
    BY <2>1 DEF Chained
<1> QED
  BY <1>1, <1>2, <1>3, <1>4, <1>5 DEF Grows

(* The units of the next packet. *)
LEMMA ChainPacket ==
  ASSUME NEW ps \in Seq(DvripPacket), NEW j \in 0 .. Len(ps), NEW q \in Seq(Mark), q # <<>>,
         Chained(ps, EndOf(ps, j), q)
  PROVE  /\ j + 1 \in 1 .. Len(ps) /\ q[1] = <<j + 1, 1>>
         /\ \A x \in 1 .. Len(q) : x <= ps[j + 1].size => q[x] = <<j + 1, x>>
<1>1. Len(q) \in Nat /\ 1 \in 1 .. Len(q) /\ j \in Nat /\ Len(ps) \in Nat
  <2>1. Len(q) \in Nat /\ Len(q) # 0 /\ Len(ps) \in Nat
    BY EmptySeq, LenProperties
  <2> QED
    BY <2>1
<1>2. q[1] = <<j + 1, 1>>
  <2>1. q[1] = After(ps, EndOf(ps, j))
    BY <1>1 DEF Chained
  <2>2. CASE j = 0
    BY <2>1, <2>2 DEF After, EndOf, Before
  <2>3. CASE j # 0
    <3>1. j \in 1 .. Len(ps)
      BY <1>1, <2>3
    <3>2. ps[j].size \in Nat
      BY <3>1, PacketFacts
    <3> QED
      BY <2>1, <2>3, <3>2 DEF After, EndOf
  <2> QED
    BY <2>2, <2>3
<1>3. j + 1 \in 1 .. Len(ps)
  <2>1. UnitOf(ps, q[1])
    BY <1>1 DEF Chained
  <2> QED
    BY <1>2, <2>1 DEF UnitOf
<1> DEFINE T == {x \in Nat : x + 1 \in 1 .. Len(q) /\ x + 1 <= ps[j + 1].size => q[x + 1] = <<j + 1, x + 1>>}
<1>4. 0 \in T
  BY <1>2
<1>5. ASSUME NEW x \in Nat, x \in T PROVE x + 1 \in T
  <2> SUFFICES ASSUME (x + 1) + 1 \in 1 .. Len(q), (x + 1) + 1 <= ps[j + 1].size
               PROVE  q[(x + 1) + 1] = <<j + 1, (x + 1) + 1>>
    OBVIOUS
  <2>1. PICK n \in Nat : n = ps[j + 1].size
    BY <1>3, PacketFacts
  <2>2. x + 1 \in 1 .. Len(q) /\ x + 1 < n
    BY <1>1, <2>1
  <2>3. q[x + 1] = <<j + 1, x + 1>>
    BY <1>5, <2>1, <2>2
  <2>4. q[(x + 1) + 1] = After(ps, q[x + 1])
    <3>1. (x + 1) + 1 # 1 /\ ((x + 1) + 1) - 1 = x + 1
      OBVIOUS
    <3> QED
      BY <3>1 DEF Chained
  <2>5. After(ps, <<j + 1, x + 1>>) = <<j + 1, (x + 1) + 1>>
    BY <1>1, <2>1, <2>2 DEF After
  <2> QED
    BY <2>3, <2>4, <2>5
<1> HIDE DEF T
<1>6. Nat \subseteq T
  BY <1>4, <1>5, L!Induction
<1>7. ASSUME NEW x \in 1 .. Len(q), x <= ps[j + 1].size PROVE q[x] = <<j + 1, x>>
  <2>1. x - 1 \in T /\ (x - 1) + 1 = x
    BY <1>1, <1>6
  <2> QED
    BY <1>7, <2>1 DEF T
<1> QED
  BY <1>2, <1>3, <1>7

(* Behind a header there is a unit. *)
LEMMA HeaderThenUnit ==
  ASSUME NEW ps, NEW ms \in Seq(Mark), ChunksOK(ps, ms), NEW m \in 1 .. Len(ms),
         D!IsHeader(ms[m])
  PROVE  m + 1 \in 1 .. Len(ms) /\ ~ D!IsHeader(ms[m + 1])
<1>1. PICK n \in Nat : n = ms[m][2] /\ Len(ms) \in Nat
  BY ElementOfSeq, LenProperties DEF Mark
<1>2. n >= 1 /\ m + n \in 0 .. Len(ms) /\ \A x \in 1 .. n : ~ D!IsHeader(ms[m + x])
  BY <1>1 DEF ChunksOK, Chunk, Boundary
<1> QED
  BY <1>1, <1>2

(* The last unit, mark by mark. *)
LEMMA LastUnitFacts ==
  ASSUME NEW ps, NEW ms \in Seq(Mark), ChunksOK(ps, ms), NEW m \in 0 .. Len(ms)
  PROVE  /\ Known(ps, LastUnit(ms, m))
         /\ m < Len(ms) /\ D!IsHeader(ms[m + 1]) => LastUnit(ms, m + 1) = LastUnit(ms, m)
         /\ m < Len(ms) /\ ~ D!IsHeader(ms[m + 1]) => LastUnit(ms, m + 1) = ms[m + 1]
         /\ m = Len(ms) /\ m # 0 => m >= 2 /\ ~ D!IsHeader(ms[m])
<1>1. Len(ms) \in Nat /\ m \in Nat /\ \A i \in 1 .. Len(ms) : ms[i] \in Mark
  BY LenProperties, ElementOfSeq
<1>2. \A i \in 1 .. Len(ms) : ~ D!IsHeader(ms[i]) => UnitOf(ps, ms[i])
  BY DEF ChunksOK
<1>3. \A i \in 1 .. Len(ms) : D!IsHeader(ms[i]) => i + 1 \in 1 .. Len(ms) /\ ~ D!IsHeader(ms[i + 1])
  BY HeaderThenUnit
<1>4. Len(ms) > 0 => D!IsHeader(ms[1])
  <2>1. 0 + 1 = 1
    OBVIOUS
  <2> QED
    BY <2>1 DEF ChunksOK, Boundary
<1>5. Known(ps, LastUnit(ms, m))
  <2>1. CASE m < 2
    BY <2>1 DEF LastUnit, Known
  <2>2. CASE m >= 2 /\ D!IsHeader(ms[m])
    <3>1. m - 1 \in 1 .. Len(ms) /\ (m - 1) + 1 = m
      BY <1>1, <2>2
    <3>2. ~ D!IsHeader(ms[m - 1])
      BY <1>3, <2>2, <3>1
    <3> QED
      BY <1>1, <1>2, <2>2, <3>1, <3>2 DEF LastUnit, Known
  <2>3. CASE m >= 2 /\ ~ D!IsHeader(ms[m])
    <3>1. m \in 1 .. Len(ms) /\ ~ m < 2
      BY <1>1, <2>3
    <3> QED
      BY <1>1, <1>2, <2>3, <3>1 DEF LastUnit, Known
  <2> QED
    BY <1>1, <2>1, <2>2, <2>3
<1>6. ASSUME m < Len(ms), D!IsHeader(ms[m + 1]) PROVE LastUnit(ms, m + 1) = LastUnit(ms, m)
  <2>1. CASE m = 0
    BY <2>1 DEF LastUnit
  <2>2. CASE m # 0
    <3>1. m \in 1 .. Len(ms) /\ (m + 1) - 1 = m /\ ~ m + 1 < 2
      BY <1>1, <2>2
    <3>2. ~ D!IsHeader(ms[m])
      BY <1>3, <1>6, <3>1
    <3>3. LastUnit(ms, m + 1) = ms[m]
      BY <1>6, <3>1 DEF LastUnit
    <3>4. m # 1
      BY <1>1, <1>4, <1>6, <3>2
    <3>5. LastUnit(ms, m) = ms[m]
      <4>1. ~ m < 2
        BY <1>1, <2>2, <3>4
      <4> QED
        BY <3>2, <4>1 DEF LastUnit
    <3> QED
      BY <3>3, <3>5
  <2> QED
    BY <2>1, <2>2
<1>7. ASSUME m < Len(ms), ~ D!IsHeader(ms[m + 1]) PROVE LastUnit(ms, m + 1) = ms[m + 1]
  <2>1. m # 0
    BY <1>1, <1>4, <1>7
  <2>2. ~ m + 1 < 2
    BY <1>1, <2>1
  <2> QED
    BY <1>7, <2>2 DEF LastUnit
<1>8. ASSUME m = Len(ms), m # 0 PROVE m >= 2 /\ ~ D!IsHeader(ms[m])
  <2>1. m \in 1 .. Len(ms) /\ ~ m + 1 <= Len(ms)
    BY <1>1, <1>8
  <2>2. ~ D!IsHeader(ms[m])
    BY <1>1, <1>3, <2>1
  <2>3. m # 1
    BY <1>1, <1>4, <1>8, <2>2
  <2> QED
    BY <1>1, <1>8, <2>2, <2>3
<1> QED
  BY <1>5, <1>6, <1>7, <1>8

(* The camera has one packet more. *)
LEMMA WirePacket ==
  ASSUME NEW ps \in Seq(DvripPacket), NEW ms, NEW more, WireOK(ps, ms, more),
         NEW e \in DvripPacket
  PROVE  WireOK(Append(ps, e), ms, more \o [u \in 1 .. e.size |-> <<Len(ps) + 1, u>>])
<1>1. PICK t : t = Append(ps, e)
  OBVIOUS
<1>2. ps \in Seq(DvripPacket) /\ ms \in Seq(Mark) /\ more \in Seq(Mark) /\ ChunksOK(ps, ms)
      /\ Len(ms) \in Nat
  BY LenProperties DEF WireOK
<1>3. /\ t \in Seq(DvripPacket) /\ Len(ps) \in Nat /\ Len(t) = Len(ps) + 1 /\ t[Len(ps) + 1] = e
      /\ Grows(ps, t)
  BY <1>1, PacketMore
<1>4. ChunksOK(t, ms)
  <2>1. ASSUME NEW m \in 1 .. Len(ms), ~ D!IsHeader(ms[m])
        PROVE  UnitOf(t, ms[m]) /\ ms[m] = After(t, LastUnit(ms, m - 1))
    <3>1. UnitOf(ps, ms[m]) /\ ms[m] = After(ps, LastUnit(ms, m - 1))
      BY <1>2, <2>1 DEF ChunksOK
    <3>2. m - 1 \in 0 .. Len(ms)
      BY <1>2
    <3>3. Known(ps, LastUnit(ms, m - 1))
      BY <1>2, <3>2, LastUnitFacts
    <3> QED
      BY <1>3, <3>1, <3>3 DEF Grows
  <2> QED
    BY <1>2, <2>1 DEF ChunksOK
<1>5. PICK c : c = LastUnit(ms, Len(ms)) /\ Known(ps, c)
  <2>1. Len(ms) \in 0 .. Len(ms)
    BY <1>2
  <2> QED
    BY <1>2, <2>1, LastUnitFacts
<1>6. Chained(t, c, more) /\ LastOf(c, more) = EndOf(t, Len(ps))
  <2>1. Len(ps) \in 0 .. Len(ps)
    BY <1>3
  <2> QED
    BY <1>2, <1>3, <1>5, <2>1 DEF WireOK, Grows
<1>7. PICK k \in 1 .. 3, n \in Nat : k = e.size /\ n = Len(ps) + 1
  BY <1>3 DEF DvripPacket
<1>8. PICK q : q = [u \in 1 .. k |-> <<n, u>>]
  OBVIOUS
<1>9. q \in Seq(Mark) /\ Len(q) = k /\ \A u \in 1 .. k : q[u] = <<n, u>>
  BY <1>8 DEF Mark
<1>10. \A u \in 1 .. k : UnitOf(t, q[u])
  <2>1. n \in 1 .. Len(t) /\ t[n].size = k
    BY <1>3, <1>7
  <2> QED
    BY <1>9, <2>1 DEF UnitOf
<1>11. After(t, EndOf(t, Len(ps))) = <<n, 1>>
  <2>1. CASE Len(ps) = 0
    BY <1>7, <2>1 DEF EndOf, Before, After
  <2>2. CASE Len(ps) # 0
    <3>1. Len(ps) \in 1 .. Len(t)
      BY <1>3, <2>2
    <3>2. t[Len(ps)].size \in Nat
      BY <1>3, <3>1, PacketFacts
    <3> QED
      BY <1>7, <2>2, <3>2 DEF EndOf, After
  <2> QED
    BY <2>1, <2>2
<1>12. ASSUME NEW u \in 1 .. k, u # 1 PROVE q[u] = After(t, q[u - 1])
  <2>1. u - 1 \in 1 .. k /\ q[u - 1] = <<n, u - 1>> /\ u - 1 < k /\ (u - 1) + 1 = u
    BY <1>9, <1>12
  <2>2. t[n].size = k /\ n # 0
    BY <1>3, <1>7
  <2>3. After(t, <<n, u - 1>>) = <<n, (u - 1) + 1>>
    BY <2>1, <2>2 DEF After
  <2> QED
    BY <1>9, <2>1, <2>3
<1>13. Chained(t, EndOf(t, Len(ps)), q)
  <2>1. 1 \in 1 .. k /\ q[1] = <<n, 1>>
    BY <1>9
  <2> QED
    BY <1>9, <1>10, <1>11, <1>12, <2>1 DEF Chained
<1>14. LastOf(EndOf(t, Len(ps)), q) = EndOf(t, Len(t))
  <2>1. q # <<>> /\ q[k] = <<n, k>>
    BY <1>9, EmptySeq
  <2>2. n = Len(t) /\ n # 0 /\ t[n].size = k
    BY <1>3, <1>7
  <2> QED
    BY <1>9, <2>1, <2>2 DEF LastOf, EndOf
<1>15. /\ more \o q \in Seq(Mark) /\ Chained(t, c, more \o q)
       /\ LastOf(c, more \o q) = EndOf(t, Len(t))
  BY <1>2, <1>6, <1>9, <1>13, <1>14, ChainJoin
<1> QED
  BY <1>1, <1>2, <1>3, <1>4, <1>5, <1>7, <1>8, <1>15 DEF WireOK

(* It puts n units into a chunk. *)
LEMMA WireChunk ==
  ASSUME NEW ps, NEW ms, NEW more, WireOK(ps, ms, more), NEW n \in 1 .. Len(more)
  PROVE  WireOK(ps, ms \o << <<0, n>> >> \o SubSeq(more, 1, n), SubSeq(more, n + 1, Len(more)))
<1>1. /\ ps \in Seq(DvripPacket) /\ ms \in Seq(Mark) /\ more \in Seq(Mark) /\ ChunksOK(ps, ms)
      /\ Chained(ps, LastUnit(ms, Len(ms)), more)
      /\ LastOf(LastUnit(ms, Len(ms)), more) = EndOf(ps, Len(ps))
  BY DEF WireOK
<1>0. PICK l \in Nat : l = Len(ms)
  BY <1>1, LenProperties
<1>2. PICK c : l = Len(ms) /\ c = LastUnit(ms, l) /\ n \in Nat /\ 1 <= n
  BY <1>0
<1>3. PICK a, b : a = SubSeq(more, 1, n) /\ b = SubSeq(more, n + 1, Len(more))
  OBVIOUS
<1>4. /\ a \in Seq(Mark) /\ b \in Seq(Mark) /\ Len(a) = n
      /\ Chained(ps, c, a) /\ Chained(ps, LastOf(c, a), b)
      /\ LastOf(LastOf(c, a), b) = EndOf(ps, Len(ps))
  <2>1. n \in 0 .. Len(more)
    BY <1>1, LenProperties
  <2> QED
    BY <1>1, <1>2, <1>3, <2>1, ChainCut
<1>5. PICK h \in Mark : h = <<0, n>>
  BY <1>2 DEF Mark
<1>6. PICK t : t = (ms \o <<h>>) \o a
  OBVIOUS
<1>7. /\ t \in Seq(Mark) /\ Len(t) = (l + 1) + n
      /\ \A x \in 1 .. l : t[x] = ms[x]
      /\ t[l + 1] = h
      /\ \A x \in 1 .. n : t[(l + 1) + x] = a[x]
  <2>1. PICK g : g = ms \o <<h>>
    OBVIOUS
  <2>2. g = Append(ms, h)
    BY <1>1, <2>1, AppendIsConcat
  <2>3. g \in Seq(Mark) /\ Len(g) = l + 1 /\ g[l + 1] = h /\ \A x \in 1 .. l : g[x] = ms[x]
    BY <1>1, <1>2, <2>2, AppendProperties
  <2>4. /\ t \in Seq(Mark) /\ Len(t) = (l + 1) + n
        /\ \A x \in 1 .. (l + 1) + n : t[x] = IF x <= l + 1 THEN g[x] ELSE a[x - (l + 1)]
    <3>1. PICK k \in Nat : k = l + 1 /\ Len(g) = k
      BY <2>3
    <3>2. /\ g \o a \in Seq(Mark) /\ Len(g \o a) = k + n
          /\ \A x \in 1 .. k + n : (g \o a)[x] = IF x <= k THEN g[x] ELSE a[x - k]
      <4>1. g \in Seq(Mark) /\ a \in Seq(Mark) /\ Len(g) = k /\ Len(a) = n
        BY <1>4, <2>3, <3>1
      <4> QED
        BY <4>1, ConcatProperties
    <3> QED
      BY <1>6, <2>1, <3>1, <3>2
  <2>5. \A x \in 1 .. l + 1 : t[x] = g[x]
    BY <1>2, <2>4
  <2>6. ASSUME NEW x \in 1 .. n PROVE t[(l + 1) + x] = a[x]
    <3>1. (l + 1) + x \in 1 .. (l + 1) + n /\ ~ (l + 1) + x <= l + 1 /\ ((l + 1) + x) - (l + 1) = x
      BY <1>2
    <3> QED
      BY <2>4, <3>1
  <2> QED
    BY <1>2, <2>3, <2>4, <2>5, <2>6
<1>8. D!IsHeader(h) /\ h[2] = n
  BY <1>5 DEF D!IsHeader
<1>9. \A x \in 1 .. n : UnitOf(ps, a[x]) /\ ~ D!IsHeader(a[x])
  BY <1>4 DEF Chained, UnitOf, D!IsHeader
<1>10. \A m \in 0 .. l : LastUnit(t, m) = LastUnit(ms, m)
  <2>1. ASSUME NEW m \in 0 .. l, ~ m < 2 PROVE t[m] = ms[m] /\ t[m - 1] = ms[m - 1]
    <3>1. m \in 1 .. l /\ m - 1 \in 1 .. l
      BY <2>1
    <3> QED
      BY <1>7, <3>1
  <2> QED
    BY <2>1 DEF LastUnit
<1>11. LastUnit(t, l + 1) = c
  <2>1. CASE l = 0
    BY <1>2, <2>1 DEF LastUnit
  <2>2. CASE l # 0
    <3>1. l >= 2 /\ ~ D!IsHeader(ms[l])
      <4>1. l \in 0 .. Len(ms)
        BY <1>2
      <4> QED
        BY <1>1, <1>2, <2>2, <4>1, LastUnitFacts
    <3>2. ~ l + 1 < 2 /\ ~ l < 2 /\ (l + 1) - 1 = l /\ l \in 1 .. l
      BY <3>1
    <3> QED
      BY <1>2, <1>7, <1>8, <3>1, <3>2 DEF LastUnit
  <2> QED
    BY <2>1, <2>2
<1>12. \A x \in 1 .. n : LastUnit(t, (l + 1) + x) = a[x]
  <2>1. ASSUME NEW x \in 1 .. n PROVE LastUnit(t, (l + 1) + x) = a[x]
    <3>1. ~ (l + 1) + x < 2 /\ t[(l + 1) + x] = a[x]
      BY <1>7
    <3> QED
      BY <1>9, <3>1 DEF LastUnit
  <2> QED
    BY <2>1
<1>13. Boundary(t, 0)
  <2>1. D!IsHeader(t[1])
    <3>1. CASE l = 0
      BY <1>7, <1>8, <3>1
    <3>2. CASE l # 0
      <4>1. D!IsHeader(ms[0 + 1]) /\ 0 + 1 = 1
        BY <1>1, <1>2, <3>2 DEF ChunksOK, Boundary
      <4>2. 1 \in 1 .. l
        BY <3>2
      <4> QED
        BY <1>7, <4>1, <4>2
    <3> QED
      BY <3>1, <3>2
  <2>2. 0 \in 0 .. Len(t) /\ 0 + 1 = 1
    BY <1>2, <1>7
  <2> QED
    BY <2>1, <2>2 DEF Boundary
<1>14. ASSUME NEW m \in 1 .. l, D!IsHeader(ms[m]) PROVE Chunk(t, m, ms[m][2])
  <2>1. PICK k \in Nat : k = ms[m][2]
    BY <1>1, <1>2, ElementOfSeq, SMTT(30) DEF Mark
  <2>2. k >= 1 /\ Boundary(ms, m + k) /\ \A x \in 1 .. k : ~ D!IsHeader(ms[m + x])
    BY <1>1, <1>2, <1>14, <2>1 DEF ChunksOK, Chunk
  <2>3. m + k \in 0 .. l /\ m + k \in 0 .. Len(t) /\ m + k <= l
    BY <1>2, <1>7, <2>1, <2>2 DEF Boundary
  <2>4. D!IsHeader(t[(m + k) + 1])
    <3>1. CASE m + k = l
      BY <1>7, <1>8, <3>1
    <3>2. CASE m + k # l
      <4>1. (m + k) + 1 \in 1 .. l /\ m + k < l
        BY <2>3, <3>2
      <4>2. D!IsHeader(ms[(m + k) + 1])
        BY <1>2, <2>2, <4>1 DEF Boundary
      <4> QED
        BY <1>7, <4>1, <4>2
    <3> QED
      BY <3>1, <3>2
  <2>5. \A x \in 1 .. k : ~ D!IsHeader(t[m + x])
    <3>1. \A x \in 1 .. k : m + x \in 1 .. l
      BY <2>3
    <3> QED
      BY <1>7, <2>2, <3>1
  <2> QED
    BY <2>1, <2>2, <2>3, <2>4, <2>5 DEF Chunk, Boundary
<1>15. Chunk(t, l + 1, n)
  <2>1. (l + 1) + n \in 0 .. Len(t) /\ ~ (l + 1) + n < Len(t)
    BY <1>2, <1>7
  <2> QED
    BY <1>2, <1>7, <1>9, <2>1 DEF Chunk, Boundary
<1>16. ASSUME NEW m \in 1 .. Len(t)
       PROVE  IF D!IsHeader(t[m]) THEN Chunk(t, m, t[m][2])
              ELSE UnitOf(ps, t[m]) /\ t[m] = After(ps, LastUnit(t, m - 1))
  <2>1. CASE m <= l
    <3>1. m \in 1 .. l /\ m - 1 \in 0 .. l /\ t[m] = ms[m] /\ m \in 1 .. Len(ms)
      BY <1>2, <1>7, <2>1
    <3>2. ~ D!IsHeader(ms[m]) => UnitOf(ps, ms[m]) /\ ms[m] = After(ps, LastUnit(ms, m - 1))
      BY <1>1, <3>1 DEF ChunksOK
    <3> QED
      BY <1>10, <1>14, <3>1, <3>2
  <2>2. CASE m = l + 1
    BY <1>7, <1>8, <1>15, <2>2
  <2>3. CASE m > l + 1
    <3>1. PICK x \in 1 .. n : m = (l + 1) + x
      <4>1. m - (l + 1) \in 1 .. n /\ m = (l + 1) + (m - (l + 1))
        BY <1>2, <1>7, <2>3
      <4> QED
        BY <4>1
    <3>2. t[m] = a[x] /\ UnitOf(ps, a[x]) /\ ~ D!IsHeader(a[x])
      BY <1>7, <1>9, <3>1
    <3>3. a[x] = After(ps, IF x = 1 THEN c ELSE a[x - 1])
      BY <1>4 DEF Chained
    <3>4. LastUnit(t, m - 1) = IF x = 1 THEN c ELSE a[x - 1]
      <4>1. CASE x = 1
        <5>1. m - 1 = l + 1
          BY <1>2, <3>1, <4>1
        <5> QED
          BY <1>11, <4>1, <5>1
      <4>2. CASE x # 1
        <5>1. m - 1 = (l + 1) + (x - 1) /\ x - 1 \in 1 .. n
          BY <1>2, <3>1, <4>2
        <5> QED
          BY <1>12, <4>2, <5>1
      <4> QED
        BY <4>1, <4>2
    <3> QED
      BY <3>2, <3>3, <3>4
  <2> QED
    BY <1>2, <2>1, <2>2, <2>3
<1>17. ChunksOK(ps, t)
  BY <1>13, <1>16 DEF ChunksOK
<1>18. LastUnit(t, Len(t)) = LastOf(c, a)
  <2>1. a # <<>> /\ n \in 1 .. n
    BY <1>2, <1>4, EmptySeq
  <2> QED
    BY <1>4, <1>7, <1>12, <2>1 DEF LastOf
<1>19. WireOK(ps, t, b)
  BY <1>1, <1>4, <1>7, <1>17, <1>18 DEF WireOK
<1> QED
  BY <1>3, <1>5, <1>6, <1>19

(* The reader of the camera is that of ReadBuffer. *)
LEMMA SameReadD ==
  /\ \A r, n, m : D!Read(r, n, m) = B!Read(r, n, m)
  /\ \A r : D!Reset(r) = B!Reset(r)
  /\ D!NewReadBuffer = B!NewReadBuffer
  BY DEF D!Read, D!Reset, D!NewReadBuffer, D!Bytes, D!Drain,
         B!Read, B!Reset, B!NewReadBuffer, B!Bytes, B!Drain

(* Nothing follows anything. *)
LEMMA NothingChained ==
  /\ <<>> \in Seq(Mark) /\ Len(<<>>) = 0
  /\ \A ps, c : Chained(ps, c, <<>>) /\ LastOf(c, <<>>) = c
<1>1. <<>> \in Seq(Mark) /\ Len(<<>>) = 0
  BY EmptySeq
<1>2. \A x \in 1 .. 0 : FALSE
  OBVIOUS
<1> QED
  BY <1>1, <1>2 DEF Chained, LastOf

(* The camera has sent nothing yet. *)
LEMMA DvripInit == D!Init => DvripInv
<1> SUFFICES ASSUME D!Init PROVE DvripInv
  OBVIOUS
<1>1. PICK ps, ms, more : ps = packets /\ ms = marks /\ more = left
  OBVIOUS
<1>2. ps = <<>> /\ ms = <<>> /\ more = <<>>
  BY <1>1 DEF D!Init
<1>3. /\ ps \in Seq(DvripPacket) /\ Len(ps) = 0 /\ ms \in Seq(Mark) /\ Len(ms) = 0
  BY <1>2, EmptySeq
<1>4. ChunksOK(ps, ms)
  <2>1. 0 \in 0 .. Len(ms) /\ ~ 0 < Len(ms) /\ \A m \in 1 .. Len(ms) : FALSE
    BY <1>3
  <2> QED
    BY <2>1 DEF ChunksOK, Boundary
<1>5. LastUnit(ms, Len(ms)) = Before /\ EndOf(ps, Len(ps)) = Before
  <2>1. Len(ms) < 2 /\ Len(ps) = 0
    BY <1>3
  <2> QED
    BY <2>1 DEF LastUnit, EndOf
<1>6. WireOK(ps, ms, more)
  BY <1>2, <1>3, <1>4, <1>5, NothingChained DEF WireOK
<1>7. given \in [Tracks -> Seq(Bundle)] /\ NoneGiven
  <2>1. <<>> \in Seq(Bundle)
    BY EmptySeq
  <2> QED
    BY <2>1 DEF D!Init, Tracks, NoneGiven
<1>8. /\ dAt = "send" /\ drd = B!NewReadBuffer /\ dPart = <<>> /\ dSize = 0 /\ cbuf = <<>>
      /\ tracks \subseteq Tracks
  BY SameReadD DEF D!Init
<1> QED
  BY <1>1, <1>6, <1>7, <1>8 DEF DvripInv

(* The camera sends a packet, or a chunk. *)
LEMMA CameraSends ==
  ASSUME DvripInv, D!Send \/ D!SendChunk
  PROVE  DvripInv'
<1>1. WireOK(packets, marks, left) /\ packets \in Seq(DvripPacket) /\ Len(left) \in Nat
  BY LenProperties DEF DvripInv, WireOK
<1>2. dAt = "send" /\ UNCHANGED <<dAt, drd, dPart, dSize, cbuf, tracks, given>>
  BY DEF D!Send, D!SendChunk
<1>3. WireOK(packets', marks', left')
  <2>1. CASE D!Send
    <3>1. PICK kind \in D!PacketKinds, n \in 0 .. 1 :
            /\ packets' = Append(packets, [kind |-> kind, size |-> D!Header(kind) + n])
            /\ left' = left \o [u \in 1 .. D!Header(kind) + n |-> <<Len(packets) + 1, u>>]
      BY <2>1 DEF D!Send
    <3>2. PICK e : e = [kind |-> kind, size |-> D!Header(kind) + n]
      OBVIOUS
    <3>3. e \in DvripPacket /\ e.size = D!Header(kind) + n
      BY <3>2 DEF DvripPacket, D!Header
    <3>4. marks' = marks
      BY <2>1 DEF D!Send
    <3> QED
      BY <1>1, <3>1, <3>2, <3>3, <3>4, WirePacket
  <2>2. CASE D!SendChunk
    <3>1. PICK n \in 1 .. MaxChunk :
            /\ n <= Len(left)
            /\ marks' = marks \o << <<0, n>> >> \o SubSeq(left, 1, n)
            /\ left' = SubSeq(left, n + 1, Len(left))
      BY <2>2 DEF D!SendChunk
    <3>2. n \in 1 .. Len(left)
      BY <1>1, <3>1, DvripAssumption
    <3>3. packets' = packets
      BY <2>2 DEF D!SendChunk
    <3> QED
      BY <1>1, <3>1, <3>2, <3>3, WireChunk
  <2> QED
    BY <2>1, <2>2
<1> QED
  BY <1>2, <1>3 DEF DvripInv, NoneGiven

(* Where nothing has been read. *)
LEMMA BehindNothing ==
  ASSUME WireOK(packets, marks, left)', cbuf' = <<>>, dPart' = <<>>, dSize' = 0, Place(drd)' = 0
  PROVE  0 \in 0 .. Len(packets') /\ HeldAt(0)' /\ Behind(0)'
<1>1. Len(packets') \in Nat /\ Boundary(marks, 0)'
  BY LenProperties DEF WireOK, ChunksOK
<1>2. LastUnit(marks, 0)' = Before /\ EndOf(packets, 0)' = Before
  BY DEF LastUnit, EndOf
<1> QED
  BY <1>1, <1>2, NothingChained DEF HeldAt, Behind

(* Dial probes. *)
LEMMA ProbeStep ==
  ASSUME DvripInv, D!Probe
  PROVE  DvripInv'
<1>1. /\ WireOK(packets, marks, left) /\ tracks \subseteq Tracks
      /\ given \in [Tracks -> Seq(Bundle)]
      /\ dAt = "send" /\ dPart = <<>> /\ dSize = 0 /\ cbuf = <<>> /\ NoneGiven
  BY DEF DvripInv, D!Probe
<1>2. /\ left = <<>> /\ dAt' = "check" /\ drd' = [B!NewReadBuffer EXCEPT !.size = KeepSize]
      /\ UNCHANGED <<packets, left, marks, dPart, dSize, cbuf, tracks, given>>
  BY SameReadD DEF D!Probe
<1>3. /\ ReaderOK(drd') /\ drd'.size = KeepSize /\ drd'.net = 0 /\ Len(drd'.buf) = 0
      /\ Place(drd') = 0
  BY <1>2, ReaderNew, ReaderSized, DvripAssumption, EmptySeq
<1>4. /\ WireOK(packets, marks, left)' /\ (cbuf = <<>>)' /\ (dPart = <<>>)' /\ (dSize = 0)'
      /\ (Place(drd) = 0)'
  BY <1>1, <1>2, <1>3 DEF Place
<1>5. 0 \in 0 .. Len(packets') /\ HeldAt(0)' /\ Behind(0)'
  BY <1>4, BehindNothing
<1>6. DvripReading'
  <2>1. Len(marks') \in Nat
    BY <1>1, <1>2, LenProperties DEF WireOK
  <2>2. ReaderOK(drd)' /\ drd'.net <= Len(marks') /\ dPart' \in Seq(Mark) /\ dSize' \in Nat
    BY <1>3, <1>4, <2>1, NothingChained DEF ReaderOK
  <2>3. drd'.size = KeepSize /\ drd'.net = Len(drd'.buf) /\ NoneGiven'
    BY <1>1, <1>2, <1>3 DEF NoneGiven
  <2> QED
    BY <1>2, <1>4, <1>5, <2>2, <2>3 DEF DvripReading
<1> QED
  BY <1>1, <1>2, <1>4, <1>6 DEF DvripInv

(* probe wants another packet. *)
LEMMA ProbeAgainStep ==
  ASSUME DvripInv, D!ProbeMore
  PROVE  DvripInv'
<1>1. /\ dAt = "check" /\ dAt' = "probe"
      /\ UNCHANGED <<packets, left, marks, drd, dPart, dSize, cbuf, tracks, given>>
  BY DEF D!ProbeMore
<1>2. WireOK(packets, marks, left)' /\ (NoneGiven <=> NoneGiven') /\ (left = <<>> <=> left' = <<>>)
  BY <1>1 DEF DvripInv, NoneGiven
<1>3. DvripReading => DvripReading'
  BY <1>1 DEF DvripReading, ReaderOK, NoneGiven, HeldAt, Behind, ChunkRead, Place, D!ReadsChunk, D!PacketSize
<1> QED
  BY <1>1, <1>2, <1>3 DEF DvripInv

(* Nothing has been given of no packets. *)
LEMMA SofarStep ==
  ASSUME packets \in Seq(DvripPacket), NEW t, NEW d \in Nat
  PROVE  /\ Sofar(t, 0) = <<>>
         /\ d <= Len(packets) => Sofar(t, d) \in Seq(Bundle)
         /\ d + 1 <= Len(packets) => Sofar(t, d + 1) = Sofar(t, d) \o D!CarriedBy(t, d + 1)
         /\ d <= Len(packets) => \E z \in Seq(Bundle) : D!Carried(t) = Sofar(t, d) \o z
         /\ D!Carried(t) = Sofar(t, Len(packets))
<1>1. Len(packets) \in Nat
  BY LenProperties
<1>2. ASSUME NEW i \in 1 .. Len(packets) PROVE D!CarriedBy(t, i) \in Seq(Bundle)
  <2>1. PICK n \in 1 .. 3, h \in 1 .. 2 :
          n = packets[i].size /\ h = D!Header(packets[i].kind) /\ h <= n
    <3>1. packets[i].size \in 1 .. 3 /\ D!Header(packets[i].kind) \in 1 .. 2
          /\ packets[i].size \in D!Header(packets[i].kind) .. D!Header(packets[i].kind) + 1
      BY PacketFacts
    <3> QED
      BY <3>1
  <2>2. PICK q : q = D!Units(i)
    OBVIOUS
  <2>3. q \in Seq(Mark) /\ Len(q) = n
    <3>1. q = [u \in 1 .. n |-> <<i, u>>] /\ i \in Nat
      BY <1>1, <2>1, <2>2 DEF D!Units
    <3> QED
      BY <3>1 DEF Mark
  <2>4. SubSeq(q, h + 1, n) \in Seq(Mark)
    <3>1. PICK a \in Nat, b \in Nat : a = h /\ b = n /\ a <= b
      BY <2>1
    <3>2. a + 1 \in 1 .. b + 1 /\ b \in (a + 1) - 1 .. b
      BY <3>1
    <3>3. SubSeq(q, a + 1, b) \in Seq(Mark)
      <4>1. Len(q) = b
        BY <2>3, <3>1
      <4> QED
        BY <2>3, <3>2, <4>1, SubSeqProperties
    <3> QED
      BY <3>1, <3>3
  <2>5. <<i, D!Payload(i)>> \in Bundle
    <3>1. D!Payload(i) = SubSeq(q, h + 1, n)
      BY <2>1, <2>2 DEF D!Payload
    <3>2. D!Payload(i) \in Seq(Mark) /\ i \in Nat
      BY <1>1, <2>4, <3>1
    <3> QED
      BY <3>2 DEF Bundle
  <2> QED
    BY <2>5, EmptySeq DEF D!CarriedBy
<1>3. PICK f : f = [i \in 1 .. Len(packets) |-> D!CarriedBy(t, i)]
  OBVIOUS
<1>4. f \in Seq(Seq(Bundle)) /\ Len(f) = Len(packets)
      /\ (d + 1 <= Len(packets) => f[d + 1] = D!CarriedBy(t, d + 1))
  BY <1>1, <1>2, <1>3
<1>5. /\ L!Firsts(f, 0) = <<>>
      /\ d <= Len(f) => L!Firsts(f, d) \in Seq(Bundle)
      /\ d + 1 <= Len(f) => L!Firsts(f, d + 1) = L!Firsts(f, d) \o f[d + 1]
  BY <1>4, L!FirstsStep
<1>6. ASSUME NEW e \in 0 .. Len(f)
      PROVE  /\ L!Firsts(f, Len(f)) = L!FlattenSeq(f)
             /\ \E z \in Seq(Bundle) : L!Firsts(f, Len(f)) = L!Firsts(f, e) \o z
  BY <1>4, L!FirstsPrefix
<1>7. L!FlattenSeq(f) = D!Carried(t)
  BY <1>3 DEF D!Carried, D!FlattenSeq, L!FlattenSeq
<1>8. L!Firsts(f, Len(f)) = D!Carried(t)
  <2>1. 0 \in 0 .. Len(f)
    BY <1>1, <1>4
  <2> QED
    BY <1>6, <1>7, <2>1
<1>9. d <= Len(packets) => d \in 0 .. Len(f)
  BY <1>1, <1>4
<1> QED
  BY <1>3, <1>4, <1>5, <1>6, <1>8, <1>9 DEF Sofar

(* probe is done: with no track Dial fails, or Start reads all again. *)
LEMMA DialedStep ==
  ASSUME DvripInv, D!Probed
  PROVE  DvripInv'
<1>1. /\ WireOK(packets, marks, left) /\ tracks \subseteq Tracks
      /\ given \in [Tracks -> Seq(Bundle)]
      /\ dAt = "check" /\ left = <<>> /\ DvripReading
      /\ ReaderOK(drd) /\ drd.net = Len(drd.buf) /\ drd.net <= Len(marks) /\ NoneGiven /\ dSize = 0
  BY DEF DvripInv, D!Probed, DvripReading
<1>2. /\ dAt' = IF tracks = {} THEN "failed" ELSE "start"
      /\ cbuf' = <<>> /\ drd' = B!Reset(drd)
      /\ UNCHANGED <<packets, left, marks, dPart, dSize, tracks, given>>
  BY SameReadD DEF D!Probed
<1>3. ReaderOK(drd') /\ drd'.size <= 0 /\ drd'.net = drd.net /\ Place(drd') = 0
  <2>1. drd.net - Len(drd.buf) = 0
    BY <1>1, ReaderNumbers
  <2> QED
    BY <1>1, <1>2, <2>1, ReaderReset
<1>4. /\ WireOK(packets, marks, left)' /\ (cbuf = <<>>)' /\ (dPart = <<>>)' /\ (dSize = 0)'
      /\ (Place(drd) = 0)' /\ NoneGiven'
  <2>1. dPart = <<>>
    BY <1>1 DEF DvripReading, Behind
  <2> QED
    BY <1>1, <1>2, <1>3, <2>1 DEF Place, NoneGiven
<1>5. CASE tracks = {}
  BY <1>1, <1>2, <1>4, <1>5 DEF DvripInv
<1>6. CASE tracks # {}
  <2>1. 0 \in 0 .. Len(packets') /\ HeldAt(0)' /\ Behind(0)'
    BY <1>4, BehindNothing
  <2>2. GivenAt(0)'
    <3>1. packets' \in Seq(DvripPacket)
      BY <1>1, <1>2 DEF WireOK
    <3>2. \A t : Sofar(t, 0) = <<>>
      BY <1>1, SofarStep DEF WireOK
    <3>3. \A t : Sofar(t, 0)' = Sofar(t, 0)
      BY <1>2 DEF Sofar, D!CarriedBy, D!Payload, D!Units
    <3> QED
      BY <1>4, <3>2, <3>3 DEF GivenAt, NoneGiven
  <2>3. DvripReading'
    <3>1. ReaderOK(drd)' /\ drd'.net <= Len(marks') /\ dPart' \in Seq(Mark) /\ dSize' \in Nat
      <4>1. ReaderOK(drd)'
        BY <1>3 DEF ReaderOK
      <4> QED
        BY <1>1, <1>2, <1>3, <1>4, <4>1, NothingChained
    <3>2. dAt' = "start" /\ drd'.size <= 0
      BY <1>2, <1>3, <1>6
    <3> QED
      BY <2>1, <2>2, <3>1, <3>2 DEF DvripReading
  <2> QED
    BY <1>1, <1>2, <1>4, <1>6, <2>3 DEF DvripInv
<1> QED
  BY <1>5, <1>6

(* Marks, joined in two steps. *)
LEMMA MarksJoin ==
  ASSUME NEW q \in Seq(Mark), NEW r \in Seq(Mark), NEW s \in Seq(Mark)
  PROVE  (q \o r) \o s = q \o (r \o s)
BY ConcatAssociative

(* The marks from m on. *)
Shows(q, ms, m, n) == q \in Seq(Mark) /\ Len(q) = n /\ \A x \in 1 .. n : q[x] = ms[m + x]

(* A chunk that has been read follows what came before it. *)
LEMMA ChunkChain ==
  ASSUME NEW ps, NEW ms \in Seq(Mark), ChunksOK(ps, ms), NEW m \in 1 .. Len(ms), D!IsHeader(ms[m]),
         NEW n \in Nat, n = ms[m][2], NEW q, Shows(q, ms, m, n)
  PROVE  /\ n >= 1 /\ Boundary(ms, m + n)
         /\ Chained(ps, LastUnit(ms, m), q) /\ LastOf(LastUnit(ms, m), q) = LastUnit(ms, m + n)
<1>0. q \in Seq(Mark) /\ Len(q) = n /\ \A x \in 1 .. n : q[x] = ms[m + x]
  BY DEF Shows
<1>1. n >= 1 /\ Boundary(ms, m + n) /\ \A x \in 1 .. n : ~ D!IsHeader(ms[m + x])
  BY DEF ChunksOK, Chunk
<1>2. /\ m \in Nat /\ Len(ms) \in Nat /\ m + n <= Len(ms)
      /\ \A x \in 1 .. n : m + x \in 1 .. Len(ms)
  <2>1. PICK l \in Nat : l = Len(ms)
    BY LenProperties
  <2>2. m + n \in 0 .. l /\ m \in 1 .. l
    BY <1>1, <2>1 DEF Boundary
  <2>3. m \in Nat /\ m + n <= l /\ \A x \in 1 .. n : m + x \in 1 .. l
    BY <2>1, <2>2
  <2> QED
    BY <2>1, <2>3
<1>3. ASSUME NEW x \in 1 .. n PROVE LastUnit(ms, m + x) = ms[m + x]
  <2>1. ~ m + x < 2 /\ ~ D!IsHeader(ms[m + x])
    BY <1>1, <1>2
  <2> QED
    BY <2>1 DEF LastUnit
<1>4. ASSUME NEW x \in 1 .. n
      PROVE  UnitOf(ps, q[x]) /\ q[x] = After(ps, IF x = 1 THEN LastUnit(ms, m) ELSE q[x - 1])
  <2>1. PICK y \in 1 .. Len(ms) : y = m + x /\ q[x] = ms[y] /\ ~ D!IsHeader(ms[y])
    BY <1>0, <1>1, <1>2
  <2>2. UnitOf(ps, ms[y]) /\ ms[y] = After(ps, LastUnit(ms, y - 1))
    BY <2>1 DEF ChunksOK
  <2>3. LastUnit(ms, y - 1) = IF x = 1 THEN LastUnit(ms, m) ELSE q[x - 1]
    <3>1. CASE x = 1
      <4>1. y - 1 = m
        BY <1>2, <2>1, <3>1
      <4> QED
        BY <3>1, <4>1
    <3>2. CASE x # 1
      <4>1. x - 1 \in 1 .. n /\ y - 1 = m + (x - 1)
        BY <1>2, <2>1, <3>2
      <4>2. LastUnit(ms, m + (x - 1)) = ms[m + (x - 1)] /\ q[x - 1] = ms[m + (x - 1)]
        BY <1>0, <1>3, <4>1
      <4> QED
        BY <3>2, <4>1, <4>2
    <3> QED
      BY <3>1, <3>2
  <2> QED
    BY <2>1, <2>2, <2>3
<1>5. LastOf(LastUnit(ms, m), q) = LastUnit(ms, m + n)
  <2>1. q # <<>> /\ n \in 1 .. n
    BY <1>0, <1>1, EmptySeq
  <2> QED
    BY <1>0, <1>3, <2>1 DEF LastOf
<1> QED
  BY <1>0, <1>1, <1>4, <1>5 DEF Chained

(* What has been read of a chunk, and more of it. *)
LEMMA PartJoin ==
  ASSUME NEW ms, NEW m \in Nat, NEW k \in Nat, NEW n \in Nat, NEW q, NEW r,
         Shows(q, ms, m, k), Shows(r, ms, m + k, n)
  PROVE  Shows(q \o r, ms, m, k + n)
<1>0. /\ q \in Seq(Mark) /\ r \in Seq(Mark) /\ k = Len(q) /\ n = Len(r)
      /\ \A x \in 1 .. k : q[x] = ms[m + x]
      /\ \A x \in 1 .. n : r[x] = ms[(m + k) + x]
  BY DEF Shows
<1>1. PICK s : s = q \o r
  OBVIOUS
<1>2. /\ s \in Seq(Mark) /\ Len(s) = k + n
      /\ \A x \in 1 .. k + n : s[x] = IF x <= k THEN q[x] ELSE r[x - k]
  BY <1>0, <1>1, ConcatProperties
<1>3. ASSUME NEW x \in 1 .. k + n PROVE s[x] = ms[m + x]
  <2>1. CASE x <= k
    <3>1. x \in 1 .. k
      BY <2>1
    <3> QED
      BY <1>0, <1>2, <2>1, <3>1
  <2>2. CASE x > k
    <3>1. x - k \in 1 .. n /\ (m + k) + (x - k) = m + x /\ ~ x <= k
      <4>1. PICK y \in Nat, a \in Nat, b \in Nat : y = x /\ a = k /\ b = n /\ y > a /\ y <= a + b
        <5>1. PICK a \in Nat, b \in Nat : a = k /\ b = n
          OBVIOUS
        <5>2. x \in 1 .. a + b /\ x > a
          BY <2>2, <5>1
        <5>3. x \in Nat /\ x <= a + b
          BY <5>2
        <5> QED
          BY <5>1, <5>2, <5>3
      <4>2. y - a \in 1 .. b /\ (m + a) + (y - a) = m + y /\ ~ y <= a
        BY <4>1
      <4> QED
        BY <4>1, <4>2
    <3>2. r[x - k] = ms[(m + k) + (x - k)]
      BY <1>0, <3>1
    <3> QED
      BY <1>2, <3>1, <3>2
  <2> QED
    BY <2>1, <2>2
<1> QED
  BY <1>1, <1>2, <1>3 DEF Shows

(* What a Read that gives leaves of the reader. *)
LEMMA ReadLeaves ==
  ASSUME NEW r, NEW o, NEW want, ReaderOK(r), ReadGives(r, want, o)
  PROVE  /\ ReaderOK(o.r)
         /\ r.size <= 0 => o.r.size <= 0
         /\ r.size > 0 /\ r.net = Len(r.buf) => o.r.size = r.size /\ o.r.net = Len(o.r.buf)
<1>1. ReaderOK(o.r) /\ SizeKept(r, o.r)
  BY DEF ReadGives
<1>2. /\ r.size \in Int /\ r.net \in Nat /\ Len(r.buf) \in Nat
      /\ o.r.net \in Nat /\ Len(o.r.buf) \in Nat
  BY <1>1, ReaderNumbers
<1>3. r.size <= 0 => o.r.size <= 0
  BY <1>1, <1>2 DEF SizeKept
<1>4. ASSUME r.size > 0, r.net = Len(r.buf) PROVE o.r.size = r.size /\ o.r.net = Len(o.r.buf)
  <2>1. o.r.size = r.size /\ o.r.net - Len(o.r.buf) = r.net - Len(r.buf)
    BY <1>1, <1>4 DEF SizeKept
  <2>2. r.net - Len(r.buf) = 0
    BY <1>2, <1>4
  <2> QED
    BY <1>2, <2>1, <2>2
<1> QED
  BY <1>1, <1>3, <1>4

(* What ReadChunk does with the marks that a Read gave it. *)
Chunks(q) ==
  IF dSize = 0
  THEN /\ UNCHANGED <<dPart, cbuf>>
       /\ IF D!IsHeader(q[1]) THEN dSize' = q[1][2] /\ UNCHANGED dAt
          ELSE dAt' = "failed" /\ UNCHANGED dSize
  ELSE /\ UNCHANGED dAt
       /\ IF Len(q) < D!Wanted THEN dPart' = dPart \o q /\ UNCHANGED <<dSize, cbuf>>
          ELSE dPart' = <<>> /\ dSize' = 0 /\ cbuf' = (cbuf \o dPart) \o q

(* The reader stays behind what is held. *)
LEMMA ChunkStep ==
  ASSUME WireOK(packets, marks, left), NEW j \in 0 .. Len(packets), HeldAt(j), Behind(j),
         dPart \in Seq(Mark), dSize \in Nat, D!ReadsChunk, NEW p \in Nat, Place(drd) = p,
         NEW n \in 1 .. D!Wanted, p + n <= Len(marks), Place(drd)' = p + n,
         NEW q \in Seq(Mark), Len(q) = n, \A x \in 1 .. n : q[x] = marks[p + x], Chunks(q),
         UNCHANGED <<packets, marks>>
  PROVE  /\ HeldAt(j)' /\ Behind(j)' /\ dPart' \in Seq(Mark) /\ dSize' \in Nat
         /\ dAt' = dAt
<1>1. PICK ps, ms, c : ps = packets /\ ms = marks /\ c = LastOf(EndOf(packets, j), cbuf)
  OBVIOUS
<1>2. ms \in Seq(Mark) /\ ps \in Seq(DvripPacket) /\ ChunksOK(ps, ms) /\ Len(ms) \in Nat
  BY <1>1, LenProperties DEF WireOK
<1>3. cbuf \in Seq(Mark) /\ Chained(ps, EndOf(ps, j), cbuf) /\ Len(dPart) \in Nat
  BY <1>1, LenProperties DEF HeldAt
<1>4. CASE dSize = 0
  <2>1. dPart = <<>> /\ Len(dPart) = 0 /\ Boundary(ms, p) /\ LastUnit(ms, p) = c
    BY <1>1, <1>4, EmptySeq DEF Behind
  <2>2. n = 1
    BY <1>4, <2>1 DEF D!Wanted
  <2>3. PICK m \in 1 .. Len(ms) : m = p + 1 /\ q[1] = ms[m] /\ D!IsHeader(ms[m])
    <3>1. p + 1 \in 1 .. Len(ms) /\ p < Len(ms) /\ q[1] = ms[p + 1]
      BY <1>1, <1>2, <2>2
    <3> QED
      BY <2>1, <3>1 DEF Boundary
  <2>4. LastUnit(ms, m) = c
    <3>1. p \in 0 .. Len(ms) /\ p < Len(ms)
      BY <1>2, <2>3
    <3> QED
      BY <1>2, <2>1, <2>3, <3>1, LastUnitFacts
  <2>5. PICK k \in Nat : k = ms[m][2] /\ k >= 1 /\ ms[m] = <<0, k>>
    <3>1. ms[m] \in Mark
      BY <1>2, ElementOfSeq
    <3>2. ms[m][2] >= 1
      BY <1>2, <2>3 DEF ChunksOK, Chunk
    <3>3. ms[m][2] \in Nat /\ ms[m] = <<ms[m][1], ms[m][2]>>
      BY <3>1, SMTT(30) DEF Mark
    <3>4. ms[m][1] = 0
      BY <2>3 DEF D!IsHeader
    <3>5. ms[m] = <<0, ms[m][2]>>
      BY <3>3, <3>4
    <3> QED
      BY <3>2, <3>3, <3>5
  <2>6. dSize' = k /\ UNCHANGED <<dPart, cbuf, dAt>>
    BY <1>4, <2>3, <2>5 DEF Chunks
  <2>7. ChunkRead(m)'
    <3>1. Len(dPart') = 0 /\ Place(drd)' = m + Len(dPart') /\ Len(dPart') < k
      BY <2>1, <2>2, <2>3, <2>5, <2>6
    <3>2. \A x \in 1 .. Len(dPart') : dPart'[x] = marks'[m + x]
      BY <3>1
    <3>3. m \in 1 .. Len(marks') /\ marks'[m] = <<0, dSize'>> /\ Len(dPart') < dSize'
      BY <1>1, <2>5, <2>6, <3>1
    <3> QED
      BY <3>1, <3>2, <3>3 DEF ChunkRead
  <2>8. HeldAt(j)'
    BY <2>6 DEF HeldAt
  <2>9. D!ReadsChunk' /\ dSize' # 0
    BY <2>5, <2>6 DEF D!ReadsChunk, D!PacketSize
  <2>10. LastUnit(marks, m)' = LastOf(EndOf(packets, j), cbuf)'
    BY <1>1, <2>4, <2>6
  <2>11. m \in 1 .. Len(marks')
    BY <1>1
  <2>12. Behind(j)'
    BY <2>7, <2>9, <2>10, <2>11 DEF Behind
  <2> QED
    BY <2>5, <2>6, <2>8, <2>12
<1>5. CASE dSize # 0
  <2>1. PICK m \in 1 .. Len(ms) :
          /\ ms[m] = <<0, dSize>> /\ Len(dPart) < dSize
          /\ \A x \in 1 .. Len(dPart) : dPart[x] = ms[m + x]
          /\ p = m + Len(dPart) /\ LastUnit(ms, m) = c
    BY <1>1, <1>5 DEF Behind, ChunkRead
  <2>2. PICK k \in Nat : k = Len(dPart) /\ p = m + k /\ D!Wanted = dSize - k
    BY <1>3, <1>5, <2>1 DEF D!Wanted
  <2>3. PICK g : g = dPart \o q
    OBVIOUS
  <2>4. g \in Seq(Mark) /\ Len(g) = k + n /\ \A x \in 1 .. k + n : g[x] = ms[m + x]
    <3>1. m \in Nat /\ n \in Nat /\ \A x \in 1 .. n : q[x] = ms[(m + k) + x]
      BY <1>1, <1>2, <2>2
    <3>2. Shows(q, ms, m + k, n)
      BY <3>1 DEF Shows
    <3>3. Shows(dPart, ms, m, k)
      BY <2>1, <2>2 DEF Shows
    <3>4. Shows(g, ms, m, k + n)
      BY <2>3, <3>1, <3>2, <3>3, PartJoin
    <3> QED
      BY <3>4 DEF Shows
  <2>5. Place(drd)' = m + (k + n)
    <3>1. p + n = m + (k + n)
      BY <2>2
    <3> QED
      BY <3>1
  <2>6. CASE n < D!Wanted
    <3>1. dPart' = g /\ UNCHANGED <<dSize, cbuf, dAt>>
      BY <1>5, <2>3, <2>6 DEF Chunks
    <3>2. k + n < dSize
      BY <2>2, <2>6
    <3>3. ChunkRead(m)'
      BY <1>1, <2>1, <2>4, <2>5, <3>1, <3>2 DEF ChunkRead
    <3>4. HeldAt(j)'
      BY <3>1 DEF HeldAt
    <3>5. D!ReadsChunk' /\ dSize' # 0
      BY <1>5, <3>1 DEF D!ReadsChunk, D!PacketSize
    <3>6. LastUnit(marks, m)' = LastOf(EndOf(packets, j), cbuf)' /\ m \in 1 .. Len(marks')
      BY <1>1, <2>1, <3>1
    <3>7. Behind(j)'
      BY <3>3, <3>5, <3>6 DEF Behind
    <3> QED
      BY <2>4, <3>1, <3>4, <3>7
  <2>7. CASE ~ n < D!Wanted
    <3>1. dPart' = <<>> /\ dSize' = 0 /\ cbuf' = (cbuf \o dPart) \o q /\ dAt' = dAt
      BY <1>5, <2>7 DEF Chunks
    <3>2. k + n = dSize
      <4>1. PICK d \in Nat, i \in Nat : d = dSize /\ i = n
        OBVIOUS
      <4>2. i \in 1 .. d - k /\ ~ i < d - k
        BY <2>2, <2>7, <4>1
      <4>3. k + i = d
        <5>1. PICK a \in Nat : a = k
          BY <2>2
        <5>2. i \in 1 .. d - a /\ ~ i < d - a
          BY <4>2, <5>1
        <5>3. a + i = d
          BY <5>2
        <5> QED
          BY <5>1, <5>3
      <4> QED
        BY <4>1, <4>3
    <3>3. cbuf' = cbuf \o g
      BY <1>3, <2>3, <3>1, MarksJoin
    <3>4. /\ Boundary(ms, m + dSize)
          /\ Chained(ps, c, g) /\ LastOf(c, g) = LastUnit(ms, m + dSize)
      <4>1. D!IsHeader(ms[m]) /\ dSize = ms[m][2]
        BY <2>1 DEF D!IsHeader
      <4>2. Shows(g, ms, m, dSize)
        BY <2>4, <3>2 DEF Shows
      <4>3. LastUnit(ms, m) = c /\ ChunksOK(ps, ms) /\ ms \in Seq(Mark)
        BY <1>2, <2>1, <2>4
      <4>4. /\ Boundary(ms, m + dSize) /\ Chained(ps, LastUnit(ms, m), g)
            /\ LastOf(LastUnit(ms, m), g) = LastUnit(ms, m + dSize)
        BY <4>1, <4>2, <4>3, ChunkChain
      <4> QED
        BY <4>3, <4>4
    <3>5. /\ cbuf \o g \in Seq(Mark) /\ Chained(ps, EndOf(ps, j), cbuf \o g)
          /\ LastOf(EndOf(ps, j), cbuf \o g) = LastOf(c, g)
      BY <1>1, <1>3, <2>4, <3>4, ChainJoin
    <3>6. HeldAt(j)'
      BY <1>1, <3>3, <3>5 DEF HeldAt
    <3>7. Behind(j)'
      <4>1. Place(drd)' = m + dSize
        BY <2>5, <3>2
      <4> QED
        BY <1>1, <3>1, <3>3, <3>4, <3>5, <4>1 DEF Behind
    <3> QED
      BY <3>1, <3>6, <3>7, NothingChained
  <2> QED
    BY <2>6, <2>7
<1> QED
  BY <1>4, <1>5


(* ReadChunk calls Read once; it fails only where probe has read too much. *)
LEMMA ReadChunkStep ==
  ASSUME DvripInv, D!ReadChunk
  PROVE  DvripInv'
<1>1. /\ WireOK(packets, marks, left) /\ tracks \subseteq Tracks
      /\ given \in [Tracks -> Seq(Bundle)]
      /\ dAt \in {"probe", "start"} /\ left = <<>> /\ DvripReading /\ D!ReadsChunk
  BY DEF DvripInv, D!ReadChunk
<1>2. PICK o \in D!Read(drd, D!Wanted, Len(marks)) :
        LET new == [i \in DOMAIN o.got |-> marks[o.got[i]]] IN
        /\ drd' = o.r
        /\ IF o.fails THEN dAt' = "failed" /\ UNCHANGED <<dPart, dSize, cbuf>>
           ELSE Chunks(new)
  BY DEF D!ReadChunk, Chunks
<1>3. UNCHANGED <<packets, left, marks, tracks, given>>
  BY DEF D!ReadChunk
<1>4. /\ ReaderOK(drd) /\ drd.net <= Len(marks) /\ dPart \in Seq(Mark) /\ dSize \in Nat
      /\ IF dAt = "start" THEN drd.size <= 0
         ELSE drd.size = KeepSize /\ drd.net = Len(drd.buf) /\ NoneGiven
      /\ Len(marks) \in Nat /\ marks \in Seq(Mark) /\ Len(dPart) \in Nat
  BY <1>1, LenProperties DEF DvripReading, WireOK
<1>5. PICK j \in 0 .. Len(packets) : HeldAt(j) /\ Behind(j) /\ (dAt = "start" => GivenAt(j))
  BY <1>1 DEF DvripReading
<1>6. PICK w \in Nat \ {0} : w = D!Wanted
  <2>1. CASE dSize = 0
    <3>1. Len(dPart) = 0
      BY <1>5, <2>1, EmptySeq DEF Behind
    <3>2. D!Wanted = 1
      BY <2>1, <3>1 DEF D!Wanted
    <3> QED
      BY <3>2
  <2>2. CASE dSize # 0
    <3>1. Len(dPart) < dSize
      BY <1>5, <2>2 DEF Behind, ChunkRead
    <3>2. D!Wanted = dSize - Len(dPart)
      BY <2>2 DEF D!Wanted
    <3>3. dSize - Len(dPart) \in Nat \ {0}
      BY <1>4, <3>1
    <3> QED
      BY <3>2, <3>3
  <2> QED
    BY <2>1, <2>2
<1>7. o \in B!Read(drd, w, Len(marks))
  BY <1>6, SameReadD
<1>8. /\ ReadFails(drd, o) \/ ReadGives(drd, w, o)
      /\ o.r.net <= Len(marks)
  BY <1>4, <1>7, Reads
<1>9. WireOK(packets, marks, left)' /\ tracks' \subseteq Tracks /\ given' \in [Tracks -> Seq(Bundle)]
      /\ left' = <<>>
  BY <1>1, <1>3
<1>10. NoneGiven => NoneGiven'
  BY <1>3 DEF NoneGiven
<1>11. CASE ReadFails(drd, o)
  <2>1. o.fails = TRUE /\ drd.size > 0 /\ o.r.net > drd.size + (drd.net - Len(drd.buf))
    BY <1>11 DEF ReadFails
  <2>2. dAt # "start"
    <3>1. drd.size \in Int
      BY <1>4, ReaderNumbers
    <3> QED
      BY <1>4, <2>1, <3>1
  <2>3. drd.size = KeepSize /\ drd.net = Len(drd.buf) /\ NoneGiven
    BY <1>4, <2>2
  <2>4. drd.net - Len(drd.buf) = 0
    <3>1. Len(drd.buf) \in Nat
      BY <1>4, ReaderNumbers
    <3> QED
      BY <2>3, <3>1
  <2>5. o.r.net > KeepSize
    <3>1. o.r.net > KeepSize + 0
      BY <2>1, <2>3, <2>4
    <3>2. KeepSize + 0 = KeepSize
      BY DvripAssumption
    <3> QED
      BY <3>1, <3>2
  <2>6. dAt' = "failed" /\ drd' = o.r
    BY <1>2, <2>1
  <2> QED
    BY <1>9, <1>10, <2>3, <2>5, <2>6 DEF DvripInv
<1>12. CASE ReadGives(drd, w, o)
  <2>1. PICK n \in 1 .. w : o.got = B!Bytes(Place(drd), n) /\ Place(o.r) = Place(drd) + n
    BY <1>12 DEF ReadGives
  <2>2. o.fails = FALSE /\ ReaderOK(o.r)
    BY <1>12 DEF ReadGives
  <2>3. PICK p \in Nat : p = Place(drd)
    <3>1. Place(drd) \in Nat
      BY <1>4, ReaderNumbers DEF Place
    <3> QED
      BY <3>1
  <2>4. p + n <= Len(marks)
    <3>1. Place(o.r) <= o.r.net
      BY <2>2, ReaderNumbers DEF Place
    <3>2. o.r.net \in Nat
      BY <2>2, ReaderNumbers
    <3> QED
      BY <1>4, <1>8, <2>1, <2>3, <3>1, <3>2
  <2>5. PICK q : q = [i \in DOMAIN o.got |-> marks[o.got[i]]]
    OBVIOUS
  <2>6. q \in Seq(Mark) /\ Len(q) = n /\ \A x \in 1 .. n : q[x] = marks[p + x]
    <3>1. DOMAIN o.got = 1 .. n /\ \A i \in 1 .. n : o.got[i] = p + i
      BY <2>1, <2>3 DEF B!Bytes
    <3>2. \A i \in 1 .. n : p + i \in 1 .. Len(marks)
      BY <1>4, <2>4
    <3>3. \A i \in 1 .. n : marks[p + i] \in Mark
      BY <1>4, <3>2, ElementOfSeq
    <3>4. q = [i \in 1 .. n |-> marks[p + i]]
      BY <2>5, <3>1
    <3> QED
      BY <3>3, <3>4
  <2>7. Chunks(q) /\ drd' = o.r
    BY <1>2, <2>2, <2>5
  <2>8. Place(drd)' = p + n
    BY <2>1, <2>3, <2>7 DEF Place
  <2>9. /\ HeldAt(j)' /\ Behind(j)' /\ dPart' \in Seq(Mark) /\ dSize' \in Nat
        /\ dAt' = dAt
    <3>1. n \in 1 .. D!Wanted /\ Place(drd) = p /\ UNCHANGED <<packets, marks>>
      BY <1>3, <1>6, <2>3
    <3> QED
      BY <1>1, <1>4, <1>5, <2>4, <2>6, <2>7, <2>8, <3>1, ChunkStep
  <2>10. /\ ReaderOK(drd') /\ drd'.net <= Len(marks')
         /\ drd.size <= 0 => drd'.size <= 0
         /\ drd.size > 0 /\ drd.net = Len(drd.buf) => drd'.size = drd.size /\ drd'.net = Len(drd'.buf)
    BY <1>3, <1>4, <1>8, <1>12, <2>7, ReadLeaves
  <2>11. GivenAt(j) => GivenAt(j)'
    BY <1>3 DEF GivenAt, Sofar, D!CarriedBy, D!Payload, D!Units
  <2>12. IF dAt' = "start" THEN drd'.size <= 0
         ELSE drd'.size = KeepSize /\ drd'.net = Len(drd'.buf) /\ NoneGiven'
    BY <1>4, <1>10, <2>9, <2>10, DvripAssumption
  <2>13. DvripReading'
    <3>1. ReaderOK(drd)'
      BY <2>10 DEF ReaderOK
    <3>2. j \in 0 .. Len(packets')
      BY <1>3
    <3> QED
      BY <1>1, <1>5, <2>9, <2>10, <2>11, <2>12, <3>1, <3>2 DEF DvripReading
  <2> QED
    BY <1>1, <1>9, <2>9, <2>13 DEF DvripInv
<1> QED
  BY <1>8, <1>11, <1>12

(* The payload that is taken is that of the packet. *)
LEMMA PayloadTaken ==
  ASSUME packets \in Seq(DvripPacket), NEW i \in 1 .. Len(packets), NEW q \in Seq(Mark),
         packets[i].size <= Len(q),
         \A x \in 1 .. packets[i].size : q[x] = <<i, x>>
  PROVE  /\ SubSeq(q, D!Header(packets[i].kind) + 1, packets[i].size) = D!Payload(i)
         /\ D!Payload(i) \in Seq(Mark) /\ i \in Nat
<1>1. PICK z \in Nat, h \in Nat : z = packets[i].size /\ h = D!Header(packets[i].kind) /\ h <= z
  <2>1. packets[i].size \in 1 .. 3 /\ D!Header(packets[i].kind) \in 1 .. 2
        /\ packets[i].size \in D!Header(packets[i].kind) .. D!Header(packets[i].kind) + 1
    BY PacketFacts
  <2> QED
    BY <2>1
<1>2. i \in Nat /\ Len(q) \in Nat
  BY LenProperties
<1>3. PICK u : u = D!Units(i)
  OBVIOUS
<1>4. u \in Seq(Mark) /\ Len(u) = z /\ \A x \in 1 .. z : u[x] = <<i, x>>
  <2>1. u = [x \in 1 .. z |-> <<i, x>>]
    BY <1>1, <1>3 DEF D!Units
  <2> QED
    BY <1>2, <2>1 DEF Mark
<1>5. PICK a, b : a = SubSeq(q, h + 1, z) /\ b = SubSeq(u, h + 1, z)
  OBVIOUS
<1>6. h + 1 \in 1 .. z + 1 /\ z \in (h + 1) - 1 .. z
  BY <1>1
<1>7. /\ b \in Seq(Mark) /\ Len(b) = (z - (h + 1)) + 1
      /\ \A x \in 1 .. (z - (h + 1)) + 1 : b[x] = u[(h + 1) + x - 1]
  BY <1>4, <1>5, <1>6, SubSeqProperties, SMTT(30)
<1>8. /\ a \in Seq(Mark) /\ Len(a) = (z - (h + 1)) + 1
      /\ \A x \in 1 .. (z - (h + 1)) + 1 : a[x] = q[(h + 1) + x - 1]
  <2>1. PICK l \in Nat : l = Len(q) /\ z <= l
    BY <1>1, <1>2
  <2>2. h + 1 \in 1 .. l + 1 /\ z \in (h + 1) - 1 .. l
    BY <1>1, <2>1
  <2>3. h + 1 \in 1 .. Len(q) + 1 /\ z \in (h + 1) - 1 .. Len(q)
    BY <2>1, <2>2
  <2> QED
    BY <1>5, <2>3, SubSeqProperties
<1>9. ASSUME NEW x \in 1 .. Len(a) PROVE a[x] = b[x]
  <2>1. x \in 1 .. (z - (h + 1)) + 1
    BY <1>8
  <2>2. (h + 1) + x - 1 \in 1 .. z
    BY <1>1, <2>1, SMTT(30)
  <2> QED
    BY <1>1, <1>4, <1>7, <1>8, <2>1, <2>2
<1>10. a = b
  BY <1>7, <1>8, <1>9, SeqEqual
<1>11. b = D!Payload(i)
  BY <1>1, <1>3, <1>5 DEF D!Payload
<1> QED
  BY <1>1, <1>2, <1>5, <1>7, <1>10, <1>11

(* ReadPacket has a packet: its header comes first. *)
LEMMA PacketThere ==
  ASSUME WireOK(packets, marks, left), NEW j \in 0 .. Len(packets), HeldAt(j), Behind(j),
         ~ D!ReadsChunk
  PROVE  /\ dSize = 0 /\ dPart = <<>>
         /\ j + 1 \in 1 .. Len(packets) /\ cbuf[1][1] = j + 1 /\ cbuf[1][2] = 1
         /\ packets[j + 1].size \in 0 .. Len(cbuf)
         /\ \A x \in 1 .. packets[j + 1].size : cbuf[x] = <<j + 1, x>>
<1>1. dSize = 0 /\ dPart = <<>>
  BY DEF Behind
<1>2. PICK l \in Nat : l = Len(cbuf) /\ cbuf \in Seq(Mark)
  BY LenProperties DEF HeldAt
<1>3. l >= 2
  <2>1. CASE l >= 2 /\ cbuf[1][2] = 1
    BY <2>1
  <2>2. CASE ~ (l >= 2 /\ cbuf[1][2] = 1)
    BY <1>2, <2>2 DEF D!ReadsChunk
  <2> QED
    BY <2>1, <2>2
<1>4. cbuf # <<>>
  BY <1>2, <1>3, EmptySeq
<1>5. /\ j + 1 \in 1 .. Len(packets) /\ cbuf[1] = <<j + 1, 1>>
      /\ \A x \in 1 .. Len(cbuf) : x <= packets[j + 1].size => cbuf[x] = <<j + 1, x>>
  BY <1>2, <1>4, ChainPacket DEF HeldAt, WireOK
<1>6. PICK z \in 1 .. 3 : z = packets[j + 1].size
  BY <1>5, PacketFacts DEF WireOK
<1>7. z <= l
  BY <1>2, <1>3, <1>5, <1>6 DEF D!ReadsChunk, D!PacketSize
<1>8. z \in 0 .. l /\ \A x \in 1 .. z : x \in 1 .. l /\ x <= z
  BY <1>7
<1> QED
  BY <1>1, <1>2, <1>5, <1>6, <1>8

(* The packet is cut off what is held. *)
LEMMA PacketCut ==
  ASSUME WireOK(packets, marks, left), NEW j \in 0 .. Len(packets), HeldAt(j), Behind(j),
         ~ D!ReadsChunk, cbuf' = SubSeq(cbuf, packets[j + 1].size + 1, Len(cbuf)),
         UNCHANGED <<packets, marks, drd, dPart, dSize>>
  PROVE  HeldAt(j + 1)' /\ Behind(j + 1)'
<1>1. /\ dSize = 0 /\ dPart = <<>> /\ j + 1 \in 1 .. Len(packets)
      /\ packets[j + 1].size \in 0 .. Len(cbuf)
      /\ \A x \in 1 .. packets[j + 1].size : cbuf[x] = <<j + 1, x>>
  BY PacketThere
<1>2. PICK z \in 1 .. 3 : z = packets[j + 1].size
  BY <1>1, PacketFacts DEF WireOK
<1>3. PICK a, b : a = SubSeq(cbuf, 1, z) /\ b = SubSeq(cbuf, z + 1, Len(cbuf))
  OBVIOUS
<1>4. PICK c : c = EndOf(packets, j)
  OBVIOUS
<1>5. cbuf \in Seq(Mark) /\ Chained(packets, c, cbuf)
  BY <1>4 DEF HeldAt
<1>6. /\ a \in Seq(Mark) /\ b \in Seq(Mark) /\ Len(a) = z
      /\ \A x \in 1 .. z : a[x] = cbuf[x]
      /\ Chained(packets, LastOf(c, a), b)
      /\ LastOf(LastOf(c, a), b) = LastOf(c, cbuf)
  <2>1. z \in 0 .. Len(cbuf)
    BY <1>1, <1>2
  <2> QED
    BY <1>3, <1>5, <2>1, ChainCut
<1>7. LastOf(c, a) = EndOf(packets, j + 1)
  <2>1. a # <<>> /\ z \in 1 .. z
    BY <1>6, EmptySeq
  <2>2. a[z] = <<j + 1, z>>
    BY <1>1, <1>2, <1>6, <2>1
  <2>3. j + 1 # 0
    BY <1>1
  <2> QED
    BY <1>2, <1>6, <2>1, <2>2, <2>3 DEF LastOf, EndOf
<1>8. HeldAt(j + 1)'
  BY <1>2, <1>3, <1>6, <1>7 DEF HeldAt
<1>9. Boundary(marks, Place(drd)) /\ LastUnit(marks, Place(drd)) = LastOf(c, cbuf)
  BY <1>1, <1>4 DEF Behind
<1>10. cbuf' = b /\ Place(drd)' = Place(drd)
  BY <1>2, <1>3 DEF Place
<1>11. LastOf(EndOf(packets, j + 1), cbuf)' = LastUnit(marks, Place(drd))
  BY <1>6, <1>7, <1>9, <1>10
<1> QED
  BY <1>1, <1>8, <1>9, <1>10, <1>11 DEF Behind

(* Start gives the payload of the next packet to its track. *)
LEMMA FrameGiven ==
  ASSUME packets \in Seq(DvripPacket), tracks \subseteq Tracks, given \in [Tracks -> Seq(Bundle)],
         NEW j \in 0 .. Len(packets), j + 1 \in 1 .. Len(packets), GivenAt(j),
         D!Payload(j + 1) \in Seq(Mark), j + 1 \in Nat,
         NEW k, k = D!TrackOf(packets[j + 1].kind), NEW e, e = <<j + 1, D!Payload(j + 1)>>,
         given' = IF k \in tracks THEN [given EXCEPT ![k] = Append(@, e)] ELSE given,
         UNCHANGED <<packets, tracks>>
  PROVE  GivenAt(j + 1)' /\ given' \in [Tracks -> Seq(Bundle)]
<1>2. e \in Bundle
  BY DEF Bundle
<1>3. j \in Nat /\ j + 1 <= Len(packets) /\ j <= Len(packets)
  BY LenProperties
<1>4. ASSUME NEW t \in Tracks
      PROVE  /\ Sofar(t, j) \in Seq(Bundle)
             /\ Sofar(t, j + 1) = Sofar(t, j) \o (IF k = t THEN <<e>> ELSE <<>>)
  BY <1>3, SofarStep DEF D!CarriedBy
<1>5. ASSUME NEW t \in Tracks
      PROVE  /\ given'[t] \in Seq(Bundle)
             /\ given'[t] = IF t \in tracks' THEN Sofar(t, j + 1)' ELSE <<>>
  <2>1. Sofar(t, j + 1)' = Sofar(t, j + 1)
    BY DEF Sofar, D!CarriedBy, D!Payload, D!Units
  <2>2. CASE t \in tracks /\ k = t
    <3>1. given[t] = Sofar(t, j) /\ given'[t] = Append(given[t], e)
      BY <2>2 DEF GivenAt
    <3>2. PICK s \in Seq(Bundle) : s = Sofar(t, j)
      BY <1>4
    <3>3. Append(s, e) = s \o <<e>> /\ Append(s, e) \in Seq(Bundle)
      BY <1>2, AppendIsConcat, AppendProperties
    <3>4. given'[t] = Sofar(t, j) \o <<e>> /\ given'[t] \in Seq(Bundle)
      BY <3>1, <3>2, <3>3
    <3> QED
      BY <1>4, <2>1, <2>2, <3>4
  <2>3. CASE t \in tracks /\ k # t
    <3>1. given[t] = Sofar(t, j) /\ given'[t] = given[t]
      BY <2>3 DEF GivenAt
    <3>2. Sofar(t, j) \o <<>> = Sofar(t, j)
      BY <1>4, ConcatEmptySeq, SMTT(30)
    <3> QED
      BY <1>4, <2>1, <2>3, <3>1, <3>2
  <2>4. CASE t \notin tracks
    <3>1. given[t] = <<>> /\ given'[t] = given[t]
      BY <2>4, SMTT(30) DEF GivenAt
    <3> QED
      BY <2>4, <3>1, EmptySeq
  <2> QED
    BY <2>2, <2>3, <2>4
<1>6. given' \in [Tracks -> Seq(Bundle)]
  <2>1. given' = [t \in Tracks |-> given'[t]]
    OBVIOUS
  <2> QED
    BY <1>5, <2>1
<1>7. GivenAt(j + 1)'
  BY <1>5 DEF GivenAt
<1> QED
  BY <1>6, <1>7

(* ReadPacket takes the next packet: a header is never missed. *)
LEMMA ReadPacketStep ==
  ASSUME DvripInv, D!ReadPacket
  PROVE  DvripInv'
<1>1. /\ WireOK(packets, marks, left) /\ tracks \subseteq Tracks
      /\ given \in [Tracks -> Seq(Bundle)] /\ packets \in Seq(DvripPacket)
      /\ dAt \in {"probe", "start"} /\ left = <<>> /\ DvripReading /\ ~ D!ReadsChunk
  BY DEF DvripInv, D!ReadPacket, WireOK
<1>2. UNCHANGED <<packets, left, marks, drd, dPart, dSize>>
  BY DEF D!ReadPacket
<1>3. PICK j \in 0 .. Len(packets) : HeldAt(j) /\ Behind(j) /\ (dAt = "start" => GivenAt(j))
  BY <1>1 DEF DvripReading
<1>4. /\ dSize = 0 /\ dPart = <<>>
      /\ j + 1 \in 1 .. Len(packets) /\ cbuf[1][1] = j + 1 /\ cbuf[1][2] = 1
      /\ packets[j + 1].size \in 0 .. Len(cbuf)
      /\ \A x \in 1 .. packets[j + 1].size : cbuf[x] = <<j + 1, x>>
  BY <1>1, <1>3, PacketThere
<1>5. D!TakePacket
  BY <1>4 DEF D!ReadPacket
<1>6. PICK z : z = packets[j + 1].size /\ z = D!PacketSize
  BY <1>4, SMTT(30) DEF D!PacketSize
<1>7. cbuf' = SubSeq(cbuf, packets[j + 1].size + 1, Len(cbuf))
  BY <1>5, <1>6 DEF D!TakePacket
<1>8. HeldAt(j + 1)' /\ Behind(j + 1)'
  BY <1>1, <1>2, <1>3, <1>7, PacketCut
<1>9. WireOK(packets, marks, left)' /\ left' = <<>> /\ j + 1 \in 0 .. Len(packets')
  BY <1>1, <1>2, <1>4
<1>10. /\ ReaderOK(drd)' /\ drd'.net <= Len(marks') /\ dPart' \in Seq(Mark) /\ dSize' = 0
  <2>1. ReaderOK(drd) /\ drd.net <= Len(marks) /\ dPart \in Seq(Mark)
    BY <1>1 DEF DvripReading
  <2> QED
    BY <1>2, <1>4, <2>1 DEF ReaderOK
<1>11. CASE dAt = "probe"
  <2>1. dAt' = "check" /\ given' = given /\ tracks' \subseteq Tracks
    BY <1>1, <1>5, <1>11 DEF D!TakePacket, D!TrackOf, Tracks
  <2>2. drd'.size = KeepSize /\ drd'.net = Len(drd'.buf) /\ NoneGiven'
    <3>1. drd.size = KeepSize /\ drd.net = Len(drd.buf) /\ NoneGiven
      BY <1>1, <1>11 DEF DvripReading
    <3> QED
      BY <1>2, <2>1, <3>1 DEF NoneGiven
  <2>3. DvripReading'
    BY <1>8, <1>9, <1>10, <2>1, <2>2 DEF DvripReading
  <2> QED
    BY <1>1, <1>9, <2>1, <2>3 DEF DvripInv
<1>12. CASE dAt = "start"
  <2>1. PICK k : k = D!TrackOf(packets[j + 1].kind)
    OBVIOUS
  <2>2. PICK h : h = D!Header(packets[j + 1].kind)
    OBVIOUS
  <2>3. PICK e : e = <<j + 1, D!Payload(j + 1)>>
    OBVIOUS
  <2>4. /\ SubSeq(cbuf, h + 1, z) = D!Payload(j + 1)
        /\ D!Payload(j + 1) \in Seq(Mark) /\ j + 1 \in Nat
    <3>1. cbuf \in Seq(Mark) /\ packets[j + 1].size <= Len(cbuf)
      BY <1>3, <1>4 DEF HeldAt
    <3> QED
      BY <1>1, <1>4, <1>6, <2>2, <3>1, PayloadTaken
  <2>5. /\ dAt' = "start" /\ tracks' = tracks
        /\ given' = IF k \in tracks THEN [given EXCEPT ![k] = Append(@, e)] ELSE given
    BY <1>4, <1>5, <1>6, <1>12, <2>1, <2>2, <2>3, <2>4 DEF D!TakePacket
  <2>6. GivenAt(j + 1)' /\ given' \in [Tracks -> Seq(Bundle)]
    BY <1>1, <1>2, <1>3, <1>4, <1>12, <2>1, <2>3, <2>4, <2>5, FrameGiven
  <2>7. drd'.size <= 0
    BY <1>1, <1>2, <1>12 DEF DvripReading
  <2>8. DvripReading'
    BY <1>8, <1>9, <1>10, <2>5, <2>6, <2>7 DEF DvripReading
  <2> QED
    BY <1>1, <1>9, <2>5, <2>6, <2>8 DEF DvripInv
<1> QED
  BY <1>1, <1>11, <1>12

(* Every step keeps the invariant. *)
LEMMA DvripStep == DvripInv /\ [D!Next]_dvripVars => DvripInv'
<1> SUFFICES ASSUME DvripInv, [D!Next]_dvripVars PROVE DvripInv'
  OBVIOUS
<1>1. CASE D!Send \/ D!SendChunk
  BY <1>1, CameraSends
<1>2. CASE D!Probe
  BY <1>2, ProbeStep
<1>3. CASE D!ReadChunk
  BY <1>3, ReadChunkStep
<1>4. CASE D!ReadPacket
  BY <1>4, ReadPacketStep
<1>5. CASE D!ProbeMore
  BY <1>5, ProbeAgainStep
<1>6. CASE D!Probed
  BY <1>6, DialedStep
<1>7. CASE UNCHANGED dvripVars
  <2>1. UNCHANGED <<packets, left, marks, dAt, drd, dPart, dSize, cbuf, tracks, given>>
    BY <1>7 DEF dvripVars
  <2>2. WireOK(packets, marks, left)' <=> WireOK(packets, marks, left)
    BY <2>1
  <2>3. NoneGiven' <=> NoneGiven
    BY <2>1 DEF NoneGiven
  <2>4. DvripReading' <=> DvripReading
    BY <2>1 DEF DvripReading, ReaderOK, NoneGiven, HeldAt, Behind, ChunkRead, Place,
                GivenAt, Sofar, D!CarriedBy, D!Payload, D!Units, D!ReadsChunk, D!PacketSize
  <2> QED
    BY <2>1, <2>2, <2>3, <2>4 DEF DvripInv
<1> QED
  BY <1>1, <1>2, <1>3, <1>4, <1>5, <1>6, <1>7 DEF D!Next

(* What a track was given is the beginning of what its packets carry. *)
LEMMA GivenFirst ==
  ASSUME packets \in Seq(DvripPacket), NEW t \in Tracks,
         given[t] = <<>> \/ \E j \in 0 .. Len(packets) : given[t] = Sofar(t, j)
  PROVE  D!IsPrefix(given[t], D!Carried(t))
<1>1. Len(packets) \in Nat
  BY LenProperties
<1>2. PICK d \in Nat : d <= Len(packets) /\ given[t] = Sofar(t, d)
  <2>1. CASE given[t] = <<>>
    <3>1. Sofar(t, 0) = <<>>
      BY SofarStep
    <3> QED
      BY <1>1, <2>1, <3>1
  <2>2. CASE \E j \in 0 .. Len(packets) : given[t] = Sofar(t, j)
    BY <1>1, <2>2
  <2> QED
    BY <2>1, <2>2
<1>3. given[t] \in Seq(Bundle) /\ \E z \in Seq(Bundle) : D!Carried(t) = given[t] \o z
  BY <1>2, SofarStep
<1>4. M!IsPrefix(given[t], D!Carried(t))
  BY <1>3, PrefixOf
<1> QED
  BY <1>4 DEF M!IsPrefix, D!IsPrefix

(* The end of a packet tells which it is. *)
LEMMA EndTells ==
  ASSUME NEW ps, NEW i, NEW k, NEW n, n \in Nat \ {0}, EndOf(ps, n) = <<i, k>>
  PROVE  n = i /\ ps[n].size = k
BY DEF EndOf

(* At the end of the wire no more than a unit is held, and only of a packet *)
(* that has no other: all that came before it is given.                     *)
LEMMA WireEnd ==
  ASSUME DvripInv, dAt = "start", drd.net = Len(marks), drd.pos = Len(drd.buf), dSize = 0,
         D!ReadsChunk
  PROVE  Len(cbuf) < 2 /\ \A t \in tracks : Len(D!Carried(t)) - Len(given[t]) <= Len(cbuf)
<1>1. /\ WireOK(packets, marks, left) /\ left = <<>> /\ packets \in Seq(DvripPacket)
      /\ tracks \subseteq Tracks /\ ReaderOK(drd)
  BY DEF DvripInv, DvripReading, WireOK
<1>2. PICK j \in 0 .. Len(packets) : HeldAt(j) /\ Behind(j) /\ GivenAt(j)
  BY DEF DvripInv, DvripReading
<1>3. PICK total \in Nat : total = Len(packets)
  BY <1>1, LenProperties
<1>4. PICK l \in Nat : l = Len(cbuf) /\ cbuf \in Seq(Mark)
  BY <1>2, LenProperties DEF HeldAt
<1>5. LastOf(EndOf(packets, j), cbuf) = EndOf(packets, total)
  <2>1. Place(drd) = Len(marks)
    <3>1. drd.net \in Nat /\ Len(drd.buf) \in Nat
      BY <1>1, ReaderNumbers
    <3> QED
      BY <3>1 DEF Place
  <2>2. LastUnit(marks, Len(marks)) = LastOf(EndOf(packets, j), cbuf)
    BY <1>2, <2>1 DEF Behind
  <2>3. LastUnit(marks, Len(marks)) = EndOf(packets, total)
    BY <1>1, <1>3 DEF WireOK, LastOf
  <2> QED
    BY <2>2, <2>3
<1>6. \A t \in tracks : given[t] = Sofar(t, j)
  BY <1>1, <1>2 DEF GivenAt
<1>7. j \in Nat /\ j <= total
  BY <1>3
<1>8. CASE l = 0
  <2>1. EndOf(packets, j) = EndOf(packets, total)
    BY <1>4, <1>5, <1>8, EmptySeq DEF LastOf
  <2>2. j = total
    <3>1. CASE total = 0
      BY <1>7, <3>1
    <3>2. CASE total # 0
      <4>1. j # 0
        BY <2>1, <3>2 DEF EndOf, Before
      <4>2. EndOf(packets, total) = <<j, packets[j].size>>
        BY <2>1, <4>1 DEF EndOf
      <4> QED
        BY <3>2, <4>2, EndTells
    <3> QED
      BY <3>1, <3>2
  <2>3. \A t \in tracks : D!Carried(t) = given[t] /\ given[t] \in Seq(Bundle)
    BY <1>1, <1>3, <1>6, <1>7, <2>2, SofarStep
  <2>4. \A t \in tracks : Len(D!Carried(t)) - Len(given[t]) = 0
    BY <2>3, LenProperties
  <2> QED
    BY <1>4, <1>8, <2>4
<1>9. CASE l # 0
  <2>1. cbuf # <<>> /\ l \in 1 .. l
    BY <1>4, <1>9, EmptySeq
  <2>2. /\ j + 1 \in 1 .. Len(packets) /\ cbuf[1] = <<j + 1, 1>>
        /\ \A x \in 1 .. Len(cbuf) : x <= packets[j + 1].size => cbuf[x] = <<j + 1, x>>
    BY <1>1, <1>2, <1>4, <2>1, ChainPacket DEF HeldAt
  <2>3. cbuf[l] = EndOf(packets, total) /\ total \in Nat \ {0}
    BY <1>3, <1>4, <1>5, <2>1, <2>2 DEF LastOf
  <2>4. PICK z \in Nat : z = packets[j + 1].size
    BY <1>1, <2>2, PacketFacts
  <2>5. l < 2
    <3> SUFFICES ASSUME l >= 2 PROVE FALSE
      OBVIOUS
    <3>1. l < z
      BY <1>4, <2>2, <2>4 DEF D!ReadsChunk, D!PacketSize
    <3>2. cbuf[l] = <<j + 1, l>>
      BY <1>4, <2>1, <2>2, <2>4, <3>1
    <3>3. total = j + 1 /\ packets[total].size = l
      <4>1. PICK i : i = j + 1
        OBVIOUS
      <4>2. EndOf(packets, total) = <<i, l>>
        BY <2>3, <3>2, <4>1
      <4>3. total = i /\ packets[total].size = l
        BY <2>3, <4>2, EndTells
      <4> QED
        BY <4>1, <4>3
    <3> QED
      BY <2>4, <3>1, <3>3
  <2>6. l = 1 /\ total = j + 1
    <3>1. l = 1
      BY <1>9, <2>5
    <3>2. PICK i, k : i = j + 1 /\ k = 1
      OBVIOUS
    <3>3. EndOf(packets, total) = <<i, k>>
      BY <2>2, <2>3, <3>1, <3>2
    <3>4. total = i
      BY <2>3, <3>3, EndTells
    <3> QED
      BY <3>1, <3>2, <3>4
  <2>7. ASSUME NEW t \in tracks PROVE Len(D!Carried(t)) - Len(given[t]) <= 1
    <3>1. PICK s \in Seq(Bundle) : s = given[t] /\ D!Carried(t) = s \o D!CarriedBy(t, j + 1)
      <4>1. j + 1 <= Len(packets) /\ j <= Len(packets) /\ Len(packets) = j + 1
        BY <1>3, <1>7, <2>6
      <4>2. /\ Sofar(t, j) \in Seq(Bundle)
            /\ Sofar(t, j + 1) = Sofar(t, j) \o D!CarriedBy(t, j + 1)
            /\ D!Carried(t) = Sofar(t, Len(packets))
        BY <1>1, <1>7, <4>1, SofarStep
      <4> QED
        BY <1>6, <4>1, <4>2
    <3>2. D!Carried(t) = s \/ \E e : D!Carried(t) = Append(s, e)
      <4>1. CASE D!CarriedBy(t, j + 1) = <<>>
        BY <3>1, <4>1, ConcatEmptySeq
      <4>2. CASE D!CarriedBy(t, j + 1) # <<>>
        <5>1. PICK e : D!CarriedBy(t, j + 1) = <<e>>
          BY <4>2 DEF D!CarriedBy
        <5>2. Append(s, e) = s \o <<e>>
          OBVIOUS
        <5> QED
          BY <3>1, <5>1, <5>2
      <4> QED
        BY <4>1, <4>2
    <3>3. PICK n \in Nat : n = Len(s)
      BY LenProperties
    <3>4. \A e : Len(Append(s, e)) = n + 1
      BY <3>3
    <3>5. Len(D!Carried(t)) = n \/ Len(D!Carried(t)) = n + 1
      BY <3>2, <3>3, <3>4
    <3>6. PICK m \in Nat : m = Len(D!Carried(t)) /\ m - n <= 1
      BY <3>3, <3>5
    <3> QED
      BY <3>1, <3>3, <3>6
  <2> QED
    BY <1>4, <2>6, <2>7
<1> QED
  BY <1>8, <1>9

(* The invariant says what FramesWhole does. *)
LEMMA DvripFrames == DvripInv => D!FramesWhole
<1> SUFFICES ASSUME DvripInv PROVE D!FramesWhole
  OBVIOUS
<1>1. dAt = "failed" => drd.net > KeepSize \/ tracks = {}
  BY DEF DvripInv
<1>2. ASSUME NEW t \in Tracks PROVE D!IsPrefix(given[t], D!Carried(t))
  <2>1. packets \in Seq(DvripPacket)
    BY DEF DvripInv, WireOK
  <2>2. given[t] = <<>> \/ \E j \in 0 .. Len(packets) : given[t] = Sofar(t, j)
    <3>1. CASE dAt = "start"
      BY <3>1 DEF DvripInv, DvripReading, GivenAt
    <3>2. CASE dAt # "start"
      BY <3>2 DEF DvripInv, DvripReading, NoneGiven
    <3> QED
      BY <3>1, <3>2
  <2> QED
    BY <2>1, <2>2, GivenFirst
<1> QED
  BY <1>1, <1>2, WireEnd DEF D!FramesWhole, Tracks

(* dvrip/client.go, producer.go, core/readbuffer.go, mpegts/producer.go and *)
(* demuxer.go: whatever the probe has read, and however the wire is cut,    *)
(* what Start hands on is every frame from the first, whole and once.       *)
THEOREM FramesWholeSafe == MediaSpec => []FramesWhole
<1>1. DvripMove => []DvripInv
  BY DvripInit, DvripStep, PTL DEF DvripMove
<1>2. DvripInv /\ M!FramesWhole => FramesWhole
  BY DvripFrames DEF FramesWhole
<1> QED
  BY <1>1, <1>2, DvripMoves, MpegtsFramesSafe, PTL
=============================================================================
