---------------------------- MODULE CamerasProofs ----------------------------
(* Proofs about the cameras and the registry, for any cameras, names and   *)
(* sources, any number of handlers, and any number of crashes.             *)
EXTENDS Cameras, FunctionTheorems, FiniteSetTheorems, TLAPS

(* What the place of a handler says about its local variables. *)
JobAt(place, j) ==
    /\ place \in {"created", "undo", "put", "write"} => j.id \in Ids /\ j.cam \in Camera
    /\ place = "save" => /\ j.cam \in Camera /\ j.cam.stream \in Names
                         /\ j.cam.url = NoSource \/ j.cam.url \in Supported

JobsSet == \A p \in Procs : JobAt(pc[p], job[p])

(* The file has only what the streams API put there. *)
SavedValid == \A n \in Names : config[n] = NoSource \/ config[n] \in Supported

(* Nothing runs in a process that does not. *)
DownIdle == ~up => \A p \in Procs : pc[p] = "idle"

Kept(n) == Known(n) \/ n \in dropped

(* A PUT writes what it has registered. *)
WritesKept == \A p \in Procs : pc[p] = "write" /\ HasStream(job[p].cam) => Kept(job[p].cam.stream)

(* The step of p that will register a camera has the row as it is now. *)
Awaits(p, id) ==
    \/ pc[p] = "created" /\ job[p].id = id /\ job[p].cam = rows[id]
    \/ pc[p] = "list"
    \/ pc[p] = "each" /\ rows[id] \in job[p].todo

Awaited(id) == \E p \in Procs : Awaits(p, id)

NoneForgotten == up => \A id \in Ids : Missing(id) => Awaited(id)

IInv ==
    /\ TypeOK /\ JobsSet /\ OnlyValidated /\ SavedValid
    /\ DownIdle /\ WritesKept /\ NoneForgotten

-----------------------------------------------------------------------------
(* The registry.                                                           *)

(* There are as many objects as names. *)
LEMMA ObjectsCount == IsFiniteSet(Objects) /\ Cardinality(Objects) = Cardinality(Names)
<1>1. Cardinality(Names) \in Nat
  BY FS_CardinalityType, RegistryAssumption
<1>2. /\ IsFiniteSet(1 .. Cardinality(Names))
      /\ Cardinality(1 .. Cardinality(Names))
           = IF 1 > Cardinality(Names) THEN 0 ELSE Cardinality(Names) - 1 + 1
  BY <1>1, FS_Interval
<1> QED
  BY <1>1, <1>2 DEF Objects

(* There are as many objects as names: one of them is free. *)
LEMMA FreshObject ==
  ASSUME RegistryTypeOK, NEW n \in Names
  PROVE  \E fresh \in Objects : \A m \in Names \ {n} : streams[m] # fresh
<1> SUFFICES ASSUME \A o \in Objects : \E m \in Names \ {n} : streams[m] = o PROVE FALSE
  OBVIOUS
<1> DEFINE S == {m \in Names \ {n} : streams[m] \in Objects}
           f == [m \in S |-> streams[m]]
<1>1. f \in Surjection(S, Objects)
  BY DEF Surjection
<1>2. IsFiniteSet(Names \ {n}) /\ Cardinality(Names \ {n}) = Cardinality(Names) - 1
  BY FS_RemoveElement, RegistryAssumption
<1>3. IsFiniteSet(S) /\ Cardinality(S) <= Cardinality(Names \ {n})
  BY <1>2, FS_Subset
<1>4. Cardinality(Objects) <= Cardinality(S)
  BY <1>1, <1>3, FS_Surjection
<1>5. Cardinality(Names) \in Nat /\ Cardinality(S) \in Nat
  BY <1>3, FS_CardinalityType, RegistryAssumption
<1> QED
  BY ONLY <1>2, <1>3, <1>4, <1>5, ObjectsCount

(* The load may give every name an object of its own. *)
LEMMA ObjectPerName == \E f \in [Names -> Objects] : \A n, m \in Names : f[n] = f[m] => n = m
<1>1. ExistsBijection(Objects, Names)
  BY FS_CardinalityType, RegistryAssumption DEF Objects
<1>2. ExistsBijection(Names, Objects)
  BY <1>1, Fun_ExistsBijSymmetric
<1> QED
  BY <1>2 DEF ExistsBijection, Bijection, Injection, IsInjective

(* The registry is well formed and plays what is supported. *)
RegistryGood == RegistryTypeOK /\ OnlyValidated

(* The name leads to a stream now, and the others lead where they did. *)
Registers(n) == streams'[n] # NoObject /\ \A m \in Names \ {n} : streams'[m] = streams[m]

(* NoObject is not an object. *)
LEMMA NoObjectOut == NoObject \notin Objects
  BY DEF NoObject, Objects

(* A supported source under a new object keeps the registry good. *)
LEMMA CreateKeeps ==
  ASSUME RegistryGood, NEW n \in Names, NEW s \in Supported, Create(n, s)
  PROVE  RegistryGood' /\ Registers(n)
<1> DEFINE o == CHOOSE fresh \in Objects : \A m \in Names \ {n} : streams[m] # fresh
<1>1. o \in Objects
  BY FreshObject, Zenon DEF RegistryGood
<1>2. /\ streams' = [streams EXCEPT ![n] = o]
      /\ sourceOf' = [x \in Objects |-> IF \E m \in Names : [streams EXCEPT ![n] = o][m] = x
                                        THEN [sourceOf EXCEPT ![o] = s][x] ELSE NoSource]
  BY DEF Create, Publish
<1> HIDE DEF o
<1>3. s \in Sources
  BY RegistryAssumption
<1>4. RegistryTypeOK'
  BY <1>1, <1>2, <1>3 DEF RegistryGood, RegistryTypeOK
<1>5. Registers(n)
  BY <1>1, <1>2, NoObjectOut DEF RegistryGood, RegistryTypeOK, Registers
<1>6. ASSUME NEW m \in Names, streams'[m] # NoObject PROVE sourceOf'[streams'[m]] \in Supported
  <2>1. streams'[m] \in Objects
    BY <1>4, <1>6 DEF RegistryTypeOK
  <2>2. sourceOf'[streams'[m]] = [sourceOf EXCEPT ![o] = s][streams'[m]]
    BY <1>2, <2>1
  <2>3. CASE streams'[m] = o
    BY <1>1, <2>2, <2>3 DEF RegistryGood, RegistryTypeOK
  <2>4. CASE streams'[m] # o
    <3>1. streams'[m] = streams[m] /\ streams[m] \in Objects
      BY <1>2, <2>1, <2>4 DEF RegistryGood, RegistryTypeOK
    <3>2. sourceOf'[streams'[m]] = sourceOf[streams[m]]
      BY <2>2, <2>4, <3>1 DEF RegistryGood, RegistryTypeOK
    <3> QED
      BY <1>6, <3>1, <3>2 DEF RegistryGood, OnlyValidated, Known, SourceAt
  <2> QED
    BY <2>3, <2>4
<1> QED
  BY <1>4, <1>5, <1>6 DEF RegistryGood, OnlyValidated, Known, SourceAt

(* A step of Publish that gives names other names' objects. *)
LEMMA RenameKeeps ==
  ASSUME RegistryGood, NEW st \in [Names -> Objects \cup {NoObject}], Publish(st, sourceOf),
         \A n \in Names : st[n] # NoObject => \E m \in Names : st[n] = streams[m]
  PROVE  RegistryGood'
<1>1. /\ streams' = st
      /\ sourceOf' = [x \in Objects |-> IF \E m \in Names : st[m] = x THEN sourceOf[x] ELSE NoSource]
  BY DEF Publish
<1>2. RegistryTypeOK'
  BY <1>1 DEF RegistryGood, RegistryTypeOK
<1>3. ASSUME NEW m \in Names, st[m] # NoObject PROVE sourceOf'[st[m]] \in Supported
  <2>1. PICK k \in Names : st[m] = streams[k]
    BY <1>3
  <2>2. sourceOf'[st[m]] = sourceOf[streams[k]]
    BY <1>1, <1>3, <2>1
  <2> QED
    BY <1>3, <2>1, <2>2 DEF RegistryGood, OnlyValidated, Known, SourceAt
<1> QED
  BY <1>1, <1>2, <1>3 DEF RegistryGood, OnlyValidated, Known, SourceAt

(* So does a supported source for the object that a name has (SetSource). *)
LEMMA SetSourceKeeps ==
  ASSUME RegistryGood, NEW n \in Names, NEW s \in Supported, Known(n),
         Publish(streams, [sourceOf EXCEPT ![streams[n]] = s])
  PROVE  RegistryGood' /\ Registers(n)
<1>1. /\ streams' = streams /\ streams[n] \in Objects /\ s \in Sources
      /\ sourceOf' = [x \in Objects |-> IF \E m \in Names : streams[m] = x
                                        THEN [sourceOf EXCEPT ![streams[n]] = s][x] ELSE NoSource]
  BY RegistryAssumption DEF Publish, RegistryGood, RegistryTypeOK, Known
<1>2. RegistryTypeOK' /\ Registers(n)
  BY <1>1 DEF RegistryGood, RegistryTypeOK, Registers, Known
<1>3. ASSUME NEW m \in Names, streams[m] # NoObject PROVE sourceOf'[streams[m]] \in Supported
  <2>1. streams[m] \in Objects
    BY <1>3 DEF RegistryGood, RegistryTypeOK
  <2>2. sourceOf'[streams[m]] = IF streams[m] = streams[n] THEN s ELSE sourceOf[streams[m]]
    BY <1>1, <2>1 DEF RegistryGood, RegistryTypeOK
  <2> QED
    BY <1>3, <2>2 DEF RegistryGood, OnlyValidated, Known, SourceAt
<1> QED
  BY <1>1, <1>2, <1>3 DEF RegistryGood, OnlyValidated, Known, SourceAt

(* Patch keeps the registry good, by a link, an update or a creation. *)
LEMMA PatchKeeps ==
  ASSUME RegistryGood, NEW n \in Names, NEW s \in Sources, Patch(n, s)
  PROVE  RegistryGood' /\ Registers(n)
<1>1. CASE Linked(s) /\ Publish([streams EXCEPT ![n] = streams[LinksTo[s]]], sourceOf)
  <2> DEFINE st == [streams EXCEPT ![n] = streams[LinksTo[s]]]
  <2>1. LinksTo[s] \in Names /\ streams[LinksTo[s]] # NoObject
    BY <1>1, RegistryAssumption DEF Linked, Known
  <2>2. /\ st \in [Names -> Objects \cup {NoObject}]
        /\ \A k \in Names : st[k] # NoObject => \E m \in Names : st[k] = streams[m]
        /\ st[n] # NoObject /\ \A m \in Names \ {n} : st[m] = streams[m]
    BY <2>1 DEF RegistryGood, RegistryTypeOK
  <2>3. Publish(st, sourceOf) /\ streams' = st
    BY <1>1 DEF Publish
  <2> HIDE DEF st
  <2>4. RegistryGood'
    BY <2>2, <2>3, RenameKeeps
  <2> QED
    BY <2>2, <2>3, <2>4 DEF Registers
<1>2. CASE s \in Supported /\ Known(n) /\ Publish(streams, [sourceOf EXCEPT ![streams[n]] = s])
  BY <1>2, SetSourceKeeps
<1>3. CASE s \in Supported /\ Create(n, s)
  BY <1>3, CreateKeeps
<1> QED
  BY <1>1, <1>2, <1>3 DEF Patch

(* Delete takes away one name. *)
LEMMA DeleteKeeps ==
  ASSUME RegistryGood, NEW n \in Names, Delete(n)
  PROVE  RegistryGood' /\ \A m \in Names \ {n} : streams'[m] = streams[m]
<1> DEFINE st == [streams EXCEPT ![n] = NoObject]
<1>1. /\ st \in [Names -> Objects \cup {NoObject}]
      /\ \A k \in Names : st[k] # NoObject => \E m \in Names : st[k] = streams[m]
      /\ \A m \in Names \ {n} : st[m] = streams[m]
  BY DEF RegistryGood, RegistryTypeOK
<1>2. Publish(st, sourceOf) /\ streams' = st
  BY DEF Delete, Publish
<1> HIDE DEF st
<1> QED
  BY <1>1, <1>2, RenameKeeps

(* The registry that is built from a good file is good. *)
LEMMA LoadKeeps ==
  ASSUME config \in [Names -> Sources \cup {NoSource}], SavedValid, Load(config)
  PROVE  RegistryGood'
<1> DEFINE objectOf == CHOOSE f \in [Names -> Objects] : \A n, m \in Names : f[n] = f[m] => n = m
           nameOf(x) == CHOOSE n \in Names : objectOf[n] = x
           st == [n \in Names |-> IF config[n] = NoSource THEN NoObject ELSE objectOf[n]]
           src == [x \in Objects |-> config[nameOf(x)]]
<1>1. objectOf \in [Names -> Objects] /\ \A n, m \in Names : objectOf[n] = objectOf[m] => n = m
  BY ObjectPerName, Zenon
<1>2. /\ streams' = st
      /\ sourceOf' = [x \in Objects |-> IF \E n \in Names : st[n] = x THEN src[x] ELSE NoSource]
  BY DEF Load, Publish
<1> HIDE DEF objectOf
<1>3. \A n \in Names : nameOf(objectOf[n]) = n
  BY <1>1, Zenon
<1>4. \A x \in Objects : (\E n \in Names : st[n] = x) => \E n \in Names : x = objectOf[n] /\ config[n] # NoSource
  BY <1>1, NoObjectOut
<1>5. \A n \in Names : src[objectOf[n]] = config[n]
  BY <1>1, <1>3
<1> HIDE DEF nameOf, src
<1>6. RegistryTypeOK'
  BY <1>1, <1>2, <1>4, <1>5 DEF RegistryTypeOK
<1>7. ASSUME NEW n \in Names, st[n] # NoObject PROVE sourceOf'[st[n]] \in Supported
  <2>1. config[n] \in Supported /\ st[n] = objectOf[n] /\ objectOf[n] \in Objects
    BY <1>1, <1>7 DEF SavedValid
  <2>2. sourceOf'[objectOf[n]] = src[objectOf[n]]
    BY <1>2, <2>1
  <2> QED
    BY <1>5, <2>1, <2>2
<1> QED
  BY <1>2, <1>6, <1>7 DEF RegistryGood, OnlyValidated, Known, SourceAt

-----------------------------------------------------------------------------
(* The handlers.                                                           *)

JobType == [id : Ids \cup {NoId}, cam : Camera \cup {NoCamera}, todo : SUBSET Camera]

(* A step of p moves nobody else. *)
Alone(p) ==
    /\ pc' \in [Procs -> {"idle", "created", "undo", "put", "write", "list", "each", "save"}]
    /\ job' \in [Procs -> JobType]
    /\ \A q \in Procs \ {p} : pc'[q] = pc[q] /\ job'[q] = job[q]

KeptNext(n) == streams'[n] # NoObject \/ n \in dropped'

(* No name loses its stream, unless it was deleted. *)
KeepsStreams ==
    /\ RegistryGood' /\ dropped' \subseteq Names
    /\ \A n \in Names : Kept(n) => KeptNext(n)

(* syncStream registers what it is given and loses nothing. *)
LEMMA SyncedKeeps ==
  ASSUME RegistryGood, dropped \subseteq Names, NEW c \in Camera \cup {NoCamera}, Synced(c)
  PROVE  KeepsStreams /\ (HasStream(c) => KeptNext(c.stream))
<1>1. CASE ~HasStream(c) /\ UNCHANGED <<registry, dropped>>
  BY <1>1 DEF KeepsStreams, RegistryGood, RegistryTypeOK, OnlyValidated, Known, SourceAt, Kept, KeptNext, registry
<1>2. CASE HasStream(c) /\ Patch(c.stream, c.url) /\ dropped' = dropped \ {c.stream}
  <2>1. c.stream \in Names /\ c.url \in Sources
    BY <1>2 DEF HasStream, Camera
  <2>2. RegistryGood' /\ Registers(c.stream)
    BY <1>2, <2>1, PatchKeeps
  <2> QED
    BY <1>2, <2>1, <2>2 DEF KeepsStreams, Kept, KeptNext, Known, Registers
<1> QED
  BY <1>1, <1>2 DEF Synced

(* One handler moves, no stream is lost, and a camera that it leaves       *)
(* without a stream is one that it will register, or somebody else will.   *)
LEMMA StillAwaited ==
  ASSUME IInv, up = TRUE, up' = TRUE, NEW p \in Procs, Alone(p), KeepsStreams, unread => unread',
         pc'[p] = "write" /\ HasStream(job'[p].cam) => KeptNext(job'[p].cam.stream),
         \A id \in Ids : Missing(id)' => \/ Awaits(p, id)'
                                         \/ rows'[id] = rows[id] /\ ~Awaits(p, id)
  PROVE  DownIdle' /\ WritesKept' /\ NoneForgotten'
<1>1. WritesKept'
  <2> SUFFICES ASSUME NEW q \in Procs, pc'[q] = "write", HasStream(job'[q].cam)
               PROVE  KeptNext(job'[q].cam.stream)
    BY DEF WritesKept, KeptNext, Kept, Known, HasStream
  <2>1. CASE q = p
    BY <2>1
  <2>2. CASE q # p
    <3>1. pc[q] = "write" /\ HasStream(job[q].cam) /\ job'[q] = job[q]
      BY <2>2 DEF Alone
    <3>2. Kept(job[q].cam.stream) /\ job[q].cam.stream \in Names
      BY <3>1 DEF IInv, WritesKept, JobsSet, JobAt, HasStream, Camera
    <3> QED
      BY <3>1, <3>2 DEF KeepsStreams
  <2> QED
    BY <2>1, <2>2
<1>2. NoneForgotten'
  <2> SUFFICES ASSUME NEW id \in Ids, Missing(id)' PROVE Awaited(id)'
    BY DEF NoneForgotten
  <2>1. CASE Awaits(p, id)'
    BY <2>1 DEF Awaited
  <2>2. CASE rows'[id] = rows[id] /\ ~Awaits(p, id)
    <3>1. Missing(id)
      <4>1. HasStream(rows[id]) /\ rows[id].url \in Supported /\ ~unread
        BY <2>2 DEF Missing, HasStream
      <4>2. rows[id].stream \in Names /\ ~KeptNext(rows[id].stream)
        BY <2>2, <4>1 DEF Missing, KeptNext, Known, IInv, TypeOK, HasStream, Camera
      <4> QED
        BY <4>1, <4>2 DEF Missing, KeepsStreams, Kept, Known
    <3>2. PICK q \in Procs : Awaits(q, id)
      BY <3>1 DEF IInv, NoneForgotten, Awaited
    <3>3. q # p /\ pc'[q] = pc[q] /\ job'[q] = job[q]
      BY <2>2, <3>2 DEF Alone
    <3>4. Awaits(q, id)'
      BY <2>2, <3>2, <3>3 DEF Awaits
    <3> QED
      BY <3>4 DEF Awaited
  <2> QED
    BY <2>1, <2>2
<1> QED
  BY <1>1, <1>2 DEF DownIdle

(* The rest of the invariant, for a step of one handler. *)
LEMMA OthersKeep ==
  ASSUME IInv, up = TRUE, up' = TRUE, NEW p \in Procs, Alone(p), KeepsStreams, unread => unread',
         unread' \in BOOLEAN, crashes' = crashes,
         rows' \in [Ids -> Camera \cup {NoCamera}], used' \subseteq Ids,
         config' \in [Names -> Sources \cup {NoSource}], SavedValid',
         JobAt(pc'[p], job'[p]),
         pc'[p] = "write" /\ HasStream(job'[p].cam) => KeptNext(job'[p].cam.stream),
         \A id \in Ids : Missing(id)' => \/ Awaits(p, id)'
                                         \/ rows'[id] = rows[id] /\ ~Awaits(p, id)
  PROVE  IInv'
<1>1. DownIdle' /\ WritesKept' /\ NoneForgotten'
  BY StillAwaited
<1>2. TypeOK'
  BY DEF IInv, TypeOK, Alone, JobType, KeepsStreams, RegistryGood
<1>3. JobsSet'
  <2>1. \A q \in Procs : JobAt(pc'[q], job'[q])
    BY DEF IInv, JobsSet, Alone
  <2> QED
    BY <2>1 DEF JobsSet, JobAt
<1> QED
  BY <1>1, <1>2, <1>3 DEF IInv, KeepsStreams, RegistryGood

Labels == {"idle", "created", "undo", "put", "write", "list", "each", "save"}

(* A request that begins moves its own handler only. *)
LEMMA BeginAlone ==
  ASSUME IInv, NEW r \in Requests, NEW label \in Labels, NEW j \in JobType, Begin(r, label, j)
  PROVE  /\ r \in Procs /\ up = TRUE /\ Alone(r)
         /\ pc[r] = "idle" /\ pc'[r] = label /\ job'[r] = j
  BY DEF IInv, TypeOK, Begin, Alone, Procs, Labels, JobType

(* So does a handler that goes on, and the process runs then. *)
LEMMA GoAlone ==
  ASSUME IInv, NEW p \in Procs, NEW from, from # "idle", NEW to \in Labels, Go(p, from, to)
  PROVE  /\ up = TRUE /\ Alone(p) /\ pc[p] = from /\ pc'[p] = to
         /\ to # "idle" => job'[p] = job[p]
<1>1. up = TRUE /\ pc[p] = from
  BY DEF IInv, TypeOK, DownIdle, Go
<1>2. NoJob \in JobType
  BY DEF NoJob, JobType
<1>3. pc' = [pc EXCEPT ![p] = to] /\ (job' = job \/ job' = [job EXCEPT ![p] = NoJob])
  BY DEF Go
<1>4. Alone(p)
  BY <1>2, <1>3 DEF IInv, TypeOK, Alone, Labels, JobType
<1>5. to # "idle" => job'[p] = job[p]
  BY DEF Go
<1> QED
  BY <1>1, <1>3, <1>4, <1>5 DEF IInv, TypeOK

(* A step that leaves the registry alone loses no stream. *)
LEMMA SameRegistry ==
  ASSUME IInv, streams' = streams, sourceOf' = sourceOf, dropped' = dropped
  PROVE  KeepsStreams
  BY DEF IInv, TypeOK, KeepsStreams, RegistryGood, RegistryTypeOK, OnlyValidated, Known, SourceAt,
         Kept, KeptNext

(* What a step leaves alone keeps its type. *)
LEMMA Types ==
  ASSUME IInv
  PROVE  /\ unread \in BOOLEAN /\ rows \in [Ids -> Camera \cup {NoCamera}] /\ used \subseteq Ids
         /\ config \in [Names -> Sources \cup {NoSource}] /\ SavedValid /\ dropped \subseteq Names
         /\ RegistryGood /\ (SavedValid' <=> \A n \in Names : config'[n] = NoSource \/ config'[n] \in Supported)
  BY DEF IInv, TypeOK, RegistryGood, SavedValid

(* A step that leaves the file alone keeps it good. *)
LEMMA FileKept ==
  ASSUME IInv, config' = config, up' = up, crashes' = crashes, up = TRUE
  PROVE  /\ up' = TRUE /\ crashes' = crashes
         /\ config' \in [Names -> Sources \cup {NoSource}] /\ SavedValid'
  BY DEF IInv, TypeOK, SavedValid

(* POST: the new row waits for PostSync. *)
LEMMA PostKeeps == \A r \in Requests : IInv /\ Post(r) => IInv'
<1> SUFFICES ASSUME NEW r \in Requests, IInv, Post(r) PROVE IInv'
  OBVIOUS
<1>1. PICK id \in NewIds \ used, c \in Camera :
        /\ Begin(r, "created", [NoJob EXCEPT !.id = id, !.cam = c])
        /\ rows' = [rows EXCEPT ![id] = c] /\ used' = used \cup {id}
        /\ UNCHANGED <<registry, config, process, history>>
  <2>1. PICK id \in NewIds \ used, body \in Bodies :
          LET name == IF body.stream = NoName /\ body.url # NoSource THEN Generated[id] ELSE body.stream
              c == [body EXCEPT !.stream = name]
          IN  /\ Begin(r, "created", [NoJob EXCEPT !.id = id, !.cam = c])
              /\ rows' = [rows EXCEPT ![id] = c]
              /\ used' = used \cup {id}
              /\ UNCHANGED <<registry, config, process, history>>
    BY DEF Post
  <2> DEFINE name == IF body.stream = NoName /\ body.url # NoSource THEN Generated[id] ELSE body.stream
             c == [body EXCEPT !.stream = name]
  <2>2. c \in Camera
    BY CamerasAssumption DEF Camera
  <2> QED
    BY <2>1, <2>2
<1> DEFINE j == [NoJob EXCEPT !.id = id, !.cam = c]
<1>2. /\ id \in Ids /\ j \in JobType /\ j.id = id /\ j.cam = c
  BY CamerasAssumption DEF NoJob, JobType
<1> HIDE DEF j
<1>3. /\ r \in Procs /\ up = TRUE /\ Alone(r)
      /\ pc[r] = "idle" /\ pc'[r] = "created" /\ job'[r] = j
  BY <1>1, <1>2, BeginAlone DEF Labels, j
<1>4. KeepsStreams /\ UNCHANGED <<config, up, crashes, unread>>
  BY <1>1, SameRegistry DEF registry, process, history
<1>5. /\ rows' \in [Ids -> Camera \cup {NoCamera}] /\ used' \subseteq Ids
      /\ rows'[id] = c /\ \A i \in Ids \ {id} : rows'[i] = rows[i]
  BY <1>1, <1>2, Types
<1>6. \A i \in Ids : Awaits(r, i)' \/ (rows'[i] = rows[i] /\ ~Awaits(r, i))
  BY <1>2, <1>3, <1>5 DEF Awaits
<1>7. JobAt(pc'[r], job'[r])
  BY <1>2, <1>3 DEF JobAt
<1>8. /\ up' = TRUE /\ crashes' = crashes /\ unread' \in BOOLEAN /\ (unread => unread')
      /\ config' \in [Names -> Sources \cup {NoSource}] /\ SavedValid'
  BY <1>3, <1>4, FileKept, Types
<1>9. pc'[r] # "write"
  BY <1>3
<1> QED
  BY ONLY IInv, <1>3, <1>4, <1>5, <1>6, <1>7, <1>8, <1>9, OthersKeep

(* The row is registered, changed by others, or unsupported. *)
LEMMA PostSyncKeeps == \A r \in Procs : IInv /\ PostSync(r) => IInv'
<1> SUFFICES ASSUME NEW r \in Procs, IInv, PostSync(r) PROVE IInv'
  OBVIOUS
<1>1. /\ pc[r] = "created" /\ up = TRUE /\ Alone(r)
      /\ pc'[r] \in {"idle", "undo"} /\ (pc'[r] = "undo" => job'[r] = job[r])
  BY GoAlone DEF PostSync, Labels
<1>2. PICK c \in Camera : c = job[r].cam
  BY <1>1 DEF IInv, JobsSet, JobAt
<1>3. /\ Synced(c) \/ SyncError(c)
      /\ UNCHANGED <<rows, used, config, up, crashes, unread>>
  BY <1>2 DEF PostSync, table, process, Synced, SyncError
<1>4. KeepsStreams /\ (HasStream(c) => KeptNext(c.stream) \/ c.url \notin Supported)
  <2>1. CASE Synced(c)
    BY <2>1, Types, SyncedKeeps
  <2>2. CASE SyncError(c)
    BY <2>2, SameRegistry DEF SyncError, PatchFails, registry
  <2> QED
    BY <1>3, <2>1, <2>2
<1>5. /\ rows' \in [Ids -> Camera \cup {NoCamera}] /\ used' \subseteq Ids
      /\ unread' \in BOOLEAN /\ (unread => unread') /\ pc'[r] # "write"
      /\ up' = TRUE /\ crashes' = crashes
      /\ config' \in [Names -> Sources \cup {NoSource}] /\ SavedValid'
  BY <1>1, <1>3, FileKept, Types
<1>6. ASSUME NEW i \in Ids, Missing(i)' PROVE rows'[i] = rows[i] /\ ~Awaits(r, i)
  <2>1. rows[i] # c
    BY <1>3, <1>4, <1>6 DEF Missing, HasStream, KeptNext, Known
  <2> QED
    BY <1>1, <1>2, <1>3, <2>1 DEF Awaits
<1>7. JobAt(pc'[r], job'[r])
  BY <1>1 DEF JobAt, IInv, JobsSet
<1> QED
  BY ONLY IInv, <1>1, <1>4, <1>5, <1>6, <1>7, OthersKeep

(* The row of an unsupported camera goes. *)
LEMMA UndoKeeps == \A r \in Procs : IInv /\ Undo(r) => IInv'
<1> SUFFICES ASSUME NEW r \in Procs, IInv, Undo(r) PROVE IInv'
  OBVIOUS
<1>1. /\ pc[r] = "undo" /\ up = TRUE /\ Alone(r) /\ pc'[r] = "idle"
      /\ job[r].id \in Ids
  BY GoAlone DEF Undo, Labels, IInv, JobsSet, JobAt
<1>2. PICK id \in Ids : id = job[r].id
  BY <1>1
<1>3. /\ rows' = [rows EXCEPT ![id] = NoCamera] \/ rows' = rows
      /\ UNCHANGED <<streams, sourceOf, used, config, up, crashes, dropped, unread>>
  BY <1>2 DEF Undo, registry, process, history
<1>4. KeepsStreams
  BY <1>3, SameRegistry
<1>5. /\ rows' \in [Ids -> Camera \cup {NoCamera}] /\ used' \subseteq Ids
      /\ unread' \in BOOLEAN /\ (unread => unread') /\ pc'[r] # "write"
      /\ up' = TRUE /\ crashes' = crashes
      /\ config' \in [Names -> Sources \cup {NoSource}] /\ SavedValid'
  BY <1>1, <1>3, FileKept, Types
<1>6. ASSUME NEW i \in Ids, Missing(i)' PROVE rows'[i] = rows[i] /\ ~Awaits(r, i)
  <2>1. rows'[i] # NoCamera
    BY <1>6 DEF Missing, HasStream
  <2> QED
    BY <1>1, <1>3, <2>1, Types DEF Awaits
<1>7. JobAt(pc'[r], job'[r])
  BY <1>1 DEF JobAt
<1> QED
  BY ONLY IInv, <1>1, <1>4, <1>5, <1>6, <1>7, OthersKeep

(* PUT changes nothing yet. *)
LEMMA PutReadKeeps == \A r \in Requests : IInv /\ PutRead(r) => IInv'
<1> SUFFICES ASSUME NEW r \in Requests, IInv, PutRead(r) PROVE IInv'
  OBVIOUS
<1>1. PICK id \in Ids, c \in Camera :
        /\ Begin(r, "put", [NoJob EXCEPT !.id = id, !.cam = c])
        /\ UNCHANGED <<registry, table, config, process, history>>
  <2>1. PICK id \in Ids, body \in Bodies :
          LET old == rows[id].stream
              name == IF body.stream # NoName \/ body.url = NoSource THEN body.stream
                      ELSE IF old # NoName THEN old ELSE Generated[id]
          IN  /\ rows[id] # NoCamera
              /\ Begin(r, "put", [NoJob EXCEPT !.id = id, !.cam = [body EXCEPT !.stream = name]])
              /\ UNCHANGED <<registry, table, config, process, history>>
    BY DEF PutRead
  <2> DEFINE name == IF body.stream # NoName \/ body.url = NoSource THEN body.stream
                     ELSE IF rows[id].stream # NoName THEN rows[id].stream ELSE Generated[id]
             c == [body EXCEPT !.stream = name]
  <2>2. c \in Camera
    <3>1. rows[id] \in Camera /\ body \in Camera /\ Generated[id] \in Names
      BY <2>1, CamerasAssumption, Types
    <3> QED
      BY <3>1 DEF Camera
  <2> QED
    BY <2>1, <2>2
<1> DEFINE j == [NoJob EXCEPT !.id = id, !.cam = c]
<1>2. j \in JobType /\ j.id = id /\ j.cam = c
  BY DEF NoJob, JobType
<1> HIDE DEF j
<1>3. /\ r \in Procs /\ up = TRUE /\ Alone(r)
      /\ pc[r] = "idle" /\ pc'[r] = "put" /\ job'[r] = j
  BY <1>1, <1>2, BeginAlone DEF Labels, j
<1>4. KeepsStreams /\ UNCHANGED <<rows, used, config, up, crashes, unread>>
  BY <1>1, SameRegistry DEF registry, table, process, history
<1>5. /\ rows' \in [Ids -> Camera \cup {NoCamera}] /\ used' \subseteq Ids
      /\ unread' \in BOOLEAN /\ (unread => unread') /\ pc'[r] # "write"
      /\ up' = TRUE /\ crashes' = crashes
      /\ config' \in [Names -> Sources \cup {NoSource}] /\ SavedValid'
  BY <1>3, <1>4, FileKept, Types
<1>6. \A i \in Ids : rows'[i] = rows[i] /\ ~Awaits(r, i)
  BY <1>3, <1>4 DEF Awaits
<1>7. JobAt(pc'[r], job'[r])
  BY <1>2, <1>3 DEF JobAt
<1> QED
  BY ONLY IInv, <1>3, <1>4, <1>5, <1>6, <1>7, OthersKeep

(* PUT has registered what it will write. *)
LEMMA PutSyncKeeps == \A r \in Procs : IInv /\ PutSync(r) => IInv'
<1> SUFFICES ASSUME NEW r \in Procs, IInv, PutSync(r) PROVE IInv'
  OBVIOUS
<1>1. /\ pc[r] = "put" /\ up = TRUE /\ Alone(r)
      /\ pc'[r] \in {"idle", "write"} /\ (pc'[r] = "write" => job'[r] = job[r])
  BY GoAlone DEF PutSync, Labels
<1>2. PICK c \in Camera : c = job[r].cam
  BY <1>1 DEF IInv, JobsSet, JobAt
<1>3. /\ Synced(c) \/ (SyncError(c) /\ pc'[r] = "idle")
      /\ UNCHANGED <<rows, used, config, up, crashes, unread>>
  <2>1. Synced(c) \/ (SyncError(c) /\ Go(r, "put", "idle"))
    BY <1>2 DEF PutSync, Synced, SyncError
  <2>2. Go(r, "put", "idle") => pc'[r] = "idle"
    BY GoAlone DEF Labels
  <2> QED
    BY <2>1, <2>2 DEF PutSync, table, process
<1>4. KeepsStreams /\ (HasStream(c) /\ pc'[r] = "write" => KeptNext(c.stream))
  <2>1. CASE Synced(c)
    BY <2>1, Types, SyncedKeeps
  <2>2. CASE SyncError(c) /\ pc'[r] = "idle"
    BY <2>2, SameRegistry DEF SyncError, PatchFails, registry
  <2> QED
    BY <1>3, <2>1, <2>2
<1>5. /\ rows' \in [Ids -> Camera \cup {NoCamera}] /\ used' \subseteq Ids
      /\ unread' \in BOOLEAN /\ (unread => unread')
      /\ up' = TRUE /\ crashes' = crashes
      /\ config' \in [Names -> Sources \cup {NoSource}] /\ SavedValid'
  BY <1>1, <1>3, FileKept, Types
<1>6. \A i \in Ids : rows'[i] = rows[i] /\ ~Awaits(r, i)
  BY <1>1, <1>3 DEF Awaits
<1>7. JobAt(pc'[r], job'[r])
  BY <1>1 DEF JobAt, IInv, JobsSet
<1>8. pc'[r] = "write" /\ HasStream(job'[r].cam) => KeptNext(job'[r].cam.stream)
  BY <1>1, <1>2, <1>4
<1> QED
  BY ONLY IInv, <1>1, <1>4, <1>5, <1>6, <1>7, <1>8, OthersKeep

(* The row is one that was registered and not lost since. *)
LEMMA PutWriteKeeps == \A r \in Procs : IInv /\ PutWrite(r) => IInv'
<1> SUFFICES ASSUME NEW r \in Procs, IInv, PutWrite(r) PROVE IInv'
  OBVIOUS
<1>1. /\ pc[r] = "write" /\ up = TRUE /\ Alone(r) /\ pc'[r] = "idle"
      /\ job[r].id \in Ids /\ job[r].cam \in Camera
  BY GoAlone DEF PutWrite, Labels, IInv, JobsSet, JobAt
<1>2. PICK id \in Ids, c \in Camera : id = job[r].id /\ c = job[r].cam
  BY <1>1
<1>3. /\ rows' = [rows EXCEPT ![id] = IF rows[id] = NoCamera THEN rows[id] ELSE c] \/ rows' = rows
      /\ UNCHANGED <<streams, sourceOf, used, config, up, crashes, dropped, unread>>
  BY <1>2 DEF PutWrite, Update, registry, process, history
<1>4. KeepsStreams /\ (HasStream(c) => KeptNext(c.stream))
  <2>1. HasStream(c) => c.stream \in Names /\ Kept(c.stream)
    BY <1>1, <1>2 DEF IInv, WritesKept, HasStream, Camera
  <2>2. KeepsStreams
    BY <1>3, SameRegistry
  <2> QED
    BY <2>1, <2>2 DEF KeepsStreams
<1>5. /\ rows' \in [Ids -> Camera \cup {NoCamera}] /\ used' \subseteq Ids
      /\ unread' \in BOOLEAN /\ (unread => unread') /\ pc'[r] # "write"
      /\ up' = TRUE /\ crashes' = crashes
      /\ config' \in [Names -> Sources \cup {NoSource}] /\ SavedValid'
  BY <1>1, <1>3, FileKept, Types
<1>6. ASSUME NEW i \in Ids, Missing(i)' PROVE rows'[i] = rows[i] /\ ~Awaits(r, i)
  <2>1. rows'[i] # c
    BY <1>4, <1>6 DEF Missing, HasStream, KeptNext, Known
  <2> QED
    BY <1>1, <1>3, <2>1, Types DEF Awaits
<1>7. JobAt(pc'[r], job'[r])
  BY <1>1 DEF JobAt
<1> QED
  BY ONLY IInv, <1>1, <1>4, <1>5, <1>6, <1>7, OthersKeep

(* A row less needs no stream. *)
LEMMA RemoveKeeps == \A r \in Requests : IInv /\ Remove(r) => IInv'
<1> SUFFICES ASSUME NEW r \in Requests, IInv, Remove(r) PROVE IInv'
  OBVIOUS
<1>1. PICK id \in Ids : rows' = [rows EXCEPT ![id] = NoCamera]
  BY DEF Remove
<1>2. /\ up = TRUE /\ pc[r] = "idle" /\ r \in Procs
      /\ UNCHANGED <<streams, sourceOf, used, config, up, crashes, dropped, unread, pc, job>>
  BY Types DEF Remove, registry, process, history, Procs, IInv, TypeOK
<1>3. Alone(r)
  BY <1>2 DEF IInv, TypeOK, Alone, JobType
<1>4. KeepsStreams
  BY <1>2, SameRegistry
<1>5. /\ rows' \in [Ids -> Camera \cup {NoCamera}] /\ used' \subseteq Ids
      /\ unread' \in BOOLEAN /\ (unread => unread') /\ pc'[r] # "write"
      /\ up' = TRUE /\ crashes' = crashes
      /\ config' \in [Names -> Sources \cup {NoSource}] /\ SavedValid'
  BY <1>1, <1>2, FileKept, Types
<1>6. ASSUME NEW i \in Ids, Missing(i)' PROVE rows'[i] = rows[i] /\ ~Awaits(r, i)
  <2>1. rows'[i] # NoCamera
    BY <1>6 DEF Missing, HasStream
  <2> QED
    BY <1>1, <1>2, <2>1, Types DEF Awaits
<1>7. JobAt(pc'[r], job'[r])
  BY <1>2 DEF JobAt
<1> QED
  BY ONLY IInv, <1>2, <1>3, <1>4, <1>5, <1>6, <1>7, OthersKeep

(* All rows of an import wait for its sync. *)
LEMMA ImportKeeps == \A r \in Requests : IInv /\ Import(r) => IInv'
<1> SUFFICES ASSUME NEW r \in Requests, IInv, Import(r) PROVE IInv'
  OBVIOUS
<1>1. PICK b \in Backups :
        /\ Begin(r, "list", NoJob) /\ rows' = b
        /\ used' = used \cup {id \in Ids : b[id] # NoCamera}
        /\ UNCHANGED <<registry, config, process, history>>
  BY DEF Import
<1>2. NoJob \in JobType
  BY DEF NoJob, JobType
<1>3. /\ r \in Procs /\ up = TRUE /\ Alone(r) /\ pc'[r] = "list"
  BY <1>1, <1>2, BeginAlone DEF Labels
<1>4. KeepsStreams /\ UNCHANGED <<config, up, crashes, unread>>
  BY <1>1, SameRegistry DEF registry, process, history
<1>5. /\ rows' \in [Ids -> Camera \cup {NoCamera}] /\ used' \subseteq Ids
      /\ unread' \in BOOLEAN /\ (unread => unread') /\ pc'[r] # "write"
      /\ up' = TRUE /\ crashes' = crashes
      /\ config' \in [Names -> Sources \cup {NoSource}] /\ SavedValid'
  BY <1>1, <1>3, <1>4, FileKept, Types, CamerasAssumption
<1>6. \A i \in Ids : Awaits(r, i)'
  BY <1>3 DEF Awaits
<1>7. JobAt(pc'[r], job'[r])
  BY <1>3 DEF JobAt
<1> QED
  BY ONLY IInv, <1>3, <1>4, <1>5, <1>6, <1>7, OthersKeep

(* What is stored now is what the sync will register. *)
LEMMA ListKeeps == \A p \in Procs : IInv /\ List(p) => IInv'
<1> SUFFICES ASSUME NEW p \in Procs, IInv, List(p) PROVE IInv'
  OBVIOUS
<1>1. /\ pc[p] = "list" /\ up = TRUE
      /\ UNCHANGED <<streams, sourceOf, rows, used, config, up, crashes, dropped>>
  BY DEF List, registry, table, process, IInv, TypeOK, DownIdle
<1>2. Stored \subseteq Camera
  BY Types DEF Stored
<1>3. \/ /\ Alone(p) /\ pc'[p] = "each" /\ job'[p].todo = Stored /\ unread' = unread
      \/ /\ Alone(p) /\ pc'[p] = "idle" /\ Stored = {} /\ unread' = unread
      \/ /\ Alone(p) /\ pc'[p] = "idle" /\ unread' = TRUE
  <2>1. CASE /\ pc' = [pc EXCEPT ![p] = "each"]
             /\ job' = [job EXCEPT ![p].todo = Stored]
             /\ UNCHANGED unread
    <3>1. job \in [Procs -> JobType] /\ pc \in [Procs -> Labels]
      BY DEF IInv, TypeOK, JobType, Labels
    <3>2. job' = [job EXCEPT ![p] = [job[p] EXCEPT !.todo = Stored]]
      BY <2>1
    <3>3. [job[p] EXCEPT !.todo = Stored] \in JobType /\ [job[p] EXCEPT !.todo = Stored].todo = Stored
      BY <1>2, <3>1 DEF JobType
    <3> QED
      BY <2>1, <3>1, <3>2, <3>3 DEF Alone, Labels
  <2>2. CASE Stored = {} /\ Go(p, "list", "idle") /\ UNCHANGED unread
    BY <2>2, GoAlone DEF Labels
  <2>3. CASE Go(p, "list", "idle") /\ unread' = TRUE
    BY <2>3, GoAlone DEF Labels
  <2> QED
    BY <2>1, <2>2, <2>3 DEF List
<1>4. KeepsStreams
  BY <1>1, SameRegistry
<1>5. /\ rows' \in [Ids -> Camera \cup {NoCamera}] /\ used' \subseteq Ids
      /\ unread' \in BOOLEAN /\ (unread => unread') /\ pc'[p] # "write" /\ Alone(p)
      /\ up' = TRUE /\ crashes' = crashes
      /\ config' \in [Names -> Sources \cup {NoSource}] /\ SavedValid'
  <2>1. unread' = unread \/ unread' = TRUE
    BY <1>3
  <2>2. unread' \in BOOLEAN /\ (unread => unread')
    <3>1. unread \in BOOLEAN
      BY Types
    <3>2. CASE unread' = unread
      BY ONLY <3>1, <3>2, Zenon
    <3>3. CASE unread' = TRUE
      BY ONLY <3>3, Zenon
    <3> QED
      BY ONLY <2>1, <3>2, <3>3
  <2>3. Alone(p) /\ pc'[p] # "write"
    BY <1>3
  <2> QED
    BY <1>1, <2>2, <2>3, FileKept, Types
<1>6. ASSUME NEW i \in Ids, Missing(i)' PROVE Awaits(p, i)'
  <2>1. rows[i] \in Stored /\ unread' # TRUE
    BY <1>1, <1>6 DEF Missing, HasStream, Stored
  <2> QED
    BY <1>1, <1>3, <2>1 DEF Awaits
<1>7. JobAt(pc'[p], job'[p])
  BY <1>3 DEF JobAt
<1> QED
  BY ONLY IInv, <1>1, <1>4, <1>5, <1>6, <1>7, OthersKeep

(* One of them is registered; the others wait. *)
LEMMA EachKeeps == \A p \in Procs : IInv /\ Each(p) => IInv'
<1> SUFFICES ASSUME NEW p \in Procs, IInv, Each(p) PROVE IInv'
  OBVIOUS
<1>1. PICK c \in job[p].todo :
        /\ pc[p] = "each" /\ (Synced(c) \/ SyncError(c))
        /\ pc' = [pc EXCEPT ![p] = IF job[p].todo \ {c} = {} THEN "idle" ELSE "each"]
        /\ job' = [job EXCEPT ![p].todo = job[p].todo \ {c}]
        /\ UNCHANGED <<table, config, process, unread>>
  BY DEF Each
<1>2. /\ up = TRUE /\ job \in [Procs -> JobType] /\ pc \in [Procs -> Labels] /\ c \in Camera
      /\ UNCHANGED <<rows, used, config, up, crashes, unread>>
  BY <1>1 DEF IInv, TypeOK, DownIdle, JobType, Labels, table, process
<1>3. /\ Alone(p) /\ pc'[p] \in {"idle", "each"} /\ job'[p].todo = job[p].todo \ {c}
      /\ pc'[p] = "idle" => job[p].todo \ {c} = {}
  <2>1. job' = [job EXCEPT ![p] = [job[p] EXCEPT !.todo = job[p].todo \ {c}]]
    BY <1>1
  <2>2. /\ [job[p] EXCEPT !.todo = job[p].todo \ {c}] \in JobType
        /\ [job[p] EXCEPT !.todo = job[p].todo \ {c}].todo = job[p].todo \ {c}
    BY <1>2 DEF JobType
  <2> QED
    BY <1>1, <1>2, <2>1, <2>2 DEF Alone, Labels
<1>4. KeepsStreams /\ (HasStream(c) => KeptNext(c.stream) \/ c.url \notin Supported)
  <2>1. CASE Synced(c)
    BY <1>2, <2>1, Types, SyncedKeeps
  <2>2. CASE SyncError(c)
    BY <2>2, SameRegistry DEF SyncError, PatchFails, registry
  <2> QED
    BY <1>1, <2>1, <2>2
<1>5. /\ rows' \in [Ids -> Camera \cup {NoCamera}] /\ used' \subseteq Ids
      /\ unread' \in BOOLEAN /\ (unread => unread') /\ pc'[p] # "write"
      /\ up' = TRUE /\ crashes' = crashes
      /\ config' \in [Names -> Sources \cup {NoSource}] /\ SavedValid'
  BY <1>2, <1>3, FileKept, Types
<1>6. ASSUME NEW i \in Ids, Missing(i)'
      PROVE  Awaits(p, i)' \/ (rows'[i] = rows[i] /\ ~Awaits(p, i))
  <2>1. rows[i] # c
    BY <1>2, <1>4, <1>6 DEF Missing, HasStream, KeptNext, Known
  <2> QED
    BY <1>1, <1>2, <1>3, <2>1 DEF Awaits
<1>7. JobAt(pc'[p], job'[p])
  BY <1>3 DEF JobAt
<1> QED
  BY ONLY IInv, <1>2, <1>3, <1>4, <1>5, <1>6, <1>7, OthersKeep

(* PUT of the streams API registers a supported source. *)
LEMMA ApiPutKeeps == \A r \in Requests : IInv /\ ApiPut(r) => IInv'
<1> SUFFICES ASSUME NEW r \in Requests, IInv, ApiPut(r) PROVE IInv'
  OBVIOUS
<1>1. PICK n \in ApiNames, s \in ApiSources :
        /\ Begin(r, "save", [NoJob EXCEPT !.cam = [stream |-> n, url |-> s]])
        /\ New(n, s) /\ dropped' = dropped \ {n}
        /\ UNCHANGED <<table, config, process, unread>>
  BY DEF ApiPut
<1> DEFINE j == [NoJob EXCEPT !.cam = [stream |-> n, url |-> s]]
<1>2. /\ n \in Names /\ s \in Supported /\ s \in Sources /\ Create(n, s)
      /\ j \in JobType /\ j.cam = [stream |-> n, url |-> s]
  BY <1>1, CamerasAssumption, RegistryAssumption DEF New, NoJob, JobType, Camera
<1> HIDE DEF j
<1>3. /\ r \in Procs /\ up = TRUE /\ Alone(r)
      /\ pc[r] = "idle" /\ pc'[r] = "save" /\ job'[r] = j
  BY <1>1, <1>2, BeginAlone DEF Labels, j
<1>4. KeepsStreams /\ UNCHANGED <<rows, used, config, up, crashes, unread>>
  <2>1. RegistryGood' /\ Registers(n)
    BY <1>2, CreateKeeps, Types
  <2> QED
    BY <1>1, <2>1, Types DEF table, process, KeepsStreams, Kept, KeptNext, Known, Registers
<1>5. /\ rows' \in [Ids -> Camera \cup {NoCamera}] /\ used' \subseteq Ids
      /\ unread' \in BOOLEAN /\ (unread => unread') /\ pc'[r] # "write"
      /\ up' = TRUE /\ crashes' = crashes
      /\ config' \in [Names -> Sources \cup {NoSource}] /\ SavedValid'
  BY <1>3, <1>4, FileKept, Types
<1>6. \A i \in Ids : rows'[i] = rows[i] /\ ~Awaits(r, i)
  BY <1>3, <1>4 DEF Awaits
<1>7. JobAt(pc'[r], job'[r])
  BY <1>2, <1>3 DEF JobAt, Camera
<1> QED
  BY ONLY IInv, <1>3, <1>4, <1>5, <1>6, <1>7, OthersKeep

(* So does PATCH. *)
LEMMA ApiPatchKeeps == \A r \in Requests : IInv /\ ApiPatch(r) => IInv'
<1> SUFFICES ASSUME NEW r \in Requests, IInv, ApiPatch(r) PROVE IInv'
  OBVIOUS
<1>1. PICK n \in ApiNames, s \in ApiSources : Patch(n, s) /\ dropped' = dropped \ {n}
  BY DEF ApiPatch
<1>2. /\ up = TRUE /\ pc[r] = "idle" /\ r \in Procs /\ n \in Names /\ s \in Sources
      /\ UNCHANGED <<rows, used, config, up, crashes, unread, pc, job>>
  BY CamerasAssumption DEF ApiPatch, table, process, Procs, IInv, TypeOK
<1>3. Alone(r)
  BY <1>2 DEF IInv, TypeOK, Alone, JobType
<1>4. KeepsStreams
  <2>1. RegistryGood' /\ Registers(n)
    BY <1>1, <1>2, PatchKeeps, Types
  <2> QED
    BY <1>1, <2>1, Types DEF KeepsStreams, Kept, KeptNext, Known, Registers
<1>5. /\ rows' \in [Ids -> Camera \cup {NoCamera}] /\ used' \subseteq Ids
      /\ unread' \in BOOLEAN /\ (unread => unread') /\ pc'[r] # "write"
      /\ up' = TRUE /\ crashes' = crashes
      /\ config' \in [Names -> Sources \cup {NoSource}] /\ SavedValid'
  BY <1>2, FileKept, Types
<1>6. \A i \in Ids : rows'[i] = rows[i] /\ ~Awaits(r, i)
  BY <1>2 DEF Awaits
<1>7. JobAt(pc'[r], job'[r])
  BY <1>2 DEF JobAt
<1> QED
  BY ONLY IInv, <1>2, <1>3, <1>4, <1>5, <1>6, <1>7, OthersKeep

(* DELETE takes a name away on request. *)
LEMMA ApiDeleteKeeps == \A r \in Requests : IInv /\ ApiDelete(r) => IInv'
<1> SUFFICES ASSUME NEW r \in Requests, IInv, ApiDelete(r) PROVE IInv'
  OBVIOUS
<1>1. PICK n \in ApiNames :
        /\ Begin(r, "save", [NoJob EXCEPT !.cam = [stream |-> n, url |-> NoSource]])
        /\ Delete(n) /\ dropped' = dropped \cup {n}
        /\ UNCHANGED <<table, config, process, unread>>
  BY DEF ApiDelete
<1> DEFINE j == [NoJob EXCEPT !.cam = [stream |-> n, url |-> NoSource]]
<1>2. n \in Names /\ j \in JobType /\ j.cam = [stream |-> n, url |-> NoSource]
  BY CamerasAssumption DEF NoJob, JobType, Camera
<1> HIDE DEF j
<1>3. /\ r \in Procs /\ up = TRUE /\ Alone(r)
      /\ pc[r] = "idle" /\ pc'[r] = "save" /\ job'[r] = j
  BY <1>1, <1>2, BeginAlone DEF Labels, j
<1>4. KeepsStreams /\ UNCHANGED <<rows, used, config, up, crashes, unread>>
  <2>1. RegistryGood' /\ \A m \in Names \ {n} : streams'[m] = streams[m]
    BY <1>1, <1>2, DeleteKeeps, Types
  <2> QED
    BY <1>1, <1>2, <2>1, Types DEF table, process, KeepsStreams, Kept, KeptNext, Known
<1>5. /\ rows' \in [Ids -> Camera \cup {NoCamera}] /\ used' \subseteq Ids
      /\ unread' \in BOOLEAN /\ (unread => unread') /\ pc'[r] # "write"
      /\ up' = TRUE /\ crashes' = crashes
      /\ config' \in [Names -> Sources \cup {NoSource}] /\ SavedValid'
  BY <1>3, <1>4, FileKept, Types
<1>6. \A i \in Ids : rows'[i] = rows[i] /\ ~Awaits(r, i)
  BY <1>3, <1>4 DEF Awaits
<1>7. JobAt(pc'[r], job'[r])
  BY <1>2, <1>3 DEF JobAt, Camera
<1> QED
  BY ONLY IInv, <1>3, <1>4, <1>5, <1>6, <1>7, OthersKeep

(* What is written to the file was accepted before. *)
LEMMA ApiSaveKeeps == \A r \in Procs : IInv /\ ApiSave(r) => IInv'
<1> SUFFICES ASSUME NEW r \in Procs, IInv, ApiSave(r) PROVE IInv'
  OBVIOUS
<1>1. /\ pc[r] = "save" /\ up = TRUE /\ Alone(r) /\ pc'[r] = "idle"
  BY GoAlone DEF ApiSave, Labels
<1>2. /\ job[r].cam.stream \in Names
      /\ job[r].cam.url = NoSource \/ job[r].cam.url \in Supported
  BY <1>1 DEF IInv, JobsSet, JobAt
<1>3. /\ config' = [config EXCEPT ![job[r].cam.stream] = job[r].cam.url] \/ config' = config
      /\ UNCHANGED <<streams, sourceOf, rows, used, up, crashes, dropped, unread>>
  BY DEF ApiSave, registry, table, process, history
<1>4. KeepsStreams
  BY <1>3, SameRegistry
<1>5. config' \in [Names -> Sources \cup {NoSource}] /\ SavedValid'
  <2>1. \A n \in Names : config[n] = NoSource \/ config[n] \in Supported
    BY Types DEF SavedValid
  <2>2. /\ config' \in [Names -> Sources \cup {NoSource}]
        /\ \A n \in Names : config'[n] = NoSource \/ config'[n] \in Supported
    BY <1>2, <1>3, <2>1, Types, RegistryAssumption
  <2> QED
    BY <2>2 DEF SavedValid
<1>6. /\ rows' \in [Ids -> Camera \cup {NoCamera}] /\ used' \subseteq Ids
      /\ unread' \in BOOLEAN /\ (unread => unread') /\ pc'[r] # "write"
      /\ up' = TRUE /\ crashes' = crashes
  BY <1>1, <1>3, Types
<1>7. \A i \in Ids : rows'[i] = rows[i] /\ ~Awaits(r, i)
  BY <1>1, <1>3 DEF Awaits
<1>8. JobAt(pc'[r], job'[r])
  BY <1>1 DEF JobAt
<1> QED
  BY ONLY IInv, <1>1, <1>4, <1>5, <1>6, <1>7, <1>8, OthersKeep

-----------------------------------------------------------------------------
(* The process.                                                            *)

(* A start loads the file, and all rows wait for the boot sync. *)
LEMMA StartKeeps == IInv /\ Start => IInv'
<1> SUFFICES ASSUME IInv, Start PROVE IInv'
  OBVIOUS
<1>1. /\ up = FALSE /\ up' = TRUE /\ Load(config)
      /\ pc' = [pc EXCEPT ![Boot] = "list"]
      /\ UNCHANGED <<rows, used, config, crashes, job, dropped, unread>>
  BY DEF Start, table, history, IInv, TypeOK
<1>2. RegistryGood'
  BY <1>1, LoadKeeps, Types
<1>3. Boot \in Procs /\ pc \in [Procs -> Labels] /\ \A p \in Procs : pc[p] = "idle"
  BY <1>1 DEF Procs, IInv, TypeOK, Labels, DownIdle
<1>4. TypeOK'
  BY <1>1, <1>2, <1>3 DEF IInv, TypeOK, RegistryGood, Labels
<1>5. \A p \in Procs : pc'[p] \in {"idle", "list"}
  BY <1>1, <1>3
<1>6. JobsSet' /\ WritesKept'
  BY <1>5 DEF JobsSet, JobAt, WritesKept
<1>7. \A id \in Ids : Awaits(Boot, id)'
  BY <1>1, <1>3 DEF Awaits
<1>8. NoneForgotten' /\ DownIdle' /\ SavedValid'
  BY <1>1, <1>3, <1>7, Types DEF NoneForgotten, Awaited, DownIdle, SavedValid
<1> QED
  BY <1>2, <1>4, <1>6, <1>8 DEF IInv, RegistryGood

(* A process that does not run keeps nothing in memory. *)
LEMMA CrashKeeps == IInv /\ Crash => IInv'
<1> SUFFICES ASSUME IInv, Crash PROVE IInv'
  OBVIOUS
<1>1. /\ up' = FALSE /\ crashes' = crashes + 1 /\ crashes < MaxCrashes
      /\ streams' = [n \in Names |-> NoObject]
      /\ sourceOf' = [o \in Objects |-> NoSource]
      /\ pc' = [p \in Procs |-> "idle"]
      /\ job' = [p \in Procs |-> NoJob]
      /\ dropped' = {} /\ unread' = FALSE
      /\ UNCHANGED <<rows, used, config>>
  BY DEF Crash, table
<1>2. NoJob \in JobType
  BY DEF NoJob, JobType
<1>3. RegistryGood'
  BY <1>1 DEF RegistryGood, RegistryTypeOK, OnlyValidated, Known
<1>4. crashes' \in 0 .. MaxCrashes
  BY <1>1, CamerasAssumption DEF IInv, TypeOK
<1>5. TypeOK'
  BY <1>1, <1>2, <1>3, <1>4 DEF IInv, TypeOK, RegistryGood, JobType
<1>6. JobsSet' /\ WritesKept' /\ DownIdle' /\ NoneForgotten' /\ SavedValid'
  BY <1>1, Types DEF JobsSet, JobAt, WritesKept, DownIdle, NoneForgotten, SavedValid
<1> QED
  BY <1>3, <1>5, <1>6 DEF IInv, RegistryGood

(* An empty table and a stopped process. *)
LEMMA InitInv == Init => IInv
<1> SUFFICES ASSUME Init PROVE IInv
  OBVIOUS
<1>1. NoJob \in JobType
  BY DEF NoJob, JobType
<1>2. TypeOK
  <2>1. /\ job \in [Procs -> JobType]
        /\ pc \in [Procs -> Labels]
    BY <1>1 DEF Init, Labels
  <2>2. /\ RegistryTypeOK /\ up \in BOOLEAN /\ unread \in BOOLEAN
        /\ rows \in [Ids -> Camera \cup {NoCamera}]
        /\ config \in [Names -> Sources \cup {NoSource}]
        /\ used \subseteq Ids /\ dropped \subseteq Names
    BY DEF Init, RegistryTypeOK
  <2>3. crashes \in 0 .. MaxCrashes
    BY CamerasAssumption DEF Init
  <2> QED
    BY <2>1, <2>2, <2>3 DEF TypeOK, JobType, Labels
<1>3. JobsSet /\ SavedValid /\ DownIdle /\ WritesKept /\ NoneForgotten
  BY DEF Init, JobsSet, JobAt, SavedValid, DownIdle, WritesKept, NoneForgotten
<1>4. OnlyValidated
  BY DEF Init, OnlyValidated, Known
<1> QED
  BY <1>2, <1>3, <1>4 DEF IInv

(* No step of any handler, of the boot sync or of the process breaks the   *)
(* invariant.                                                              *)
LEMMA StepInv == IInv /\ [Next]_vars => IInv'
<1> SUFFICES ASSUME IInv, [Next]_vars PROVE IInv'
  OBVIOUS
<1>1. CASE Start
  BY <1>1, StartKeeps
<1>2. CASE Crash
  BY <1>2, CrashKeeps
<1>3. ASSUME NEW r \in Requests, Arrive(r) PROVE IInv'
  BY <1>3, PostKeeps, PutReadKeeps, RemoveKeeps, ImportKeeps, ApiPutKeeps, ApiPatchKeeps,
     ApiDeleteKeeps DEF Arrive
<1>4. ASSUME NEW p \in Procs, Continue(p) PROVE IInv'
  BY <1>4, PostSyncKeeps, UndoKeeps, PutSyncKeeps, PutWriteKeeps, ListKeeps, EachKeeps,
     ApiSaveKeeps DEF Continue
<1>5. CASE UNCHANGED vars
  <2>1. UNCHANGED <<streams, sourceOf, rows, used, config, up, crashes, pc, job, dropped, unread>>
    BY <1>5 DEF vars, registry, table, process, history
  <2>2. TypeOK' /\ JobsSet' /\ OnlyValidated' /\ SavedValid' /\ DownIdle' /\ WritesKept'
    BY <2>1 DEF IInv, TypeOK, RegistryTypeOK, JobsSet, OnlyValidated, Known, SourceAt, SavedValid,
                DownIdle, WritesKept, Kept
  <2>3. NoneForgotten'
    BY <2>1 DEF IInv, NoneForgotten, Missing, Known, Awaited, Awaits
  <2> QED
    BY <2>2, <2>3 DEF IInv
<1> QED
  BY <1>1, <1>2, <1>3, <1>4, <1>5 DEF Next

(* The invariant holds throughout. *)
LEMMA Invariance == Spec => []IInv
<1> QED
  BY InitInv, StepInv, PTL DEF Spec

(* The variables keep their types (Cameras!TypeOK).                        *)
THEOREM TypeCorrect == Spec => []TypeOK
<1>1. IInv => TypeOK
  BY DEF IInv
<1> QED
  BY <1>1, Invariance, PTL

(* Whatever is registered plays a supported source: the checks of New and  *)
(* Patch cannot be passed by, whatever links, updates and restarts come.   *)
THEOREM OnlyValidatedSafe == Spec => []OnlyValidated
<1>1. IInv => OnlyValidated
  BY DEF IInv
<1> QED
  BY <1>1, Invariance, PTL

(* While the process runs, a stored camera with a supported URL has its    *)
(* stream, unless the API deleted it or a sync could not read the table,   *)
(* or somebody is about to register it (syncStream, syncAllStreams).       *)
THEOREM RegisteredSafe == Spec => []Registered
<1>1. IInv => Registered
  BY DEF IInv, NoneForgotten, Registered, Awaited, Awaits, Pending
<1> QED
  BY <1>1, Invariance, PTL

(* A row comes back only with an import (updateCamera, importData). *)
THEOREM DeletedStays == Spec => DeletedStaysDeleted
<1> DEFINE Back(id) == rows[id] = NoCamera /\ rows'[id] # NoCamera
           Imported == \E r \in Requests : pc[r] = "idle" /\ pc'[r] = "list"
<1>1. IInv /\ [Next]_vars => [\A id \in used : Back(id) => Imported]_vars
  <2> SUFFICES ASSUME IInv, Next, NEW id \in used, Back(id) PROVE Imported
    OBVIOUS
  <2>1. /\ id \in Ids /\ rows[id] = NoCamera /\ rows'[id] # NoCamera
        /\ rows \in [Ids -> Camera \cup {NoCamera}] /\ pc \in [Procs -> Labels]
    BY DEF IInv, TypeOK, Labels
  <2>2. ASSUME NEW r \in Requests, Arrive(r) PROVE Imported
    <3>1. CASE Post(r)
      BY <2>1, <3>1 DEF Post
    <3>2. CASE Import(r)
      BY <2>1, <3>2 DEF Import, Begin, Procs
    <3>3. CASE Remove(r)
      BY <2>1, <3>3 DEF Remove
    <3>4. CASE PutRead(r) \/ ApiPut(r) \/ ApiPatch(r) \/ ApiDelete(r)
      BY <2>1, <3>4 DEF PutRead, ApiPut, ApiPatch, ApiDelete, table
    <3> QED
      BY <2>2, <3>1, <3>2, <3>3, <3>4 DEF Arrive
  <2>3. ASSUME NEW p \in Procs, Continue(p) PROVE FALSE
    <3>1. CASE Undo(p)
      BY <2>1, <3>1 DEF Undo
    <3>2. CASE PutWrite(p)
      BY <2>1, <3>2 DEF PutWrite, Update
    <3>3. CASE PostSync(p) \/ PutSync(p) \/ List(p) \/ Each(p) \/ ApiSave(p)
      BY <2>1, <3>3 DEF PostSync, PutSync, List, Each, ApiSave, table
    <3> QED
      BY <2>3, <3>1, <3>2, <3>3 DEF Continue
  <2>4. ~Start /\ ~Crash
    BY <2>1 DEF Start, Crash, table
  <2> QED
    BY <2>2, <2>3, <2>4 DEF Next
<1> QED
  BY <1>1, Invariance, PTL DEF Spec, DeletedStaysDeleted
=============================================================================
