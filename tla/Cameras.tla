-------------------------------- MODULE Cameras --------------------------------
(***************************************************************************)
(* The cameras of the map (internal/cctv) and the streams they play from.  *)
(* The cameras table is in SQLite and survives a restart; the registry of  *)
(* streams is in memory and is rebuilt from the configuration file and the *)
(* table.  Handlers run concurrently, each statement on the database and   *)
(* each call of the registry is one step, a statement may fail (two        *)
(* connections of the pool write at once), and the process may be killed   *)
(* between any two steps.                                                  *)
(*                                                                         *)
(* Every request comes from a logged-in administrator; the sessions, the   *)
(* settings row and the text, place and display name of a camera are left  *)
(* out.  ORDER BY name is therefore an arbitrary order.                    *)
(***************************************************************************)
EXTENDS Registry

CONSTANTS
    Ids,            \* camera ids
    NewIds,         \* ids POST may generate (UUIDs: never twice); bounds the creations
    NoId,
    NoCamera,
    Generated,      \* Generated[id]: generateStreamName(id)
    Requests,       \* HTTP handlers that may run at the same time
    Boot,           \* the goroutine of main, in cctv.Init
    Bodies,         \* cameras as administrators fill them in
    Backups,        \* table contents an import may bring
    ApiNames,       \* names the streams API is called for
    ApiSources,     \* sources the streams API is called with
    DbFails,        \* may a statement, or a write of the file, fail?
    MaxCrashes      \* bound on the crashes of a behaviour

Camera == [stream : Names \cup {NoName}, url : Sources \cup {NoSource}]

ASSUME CamerasAssumption ==
    /\ NoCamera \notin Camera /\ NoId \notin Ids /\ Boot \notin Requests
    /\ NewIds \subseteq Ids /\ Generated \in [Ids -> Names]
    /\ Bodies \subseteq Camera
    /\ Backups \subseteq [Ids -> Camera \cup {NoCamera}]
    /\ ApiNames \subseteq Names /\ ApiSources \subseteq Sources
    /\ DbFails \in BOOLEAN /\ MaxCrashes \in Nat

VARIABLES
    rows,       \* the cameras table
    config,     \* the streams section of the configuration file
    used,       \* ids that some row had
    up,         \* is the process running?
    crashes,
    pc,         \* where a handler or the boot sync is
    job,        \* its local variables
    dropped,    \* history: names deleted through the streams API since registered
    unread      \* history: since the start, a sync could not list the table

table == <<rows, used>>
process == <<up, crashes>>
history == <<dropped, unread>>
vars == <<registry, table, config, process, pc, job, history>>

Procs == Requests \cup {Boot}
NoJob == [id |-> NoId, cam |-> NoCamera, todo |-> {}]

HasStream(c) == c # NoCamera /\ c.stream # NoName /\ c.url # NoSource

TypeOK ==
    /\ RegistryTypeOK
    /\ rows \in [Ids -> Camera \cup {NoCamera}]
    /\ config \in [Names -> Sources \cup {NoSource}]
    /\ used \subseteq Ids
    /\ up \in BOOLEAN /\ crashes \in 0 .. MaxCrashes
    /\ pc \in [Procs -> {"idle", "created", "undo", "put", "write", "list", "each", "save"}]
    /\ job \in [Procs -> [id : Ids \cup {NoId}, cam : Camera \cup {NoCamera}, todo : SUBSET Camera]]
    /\ dropped \subseteq Names /\ unread \in BOOLEAN

Init ==
    /\ streams = [n \in Names |-> NoObject]
    /\ sourceOf = [o \in Objects |-> NoSource]
    /\ rows = [id \in Ids |-> NoCamera]
    /\ config = [n \in Names |-> NoSource]
    /\ used = {} /\ up = FALSE /\ crashes = 0
    /\ pc = [p \in Procs |-> "idle"]
    /\ job = [p \in Procs |-> NoJob]
    /\ dropped = {} /\ unread = FALSE

-----------------------------------------------------------------------------
(* Steps of a handler.                                                     *)

Begin(r, label, j) ==
    /\ up /\ pc[r] = "idle" /\ r # Boot
    /\ pc' = [pc EXCEPT ![r] = label]
    /\ job' = [job EXCEPT ![r] = j]

Go(p, from, to) ==
    /\ pc[p] = from
    /\ pc' = [pc EXCEPT ![p] = to]
    /\ IF to = "idle" THEN job' = [job EXCEPT ![p] = NoJob] ELSE UNCHANGED job

(* syncStream: nothing to do without both fields, else streams.Patch. *)
Synced(c) ==
    \/ ~HasStream(c) /\ UNCHANGED <<registry, dropped>>
    \/ HasStream(c) /\ Patch(c.stream, c.url) /\ dropped' = dropped \ {c.stream}

SyncError(c) == HasStream(c) /\ PatchFails(c.url) /\ UNCHANGED dropped

(* POST cameras: insert, register, and delete again when that fails. *)
Post(r) ==
    \E id \in NewIds \ used, body \in Bodies :
        LET name == IF body.stream = NoName /\ body.url # NoSource THEN Generated[id] ELSE body.stream
            c == [body EXCEPT !.stream = name]
        IN  /\ Begin(r, "created", [NoJob EXCEPT !.id = id, !.cam = c])
            /\ rows' = [rows EXCEPT ![id] = c]
            /\ used' = used \cup {id}
            /\ UNCHANGED <<registry, config, process, history>>

PostSync(r) ==
    /\ \/ Synced(job[r].cam) /\ Go(r, "created", "idle")
       \/ SyncError(job[r].cam) /\ Go(r, "created", "undo")
    /\ UNCHANGED <<table, config, process, unread>>

Undo(r) ==
    /\ Go(r, "undo", "idle")
    /\ \/ rows' = [rows EXCEPT ![job[r].id] = NoCamera]
       \/ DbFails /\ UNCHANGED rows
    /\ UNCHANGED <<registry, used, config, process, history>>

(* PUT cameras/<id>: read the row, register the new source, then write. *)
PutRead(r) ==
    \E id \in Ids, body \in Bodies :
        LET old == rows[id].stream
            name == IF body.stream # NoName \/ body.url = NoSource THEN body.stream
                    ELSE IF old # NoName THEN old ELSE Generated[id]
        IN  /\ rows[id] # NoCamera
            /\ Begin(r, "put", [NoJob EXCEPT !.id = id, !.cam = [body EXCEPT !.stream = name]])
            /\ UNCHANGED <<registry, table, config, process, history>>

PutSync(r) ==
    /\ \/ Synced(job[r].cam) /\ Go(r, "put", "write")
       \/ SyncError(job[r].cam) /\ Go(r, "put", "idle")
    /\ UNCHANGED <<table, config, process, unread>>

(* Mutant of Update: a deleted row is inserted again. *)
UpdateInserts(id, c) == rows' = [rows EXCEPT ![id] = c]
Update(id, c) == rows' = [rows EXCEPT ![id] = IF @ = NoCamera THEN @ ELSE c]

PutWrite(r) ==
    /\ Go(r, "write", "idle")
    /\ \/ Update(job[r].id, job[r].cam)
       \/ DbFails /\ UNCHANGED rows
    /\ UNCHANGED <<registry, used, config, process, history>>

(* DELETE cameras/<id>: one statement; the stream stays registered. *)
Remove(r) ==
    \E id \in Ids :
        /\ up /\ pc[r] = "idle" /\ r # Boot
        /\ rows[id] # NoCamera
        /\ rows' = [rows EXCEPT ![id] = NoCamera]
        /\ UNCHANGED <<registry, used, config, process, pc, job, history>>

(* POST import: one transaction, then syncAllStreams. *)
Import(r) ==
    \E b \in Backups :
        /\ Begin(r, "list", NoJob)
        /\ rows' = b
        /\ used' = used \cup {id \in Ids : b[id] # NoCamera}
        /\ UNCHANGED <<registry, config, process, history>>

-----------------------------------------------------------------------------
(* syncAllStreams, by an import and by cctv.Init.                          *)

Stored == {rows[id] : id \in Ids} \ {NoCamera}

List(p) ==
    /\ pc[p] = "list"
    /\ \/ /\ Stored # {}
          /\ pc' = [pc EXCEPT ![p] = "each"]
          /\ job' = [job EXCEPT ![p].todo = Stored]
          /\ UNCHANGED unread
       \/ Stored = {} /\ Go(p, "list", "idle") /\ UNCHANGED unread
       \/ DbFails /\ Go(p, "list", "idle") /\ unread' = TRUE
    /\ UNCHANGED <<registry, table, config, process, dropped>>

(* Mutant of Each: syncAllStreams returns at the first error. *)
EachStops(p) ==
    \E c \in job[p].todo :
        /\ \/ Synced(c) /\ job[p].todo # {c} /\ Go(p, "each", "each")
           \/ Synced(c) /\ job[p].todo = {c} /\ Go(p, "each", "idle")
           \/ SyncError(c) /\ Go(p, "each", "idle")
        /\ UNCHANGED <<table, config, process, unread>>

(* An error is kept for the answer; the loop goes on. *)
Each(p) ==
    \E c \in job[p].todo :
        LET left == job[p].todo \ {c}
        IN  /\ pc[p] = "each"
            /\ Synced(c) \/ SyncError(c)
            /\ pc' = [pc EXCEPT ![p] = IF left = {} THEN "idle" ELSE "each"]
            /\ job' = [job EXCEPT ![p].todo = left]
            /\ UNCHANGED <<table, config, process, unread>>

-----------------------------------------------------------------------------
(* The streams API: PUT and DELETE also change the configuration file.     *)

ApiPut(r) ==
    \E n \in ApiNames, s \in ApiSources :
        /\ Begin(r, "save", [NoJob EXCEPT !.cam = [stream |-> n, url |-> s]])
        /\ New(n, s)
        /\ dropped' = dropped \ {n}
        /\ UNCHANGED <<table, config, process, unread>>

ApiPatch(r) ==
    \E n \in ApiNames, s \in ApiSources :
        /\ up /\ pc[r] = "idle" /\ r # Boot
        /\ Patch(n, s)
        /\ dropped' = dropped \ {n}
        /\ UNCHANGED <<table, config, process, pc, job, unread>>

ApiDelete(r) ==
    \E n \in ApiNames :
        /\ Begin(r, "save", [NoJob EXCEPT !.cam = [stream |-> n, url |-> NoSource]])
        /\ Delete(n)
        /\ dropped' = dropped \cup {n}
        /\ UNCHANGED <<table, config, process, unread>>

(* PatchConfig, after the registry has changed. *)
ApiSave(r) ==
    /\ Go(r, "save", "idle")
    /\ \/ config' = [config EXCEPT ![job[r].cam.stream] = job[r].cam.url]
       \/ DbFails /\ UNCHANGED config
    /\ UNCHANGED <<registry, table, process, history>>

-----------------------------------------------------------------------------
(* Mutant of Start: the cameras are not registered. *)
StartBare ==
    /\ ~up
    /\ up' = TRUE
    /\ Load(config)
    /\ UNCHANGED <<table, config, crashes, pc, job, history>>

(* The process starts, with the configured streams, and serves requests    *)
(* while cctv.Init is still registering the cameras.                       *)
Start ==
    /\ ~up
    /\ up' = TRUE
    /\ Load(config)
    /\ pc' = [pc EXCEPT ![Boot] = "list"]
    /\ UNCHANGED <<table, config, crashes, job, history>>

Crash ==
    /\ up /\ crashes < MaxCrashes
    /\ up' = FALSE /\ crashes' = crashes + 1
    /\ streams' = [n \in Names |-> NoObject]
    /\ sourceOf' = [o \in Objects |-> NoSource]
    /\ pc' = [p \in Procs |-> "idle"]
    /\ job' = [p \in Procs |-> NoJob]
    /\ dropped' = {} /\ unread' = FALSE
    /\ UNCHANGED <<table, config>>

Arrive(r) ==
    \/ Post(r) \/ PutRead(r) \/ Remove(r) \/ Import(r)
    \/ ApiPut(r) \/ ApiPatch(r) \/ ApiDelete(r)

Continue(p) ==
    \/ PostSync(p) \/ Undo(p) \/ PutSync(p) \/ PutWrite(p)
    \/ List(p) \/ Each(p) \/ ApiSave(p)

Next ==
    \/ Start \/ Crash
    \/ \E r \in Requests : Arrive(r)
    \/ \E p \in Procs : Continue(p)

Spec == Init /\ [][Next]_vars

(* A running handler goes on, and the container is restarted by its        *)
(* restart policy.                                                         *)
FairSpec == Spec /\ WF_vars(Start) /\ \A p \in Procs : WF_vars(Continue(p))

-----------------------------------------------------------------------------
(* The stream of a supported camera is missing although nobody deleted it  *)
(* and the table could be read.                                            *)
Missing(id) ==
    /\ HasStream(rows[id]) /\ rows[id].url \in Supported
    /\ ~Known(rows[id].stream)
    /\ rows[id].stream \notin dropped /\ ~unread

(* A step that will register it is still to come. *)
Pending(id) ==
    \E p \in Procs :
        \/ pc[p] = "created" /\ job[p].id = id
        \/ pc[p] = "list"
        \/ pc[p] = "each" /\ rows[id] \in job[p].todo

(* A pin on the map plays: while the process runs, every stored camera     *)
(* with a supported URL has its stream registered, or the handler that     *)
(* stored it, an import or the boot sync is still about to register it.    *)
(* Handlers, imports with unsupported cameras among the others, failed     *)
(* statements and crashes in between do not lose one.                      *)
Registered == up => \A id \in Ids : Missing(id) => Pending(id)

(* HasProducer and Validate stand before every way into the registry that  *)
(* a request has: whatever is registered, after any links, updates and     *)
(* restarts, plays a supported source.                                     *)
OnlyValidated == \A n \in Names : Known(n) => SourceAt(n) \in Supported

(* A camera that was deleted while a PUT of it was on its way stays        *)
(* deleted: only an import brings an id back.                              *)
DeletedStaysDeleted ==
    [][\A id \in used : rows[id] = NoCamera /\ rows'[id] # NoCamera
            => \E r \in Requests : pc[r] = "idle" /\ pc'[r] = "list"]_vars

(* After a crash the process comes back and the boot sync registers what   *)
(* is stored: no camera stays without its stream.                          *)
PinsPlay == []<>(up /\ \A id \in Ids : ~Missing(id))

(* The camera form says that the stream is created or updated under the    *)
(* stream name: when no handler runs, the stream of a camera that shares   *)
(* its name with no other plays the URL of its row.                        *)
SourceFollows ==
    (up /\ \A p \in Procs : pc[p] = "idle") =>
        \A id \in Ids :
            (HasStream(rows[id]) /\ rows[id].url \in Supported)
                => SourceAt(rows[id].stream) = rows[id].url
=============================================================================
