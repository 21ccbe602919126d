----------------------------- MODULE StoreDrivers -----------------------------
(***************************************************************************)
(* The drivers of Redis and MongoDB, which share nothing.                  *)
(***************************************************************************)
EXTENDS Naturals, Sequences, FiniteSets, SequencesExt

-------------------------------------------------------------------------------
(***************************************************************************)
(* One connection of the Redis driver (extensions/ipc/redis/src/main.rs):  *)
(* commands and pipelines over one managed connection per database, with   *)
(* a reconnect and a single replay of requests that only read, and         *)
(* Publish/Subscribe streams, each served by a task that moves messages    *)
(* from the server into a bounded channel the host reads from.             *)
(*                                                                         *)
(* The server may execute a request, all of it or a first part, and lose   *)
(* the connection before the answer arrives, or answer too late. The host  *)
(* sends a request again whenever the error says it may.                   *)
(***************************************************************************)

CONSTANTS RdDatabases,   \* database numbers the host uses
          RdPipelines,   \* requests: sequences of "read" and "write"
          RdFaults,      \* bound: lost connections, late answers, failed connects
          RdRequests,    \* bound: requests the host makes, repetitions included
          RdChannels,    \* Publish/Subscribe channels
          RdCapacity,    \* capacity of a stream's channel (params.capacity)
          RdControls,    \* capacity of its command queue (32 in the code)
          RdMessages     \* bound: messages published

ASSUME RdAssumption ==
    /\ RdPipelines \subseteq Seq({"read", "write"})
    /\ {RdFaults, RdRequests, RdMessages} \subseteq Nat
    /\ {RdCapacity, RdControls} \subseteq Nat \ {0}

VARIABLES rdCached,     \* databases with a manager (connections)
          rdReq,        \* the command or pipeline being served
          rdLast,       \* the host's current request
          rdSeen,       \* how often the server applied each of its commands
          rdResult,     \* what the host knows of that request
          rdFaults,     \* faults so far
          rdAsked,      \* requests so far
          rdStream,     \* the Publish/Subscribe stream: "none", "open", "closed"
          rdTask,       \* its task runs
          rdQueue,      \* its command queue
          rdSubs,       \* channels the server has it subscribed to
          rdWire,       \* messages on their way to the task
          rdChan,       \* messages in the channel
          rdDropped,    \* the dropped counter
          rdDrained,    \* the event read in progress: events taken so far
          rdGot,        \* messages the host has read, in order
          rdLost,       \* dropped messages the host was told of
          rdTaken,      \* messages the task took from the server
          rdPublished   \* messages published

commandVars == <<rdCached, rdReq, rdLast, rdSeen, rdResult, rdAsked>>
streamVars == <<rdStream, rdTask, rdQueue, rdSubs, rdWire, rdChan, rdDropped, rdDrained,
                rdGot, rdLost, rdTaken, rdPublished>>
rdVars == <<commandVars, rdFaults, streamVars>>

Idle == [at |-> "idle"]
NotReading == [on |-> FALSE, events |-> <<>>, max |-> 0]
Free == rdReq = Idle /\ ~rdDrained.on   \* calls of one connection are served in turn

RdInit ==
    /\ rdCached = {CHOOSE d \in RdDatabases : TRUE}   \* open_connection
    /\ rdReq = Idle /\ rdLast = [db |-> 0, cmds |-> <<>>] /\ rdSeen = <<>> /\ rdResult = "none" /\ rdAsked = 0
    /\ rdFaults = 0
    /\ rdStream = "none" /\ rdTask = FALSE /\ rdQueue = <<>> /\ rdSubs = {}
    /\ rdWire = <<>> /\ rdChan = <<>> /\ rdDropped = 0 /\ rdDrained = NotReading
    /\ rdGot = <<>> /\ rdLost = 0 /\ rdTaken = 0 /\ rdPublished = 0

(***************************************************************************)
(* Commands. A request is a sequence; a single command is one of length 1. *)
(* can_retry_command knows the commands that only read.                    *)
(***************************************************************************)
can_retry_command(cmd) == cmd = "read"
\* Fault: one command that only reads makes the whole pipeline replayable.
can_retry_pipeline_any(cmds) == \E k \in DOMAIN cmds : can_retry_command(cmds[k])
can_retry_pipeline(cmds) == cmds # <<>> /\ \A k \in DOMAIN cmds : can_retry_command(cmds[k])

\* The host asks, for the first time or again after an error that allows it.
RdAsk(db, cmds) ==
    /\ Free
    /\ rdAsked < RdRequests
    /\ rdResult # "retryable"
    /\ rdLast' = [db |-> db, cmds |-> cmds]
    /\ rdReq' = [at |-> "manager", db |-> db, cmds |-> cmds, replay |-> FALSE]
    /\ rdSeen' = [k \in DOMAIN cmds |-> 0]
    /\ rdResult' = "none"
    /\ rdAsked' = rdAsked + 1
    /\ UNCHANGED <<rdCached, rdFaults, streamVars>>
RdAskAgain ==
    /\ Free
    /\ rdAsked < RdRequests
    /\ rdResult = "retryable"
    /\ rdReq' = [at |-> "manager", db |-> rdLast.db, cmds |-> rdLast.cmds, replay |-> FALSE]
    /\ rdResult' = "none"
    /\ rdAsked' = rdAsked + 1
    /\ UNCHANGED <<rdCached, rdLast, rdSeen, rdFaults, streamVars>>

Returns(how) == rdReq' = Idle /\ rdResult' = how

\* manager: opens the database's connection unless there is one.
manager ==
    /\ rdReq.at = "manager"
    /\ \/ /\ rdCached' = rdCached \cup {rdReq.db}
          /\ rdReq' = [rdReq EXCEPT !.at = "send"]
          /\ UNCHANGED <<rdResult, rdFaults>>
       \/ /\ rdReq.db \notin rdCached /\ rdFaults < RdFaults
          /\ rdFaults' = rdFaults + 1
          /\ Returns("retryable")      \* connection_error: nothing was sent
          /\ UNCHANGED rdCached
    /\ UNCHANGED <<rdLast, rdSeen, rdAsked, streamVars>>

\* command_error: worth repeating if the connection is at fault and the request
\* may be replayed.
Failure(cmds) == IF can_retry_pipeline(cmds) THEN "retryable" ELSE "failed"

\* query_async: the server applies the first k commands; it answers, its
\* answer comes after the response timeout, or the connection is dropped.
\* redis_value turns what arrives into the answer.
execute ==
    /\ rdReq.at = "send"
    /\ \E k \in 0..Len(rdReq.cmds), how \in {"answered", "late", "dropped"} :
        /\ how = "answered" => k = Len(rdReq.cmds)
        /\ how # "answered" => rdFaults < RdFaults
        /\ rdFaults' = IF how = "answered" THEN rdFaults ELSE rdFaults + 1
        /\ rdSeen' = [j \in DOMAIN rdSeen |-> IF j <= k THEN rdSeen[j] + 1 ELSE rdSeen[j]]
        /\ CASE how = "answered" -> Returns("ok")
             [] how = "late" -> Returns(Failure(rdReq.cmds))
             [] how = "dropped" -> IF rdReq.replay THEN Returns("retryable")
                                   ELSE rdReq' = [rdReq EXCEPT !.at = "reconnect"] /\ UNCHANGED rdResult
    /\ UNCHANGED <<rdCached, rdLast, rdAsked, streamVars>>

\* reconnect_manager forgets the old connection and opens a new one. A request
\* that must not be replayed fails whether or not that worked.
reconnect_manager ==
    /\ rdReq.at = "reconnect"
    /\ \E opened \in BOOLEAN :
        /\ ~opened => rdFaults < RdFaults
        /\ rdFaults' = IF opened THEN rdFaults ELSE rdFaults + 1
        /\ rdCached' = IF opened THEN rdCached \cup {rdReq.db} ELSE rdCached \ {rdReq.db}
        /\ IF ~can_retry_pipeline(rdReq.cmds) THEN Returns("failed")
           ELSE IF ~opened THEN Returns("retryable")
           ELSE rdReq' = [rdReq EXCEPT !.at = "send", !.replay = TRUE] /\ UNCHANGED rdResult
    /\ UNCHANGED <<rdLast, rdSeen, rdAsked, streamVars>>

(***************************************************************************)
(* Streams.                                                                *)
(***************************************************************************)
open_event ==
    /\ Free /\ rdStream = "none"
    /\ rdStream' = "open" /\ rdTask' = TRUE
    /\ UNCHANGED <<commandVars, rdFaults, rdQueue, rdSubs, rdWire, rdChan, rdDropped, rdDrained,
                   rdGot, rdLost, rdTaken, rdPublished>>

\* control_event waits for room in the queue; it fails once the task is gone.
control_event(op, ch) ==
    /\ Free /\ rdStream = "open"
    /\ rdTask => Len(rdQueue) < RdControls
    /\ rdQueue' = IF rdTask THEN Append(rdQueue, [op |-> op, channel |-> ch]) ELSE rdQueue
    /\ UNCHANGED <<commandVars, rdFaults, rdStream, rdTask, rdSubs, rdWire, rdChan, rdDropped,
                   rdDrained, rdGot, rdLost, rdTaken, rdPublished>>

\* The two arms of the task's select. A command that fails ends the task.
TaskEnds == rdTask' = FALSE /\ rdQueue' = <<>> /\ rdSubs' = {} /\ rdWire' = <<>>
RdTaskCommand ==
    /\ rdTask /\ rdQueue # <<>>
    /\ LET c == Head(rdQueue)
       IN  \/ /\ rdQueue' = Tail(rdQueue)
              /\ rdSubs' = IF c.op = "subscribe" THEN rdSubs \cup {c.channel} ELSE rdSubs \ {c.channel}
              /\ UNCHANGED <<rdTask, rdWire, rdFaults>>
           \/ rdFaults < RdFaults /\ rdFaults' = rdFaults + 1 /\ TaskEnds
    /\ UNCHANGED <<commandVars, rdStream, rdChan, rdDropped, rdDrained, rdGot, rdLost, rdTaken, rdPublished>>
RdTaskMessage ==
    /\ rdTask /\ rdWire # <<>>
    /\ rdWire' = Tail(rdWire)
    /\ rdTaken' = rdTaken + 1
    /\ IF Len(rdChan) < RdCapacity
       THEN rdChan' = Append(rdChan, Head(rdWire)) /\ UNCHANGED rdDropped
       ELSE rdDropped' = rdDropped + 1 /\ UNCHANGED rdChan
    /\ UNCHANGED <<commandVars, rdFaults, rdStream, rdTask, rdQueue, rdSubs, rdDrained,
                   rdGot, rdLost, rdPublished>>

\* read_event: takes up to max events while the task goes on, then the dropped
\* counter; `closed' says that the task is gone, not that the channel is empty.
read_event(max) ==
    /\ Free /\ rdStream = "open"
    /\ rdDrained' = [on |-> TRUE, events |-> <<>>, max |-> max]
    /\ UNCHANGED <<commandVars, rdFaults, rdStream, rdTask, rdQueue, rdSubs, rdWire, rdChan, rdDropped,
                   rdGot, rdLost, rdTaken, rdPublished>>
RdReadTake ==
    /\ rdDrained.on /\ Len(rdDrained.events) < rdDrained.max /\ rdChan # <<>>
    /\ rdDrained' = [rdDrained EXCEPT !.events = Append(@, Head(rdChan))]
    /\ rdChan' = Tail(rdChan)
    /\ UNCHANGED <<commandVars, rdFaults, rdStream, rdTask, rdQueue, rdSubs, rdWire, rdDropped,
                   rdGot, rdLost, rdTaken, rdPublished>>
RdReadEnd ==
    /\ rdDrained.on
    /\ Len(rdDrained.events) = rdDrained.max \/ rdChan = <<>>
    /\ rdGot' = rdGot \o rdDrained.events
    /\ rdLost' = rdLost + rdDropped
    /\ rdDropped' = 0
    /\ rdDrained' = NotReading
    /\ UNCHANGED <<commandVars, rdFaults, rdStream, rdTask, rdQueue, rdSubs, rdWire, rdChan,
                   rdTaken, rdPublished>>

close_event ==
    /\ Free /\ rdStream = "open"
    /\ rdStream' = "closed"
    /\ TaskEnds
    /\ rdChan' = <<>>
    /\ UNCHANGED <<commandVars, rdFaults, rdDropped, rdDrained, rdGot, rdLost, rdTaken, rdPublished>>

\* The server publishes to a subscriber, or drops the stream's connection.
RdPublish(ch) ==
    /\ rdTask /\ ch \in rdSubs /\ rdPublished < RdMessages
    /\ rdPublished' = rdPublished + 1
    /\ rdWire' = Append(rdWire, rdPublished')
    /\ UNCHANGED <<commandVars, rdFaults, rdStream, rdTask, rdQueue, rdSubs, rdChan, rdDropped,
                   rdDrained, rdGot, rdLost, rdTaken>>
RdStreamDrops ==
    /\ rdTask /\ rdFaults < RdFaults
    /\ rdFaults' = rdFaults + 1
    /\ TaskEnds
    /\ UNCHANGED <<commandVars, rdStream, rdChan, rdDropped, rdDrained, rdGot, rdLost, rdTaken, rdPublished>>

\* close: every connection and every task goes.
RdClose ==
    /\ Free /\ rdCached # {}
    /\ rdAsked = RdRequests
    /\ rdCached' = {}
    /\ rdStream' = "closed" /\ TaskEnds /\ rdChan' = <<>>
    /\ UNCHANGED <<rdReq, rdLast, rdSeen, rdResult, rdAsked, rdFaults, rdDropped, rdDrained, rdGot, rdLost,
                   rdTaken, rdPublished>>

RdNext ==
    \/ \E db \in RdDatabases, cmds \in RdPipelines : RdAsk(db, cmds)
    \/ RdAskAgain
    \/ manager \/ execute \/ reconnect_manager
    \/ open_event \/ close_event
    \/ \E op \in {"subscribe", "unsubscribe"}, ch \in RdChannels : control_event(op, ch)
    \/ \E max \in 1..2 : read_event(max)
    \/ RdReadTake \/ RdReadEnd
    \/ RdTaskCommand \/ RdTaskMessage
    \/ \E ch \in RdChannels : RdPublish(ch)
    \/ RdStreamDrops \/ RdClose

RdSpec == RdInit /\ [][RdNext]_rdVars

-----------------------------------------------------------------------------
RdTypeOK ==
    /\ rdCached \subseteq RdDatabases
    /\ rdResult \in {"none", "ok", "failed", "retryable"}
    /\ rdStream \in {"none", "open", "closed"}
    /\ rdTask \in BOOLEAN
    /\ Len(rdChan) <= RdCapacity /\ Len(rdQueue) <= RdControls

(***************************************************************************)
(* A write is applied at most once, whatever the connection does and       *)
(* however often the host repeats what it was told it may repeat, and an   *)
(* answered request was applied: the driver's own replay, and the          *)
(* retryable mark on its errors, are given to requests that only read.     *)
(***************************************************************************)
WritesApplyOnce ==
    \A k \in DOMAIN rdLast.cmds :
        rdLast.cmds[k] = "write" => /\ rdSeen[k] <= 1
                                    /\ rdResult = "ok" => rdSeen[k] = 1

(***************************************************************************)
(* Messages of a stream are read in the order they were published, and     *)
(* every message the task took is read, waiting, or counted as dropped,    *)
(* also when messages are dropped while a read is going on; the stream     *)
(* keeps no channel and no task once it is closed.                         *)
(***************************************************************************)
StreamAccounts ==
    LET held == rdGot \o rdDrained.events \o rdChan
    IN  /\ \A i, j \in DOMAIN held : i < j => held[i] < held[j]
        /\ rdStream = "open" => Len(held) + rdDropped + rdLost = rdTaken
        /\ rdStream = "closed" => ~rdTask /\ rdChan = <<>> /\ rdSubs = {}

\* What a Redis connection promises its host.
RedisSafe == RdTypeOK /\ WritesApplyOnce /\ StreamAccounts
-------------------------------------------------------------------------------
(***************************************************************************)
(* The MongoDB drivers: "modern" and "legacy" (drivers/mongodb-driver) and *)
(* "3.2" (drivers/mongodb-legacy-3-2-driver). Opening a connection: which  *)
(* database a user is looked up in, the second attempt with the admin      *)
(* database, and the refusal of servers the driver does not fit. Then the  *)
(* three requests of a connection: a command, a find, whose result travels *)
(* inline or, when it is large, as a blob read piece by piece, and the     *)
(* blob calls. Documents are numbers, and a packed document occupies as    *)
(* many units as its number plus one for its length.                       *)
(***************************************************************************)

CONSTANTS MgDrivers,    \* drivers under study
          MgUris,       \* connection strings, as records
          MgServers,    \* servers: version, whether buildInfo has it as versionArray, home of the user, encryption
          MgDocuments,  \* documents a collection may get
          MgSize,       \* bound: documents in the collection
          MgInline,     \* INLINE_BLOB_THRESHOLD_BYTES
          MgFinds,      \* bound: finds
          MgReads       \* sizes the host reads blobs in

NoDatabase == "none"
UriType == [srv : BOOLEAN, tls : BOOLEAN, user : BOOLEAN,
            authSource : {NoDatabase, "app", "admin"}, path : {NoDatabase, "app"}]
ServerType == [version : {32, 40, 42, 50}, says : BOOLEAN, home : {"app", "admin"}, tls : BOOLEAN, up : BOOLEAN]

ASSUME MgAssumption ==
    /\ MgDrivers \subseteq {"modern", "legacy", "3.2"}
    /\ MgUris \subseteq UriType /\ MgServers \subseteq ServerType
    /\ MgDocuments \subseteq Nat /\ MgReads \subseteq Nat \ {0}
    /\ {MgSize, MgInline, MgFinds} \subseteq Nat

VARIABLES mgDriver, mgServer,
          mgOpen,      \* the connection: closed, trying, open, or why it was refused
          mgUri,       \* the connection string sent by the host
          mgTried,     \* authentication databases tried so far, in order
          mgDocs,      \* the collection
          mgFind,      \* the find in progress
          mgBlobs,     \* blob_id |-> [bytes, offset]
          mgNextBlob,  \* BLOB_ID
          mgGot,       \* blob_id |-> what the host has read of it
          mgDone,      \* blobs the host was told it has read completely
          mgResults    \* find number |-> what the cursor gave and what the host got

mgVars == <<mgDriver, mgServer, mgOpen, mgUri, mgTried, mgDocs, mgFind, mgBlobs, mgNextBlob,
            mgGot, mgDone, mgResults>>

NoFind == [on |-> FALSE, read |-> <<>>, at |-> 0]

MgInit ==
    /\ mgDriver \in MgDrivers /\ mgServer \in MgServers
    /\ mgOpen = "closed" /\ mgUri = [srv |-> FALSE] /\ mgTried = <<>>
    /\ mgDocs = <<>> /\ mgFind = NoFind
    /\ mgBlobs = <<>> /\ mgNextBlob = 1 /\ mgGot = <<>> /\ mgDone = {} /\ mgResults = <<>>

dataVars == <<mgDocs, mgFind, mgBlobs, mgNextBlob, mgGot, mgDone, mgResults>>

(***************************************************************************)
(* Opening. The drivers of the library look a user up in authSource, else  *)
(* in the database of the path, else in admin; the 3.2 driver does so      *)
(* itself.                                                                 *)
(***************************************************************************)
auth_source(uri) ==
    IF uri.authSource # NoDatabase THEN uri.authSource
    ELSE IF uri.path # NoDatabase THEN uri.path ELSE "admin"

should_retry_with_admin_auth_source(uri) == uri.user /\ uri.authSource = NoDatabase
append_admin_auth_source(uri) == [uri EXCEPT !.authSource = "admin"]

\* What the server says to an attempt: "ok", "auth" (code 18) or "refused". A
\* server without TLS cannot be reached with it, nor one with TLS without.
Attempt(uri) ==
    IF ~mgServer.up \/ uri.tls # mgServer.tls THEN "refused"
    ELSE IF uri.user /\ auth_source(uri) # mgServer.home THEN "auth" ELSE "ok"

\* The 3.2 driver refuses what it cannot speak before it connects.
connect_refuses(uri) == mgDriver = "3.2" /\ (uri.srv \/ uri.tls)

\* A server whose buildInfo has no versionArray is taken for a recent one.
server_requires_legacy == mgServer.says /\ mgServer.version < 42

\* connect_and_read_build_info, answered; then the version check of the modern
\* driver (an older server than 4.2 is left to the legacy driver).
Connected ==
    mgOpen' = IF mgDriver = "modern" /\ server_requires_legacy THEN "incompatible" ELSE "open"

open_mongo(uri) ==
    /\ mgOpen = "closed"
    /\ mgUri' = uri
    /\ IF connect_refuses(uri) THEN mgOpen' = "refused" /\ UNCHANGED mgTried
       ELSE /\ mgTried' = IF uri.user THEN <<auth_source(uri)>> ELSE <<>>
            /\ CASE Attempt(uri) = "ok" -> Connected
                 [] Attempt(uri) = "auth" /\ mgDriver # "3.2" /\ should_retry_with_admin_auth_source(uri)
                      -> mgOpen' = "retrying"
                 [] OTHER -> mgOpen' = "refused"
    /\ UNCHANGED <<mgDriver, mgServer, dataVars>>
\* The second attempt; the server may have changed since the first.
MgRetry ==
    /\ mgOpen = "retrying"
    /\ LET uri == append_admin_auth_source(mgUri)
       IN  /\ mgTried' = Append(mgTried, auth_source(uri))
           /\ IF Attempt(uri) = "ok" THEN Connected ELSE mgOpen' = "refused"
    /\ UNCHANGED <<mgDriver, mgServer, mgUri, dataVars>>

(***************************************************************************)
(* find: iterates over the cursor while others write; an error on the way  *)
(* fails the whole find.                                                   *)
(***************************************************************************)
Packed(docs) == FlattenSeq([k \in DOMAIN docs |-> [u \in 1..(docs[k] + 1) |-> docs[k]]])

MgFindStart ==
    /\ mgOpen = "open" /\ ~mgFind.on /\ Len(mgResults) < MgFinds
    /\ mgFind' = [on |-> TRUE, read |-> <<>>, at |-> 0]
    /\ UNCHANGED <<mgDriver, mgServer, mgOpen, mgUri, mgTried, mgDocs, mgBlobs, mgNextBlob, mgGot,
                   mgDone, mgResults>>
MgCursorNext ==
    /\ mgFind.on /\ mgFind.at < Len(mgDocs)
    /\ mgFind' = [mgFind EXCEPT !.at = @ + 1, !.read = Append(@, mgDocs[mgFind.at + 1])]
    /\ UNCHANGED <<mgDriver, mgServer, mgOpen, mgUri, mgTried, mgDocs, mgBlobs, mgNextBlob, mgGot,
                   mgDone, mgResults>>
\* The cursor is exhausted: inline, or packed into a blob with its own id.
find ==
    /\ mgFind.on /\ mgFind.at = Len(mgDocs)
    /\ mgFind' = NoFind
    /\ LET bytes == Packed(mgFind.read)
           blob  == Len(bytes) > MgInline
       IN  /\ mgResults' = Append(mgResults,
                  [docs |-> mgFind.read, count |-> Len(mgFind.read),
                   inline |-> IF blob THEN <<>> ELSE mgFind.read,
                   blob |-> IF blob THEN mgNextBlob ELSE 0])
           /\ IF blob
              THEN /\ mgBlobs' = [b \in DOMAIN mgBlobs \cup {mgNextBlob} |->
                                     IF b = mgNextBlob THEN [bytes |-> bytes, offset |-> 0] ELSE mgBlobs[b]]
                   /\ mgGot' = Append(mgGot, <<>>)
                   /\ mgNextBlob' = mgNextBlob + 1
              ELSE UNCHANGED <<mgBlobs, mgGot, mgNextBlob>>
    /\ UNCHANGED <<mgDriver, mgServer, mgOpen, mgUri, mgTried, mgDocs, mgDone>>
MgCursorFails ==
    /\ mgFind.on
    /\ mgFind' = NoFind
    /\ UNCHANGED <<mgDriver, mgServer, mgOpen, mgUri, mgTried, mgDocs, mgBlobs, mgNextBlob, mgGot,
                   mgDone, mgResults>>

Least(a, b) == IF a < b THEN a ELSE b

read_blob(b, max) ==
    /\ mgOpen = "open" /\ ~mgFind.on /\ b \in DOMAIN mgBlobs
    /\ LET s == mgBlobs[b]  end == Least(s.offset + max, Len(s.bytes))
       IN  /\ mgBlobs' = [mgBlobs EXCEPT ![b].offset = end]
           /\ mgGot' = [mgGot EXCEPT ![b] = @ \o SubSeq(s.bytes, s.offset + 1, end)]
           /\ mgDone' = IF end = Len(s.bytes) THEN mgDone \cup {b} ELSE mgDone
    /\ UNCHANGED <<mgDriver, mgServer, mgOpen, mgUri, mgTried, mgDocs, mgFind, mgNextBlob, mgResults>>

close_blob(b) ==
    /\ mgOpen = "open" /\ ~mgFind.on /\ b \in DOMAIN mgBlobs
    /\ mgBlobs' = [k \in DOMAIN mgBlobs \ {b} |-> mgBlobs[k]]
    /\ UNCHANGED <<mgDriver, mgServer, mgOpen, mgUri, mgTried, mgDocs, mgFind, mgNextBlob, mgGot,
                   mgDone, mgResults>>

MgClose ==
    /\ mgOpen = "open" /\ ~mgFind.on
    /\ mgOpen' = "left"
    /\ mgBlobs' = <<>>
    /\ UNCHANGED <<mgDriver, mgServer, mgUri, mgTried, mgDocs, mgFind, mgNextBlob, mgGot, mgDone, mgResults>>

(***************************************************************************)
(* A command of this connection or of another client inserts a document or *)
(* empties the collection; the server stops, starts, or moves the user.    *)
(***************************************************************************)
MgWrites ==
    /\ \/ \E d \in MgDocuments : Len(mgDocs) < MgSize /\ mgDocs' = Append(mgDocs, d)
       \/ ~mgFind.on /\ mgDocs # <<>> /\ mgDocs' = <<>>
    /\ UNCHANGED <<mgDriver, mgServer, mgOpen, mgUri, mgTried, mgFind, mgBlobs, mgNextBlob, mgGot,
                   mgDone, mgResults>>
MgServerChanges ==
    /\ mgOpen \in {"closed", "retrying"}
    /\ mgServer' \in MgServers
    /\ UNCHANGED <<mgDriver, mgOpen, mgUri, mgTried, dataVars>>

MgNext ==
    \/ \E uri \in MgUris : open_mongo(uri)
    \/ MgRetry
    \/ MgFindStart \/ MgCursorNext \/ find \/ MgCursorFails
    \/ \E b \in DOMAIN mgBlobs : close_blob(b) \/ \E max \in MgReads : read_blob(b, max)
    \/ MgClose \/ MgWrites \/ MgServerChanges

MgSpec == MgInit /\ [][MgNext]_mgVars

-----------------------------------------------------------------------------
MgTypeOK ==
    /\ mgDriver \in MgDrivers
    /\ mgOpen \in {"closed", "retrying", "open", "refused", "incompatible", "left"}
    /\ DOMAIN mgBlobs \subseteq 1..(mgNextBlob - 1)

(***************************************************************************)
(* The user's choice of an authentication database is kept: no attempt is  *)
(* made against any other one, and without a choice the only other         *)
(* database asked is admin, once. An open connection of the modern driver  *)
(* is to a server it fits, or to one that does not tell its version.       *)
(***************************************************************************)
CredentialsGoWhereToldTo ==
    mgOpen # "closed" =>
        /\ mgUri.authSource # NoDatabase => \A k \in DOMAIN mgTried : mgTried[k] = mgUri.authSource
        /\ Len(mgTried) <= 2 /\ (Len(mgTried) = 2 => mgTried[2] = "admin")
        /\ mgOpen = "open" /\ mgDriver = "modern" /\ mgServer.says => mgServer.version >= 42
        /\ mgOpen = "open" /\ mgDriver = "3.2" => ~mgUri.tls

(***************************************************************************)
(* A find is delivered whole: the announced number of documents is the     *)
(* number of documents the cursor gave; they arrive inline, or the pieces  *)
(* the host has read when it is told `done' are the packed documents, in   *)
(* whatever sizes it reads and whatever it does with other blobs between.  *)
(***************************************************************************)
FindsArriveWhole ==
    \A r \in DOMAIN mgResults : LET res == mgResults[r] IN
        /\ res.count = Len(res.docs)
        /\ res.blob = 0 => res.inline = res.docs
        /\ res.blob # 0 =>
             LET all == Packed(res.docs)  got == mgGot[res.blob]
             IN  /\ got = SubSeq(all, 1, Len(got))
                 /\ res.blob \in mgDone => got = all

\* What a MongoDB connection promises its host.
MongoSafe == MgTypeOK /\ CredentialsGoWhereToldTo /\ FindsArriveWhole
===============================================================================
