------------------------------ MODULE EsProvider ------------------------------
(***************************************************************************)
(* The Elasticsearch provider, in two parts that share nothing: the tables *)
(* of the request loop, and the operations on the cluster.                 *)
(***************************************************************************)
EXTENDS Naturals, Sequences, FiniteSets, SequencesExt, FiniteSetsExt

-------------------------------------------------------------------------------
(***************************************************************************)
(* The Elasticsearch provider's request loop: resources, result blobs,     *)
(* asynchronous searches and event streams.  Requests are handled one at a *)
(* time; only the search tasks run beside the loop.  A finished search is  *)
(* noticed by a job/status or job/result request, which also announces it  *)
(* on the event streams.                                                   *)
(***************************************************************************)

CONSTANTS
    EsResources, EsJobs, EsBlobs, EsStreams,    \* ids (uuids: never issued twice)
    EsMaxJobs,          \* MAX_JOBS
    EsMaxStreams,       \* MAX_EVENT_STREAMS
    EsBudget,           \* MAX_TOTAL_BLOB_BYTES, in units of one read
    EsSizes,            \* sizes of results; a result of size 0 is sent inline
    EsCapacity          \* capacity the host asks for a stream

ASSUME EsAssumption ==
    /\ EsMaxJobs \in Nat \ {0} /\ EsMaxStreams \in Nat \ {0} /\ EsCapacity \in Nat \ {0}
    /\ EsBudget \in Nat /\ EsSizes \subseteq Nat

VARIABLES
    esRes,      \* resource id -> "unused", "open", "closed"
    esJob,      \* job id -> [st, owner, blob]
    esTask,     \* job id -> "none", "searching", "hits", "error", "ended"
    esStop,     \* jobs whose cancel sender was used or dropped
    esBlob,     \* blob id -> [st, owner, size, offset]
    esStream,   \* stream id -> [st, buf, dropped]
    esSeen,     \* stream id -> [before, sent, got]: jobs ended before it opened, events pushed to it, events read from it
    esUp        \* the request loop runs

esVars == <<esRes, esJob, esTask, esStop, esBlob, esStream, esSeen, esUp>>

EsEnded == {"succeeded", "failed", "cancelled"}
EsInTable == {j \in EsJobs : esJob[j].st \in EsEnded \cup {"running"}}
EsOpenStreams == {s \in EsStreams : esStream[s].st = "open"}
EsLive == {b \in EsBlobs : esBlob[b].st = "live"}

EsTypeOK ==
    /\ esRes \in [EsResources -> {"unused", "open", "closed"}]
    /\ \A j \in EsJobs : /\ esJob[j].st \in EsEnded \cup {"unused", "running", "removed"}
                         /\ esJob[j].owner \subseteq EsResources
                         /\ esJob[j].blob \subseteq EsBlobs
    /\ esStop \subseteq EsJobs
    /\ \A b \in EsBlobs : /\ esBlob[b].st \in {"unused", "live", "gone"}
                          /\ esBlob[b].offset \in 0..esBlob[b].size
    /\ \A s \in EsStreams : /\ esStream[s].st \in {"unused", "open", "closed"}
                            /\ Len(esStream[s].buf) <= EsCapacity

EsInit ==
    /\ esRes = [r \in EsResources |-> "unused"]
    /\ esJob = [j \in EsJobs |-> [st |-> "unused", owner |-> {}, blob |-> {}]]
    /\ esTask = [j \in EsJobs |-> "none"]
    /\ esStop = {}
    /\ esBlob = [b \in EsBlobs |-> [st |-> "unused", owner |-> {}, size |-> 0, offset |-> 0]]
    /\ esStream = [s \in EsStreams |-> [st |-> "unused", buf |-> << >>, dropped |-> 0]]
    /\ esSeen = [s \in EsStreams |-> [before |-> {}, sent |-> << >>, got |-> << >>]]
    /\ esUp = TRUE

EsUnchangedJobs == UNCHANGED <<esJob, esTask, esStop>>
EsUnchangedStreams == UNCHANGED <<esStream, esSeen>>
-------------------------------------------------------------------------------
(* Blobs *)

\* store_blob refuses what would exceed the budget.
EsTotal == MapThenSumSet(LAMBDA b : esBlob[b].size, EsLive)

EsFits(size) == EsTotal + size <= EsBudget

EsStored(b, r, size) ==
    [esBlob EXCEPT ![b] = [st |-> "live", owner |-> {r}, size |-> size, offset |-> 0]]

EsDropped(bs) == [b \in EsBlobs |-> IF b \in bs THEN [esBlob[b] EXCEPT !.st = "gone"] ELSE esBlob[b]]

\* resource/invoke: a small result is answered inline, a large one becomes a blob.
EsInvoke(r) ==
    /\ esUp /\ esRes[r] = "open"
    /\ \E size \in EsSizes \ {0} : \E b \in EsBlobs :
          /\ esBlob[b].st = "unused"
          /\ EsFits(size)
          /\ esBlob' = EsStored(b, r, size)
    /\ EsUnchangedJobs /\ EsUnchangedStreams
    /\ UNCHANGED <<esRes, esUp>>

\* blob/read of one unit, the largest read the host may ask for.
EsReadBlob(b) ==
    /\ esUp /\ b \in EsLive
    /\ esBlob' = [esBlob EXCEPT ![b].offset = Min({@ + 1, esBlob[b].size})]
    /\ EsUnchangedJobs /\ EsUnchangedStreams
    /\ UNCHANGED <<esRes, esUp>>

EsCloseBlob(b) ==
    /\ esUp /\ b \in EsLive
    /\ esBlob' = EsDropped({b})
    /\ EsUnchangedJobs /\ EsUnchangedStreams
    /\ UNCHANGED <<esRes, esUp>>
-------------------------------------------------------------------------------
(* Event streams *)

\* Streams belong to the provider, not to a resource; one resource must be open.
EsOpenStream(s) ==
    /\ esUp /\ esStream[s].st = "unused"
    /\ \E r \in EsResources : esRes[r] = "open"
    /\ Cardinality(EsOpenStreams) < EsMaxStreams
    /\ esStream' = [esStream EXCEPT ![s].st = "open"]
    /\ esSeen' = [esSeen EXCEPT ![s].before = {j \in EsJobs : esJob[j].st \in EsEnded \cup {"removed"}}]
    /\ EsUnchangedJobs
    /\ UNCHANGED <<esRes, esBlob, esUp>>

\* push_event: a full buffer loses its oldest event, and counts it.
EsPush(stream, j) ==
    LET full == Len(stream.buf) >= EsCapacity
    IN  [stream EXCEPT !.buf = Append(IF full THEN Tail(@) ELSE @, j),
                       !.dropped = IF full THEN @ + 1 ELSE @]

EsBroadcast(j) ==
    /\ esStream' = [s \in EsStreams |-> IF s \in EsOpenStreams THEN EsPush(esStream[s], j) ELSE esStream[s]]
    /\ esSeen' = [s \in EsStreams |-> IF s \in EsOpenStreams
                                     THEN [esSeen[s] EXCEPT !.sent = Append(@, j)] ELSE esSeen[s]]

EsReadStream(s) ==
    /\ esUp /\ s \in EsOpenStreams
    /\ \E n \in 1..Len(esStream[s].buf) :
          /\ esStream' = [esStream EXCEPT ![s].buf = SubSeq(@, n + 1, Len(@))]
          /\ esSeen' = [esSeen EXCEPT ![s].got = @ \o SubSeq(esStream[s].buf, 1, n)]
    /\ EsUnchangedJobs
    /\ UNCHANGED <<esRes, esBlob, esUp>>

EsCloseStream(s) ==
    /\ esUp /\ s \in EsOpenStreams
    /\ esStream' = [esStream EXCEPT ![s] = [st |-> "closed", buf |-> << >>, dropped |-> 0]]
    /\ EsUnchangedJobs
    /\ UNCHANGED <<esRes, esBlob, esSeen, esUp>>
-------------------------------------------------------------------------------
(* Asynchronous searches *)

\* Unknown resources and methods and unusable queries are refused before the table is touched.
EsStartJob(r, j) ==
    /\ esUp /\ esJob[j].st = "unused" /\ esRes[r] = "open"
    /\ Cardinality(EsInTable) < EsMaxJobs
    /\ esJob' = [esJob EXCEPT ![j] = [st |-> "running", owner |-> {r}, blob |-> {}]]
    /\ esTask' = [esTask EXCEPT ![j] = "searching"]
    /\ EsUnchangedStreams
    /\ UNCHANGED <<esRes, esStop, esBlob, esUp>>

\* The search returned; select! may take this branch although the cancel signal is there.
EsSearchReturns(j) ==
    /\ esTask[j] = "searching"
    /\ \E end \in {"hits", "error"} : esTask' = [esTask EXCEPT ![j] = end]
    /\ EsUnchangedStreams
    /\ UNCHANGED <<esRes, esJob, esStop, esBlob, esUp>>

\* select! took the cancel branch, or the task panicked.
EsSearchStops(j) ==
    /\ esTask[j] = "searching"
    /\ esTask' = [esTask EXCEPT ![j] = "ended"]
    /\ EsUnchangedStreams
    /\ UNCHANGED <<esRes, esJob, esStop, esBlob, esUp>>

\* poll_job and complete_job: what one look at the completion channel makes of a job.
EsPolled(j, job, blobs) ==
    \/ /\ esTask[j] \in {"error", "ended"}
       /\ job = [esJob[j] EXCEPT !.st = "failed"] /\ blobs = esBlob
    \/ /\ esTask[j] = "hits"
       /\ \E size \in EsSizes :
             \/ /\ size = 0
                /\ job = [esJob[j] EXCEPT !.st = "succeeded"] /\ blobs = esBlob
             \/ /\ size > 0 /\ ~EsFits(size)
                /\ job = [esJob[j] EXCEPT !.st = "failed"] /\ blobs = esBlob
             \/ /\ size > 0 /\ EsFits(size)
                /\ \E b \in EsBlobs, r \in esJob[j].owner :
                      /\ esBlob[b].st = "unused"
                      /\ job = [esJob[j] EXCEPT !.st = "succeeded", !.blob = {b}]
                      /\ blobs = EsStored(b, r, size)

EsPollChanges(j) ==
    /\ esJob[j].st = "running" /\ esTask[j] # "searching"
    /\ \E job \in [st : EsEnded, owner : {esJob[j].owner}, blob : {{}} \cup {{b} : b \in EsBlobs}] :
       \E blobs \in {esBlob} \cup {EsStored(b, r, size) : b \in EsBlobs, r \in esJob[j].owner, size \in EsSizes} :
          /\ EsPolled(j, job, blobs)
          /\ esJob' = [esJob EXCEPT ![j] = job]
          /\ esBlob' = blobs
    /\ EsBroadcast(j)

\* job/status and job/result: poll, announce a change, answer.
EsLook(j) ==
    /\ esUp /\ j \in EsInTable
    /\ \/ EsPollChanges(j)
       \/ /\ esJob[j].st # "running" \/ esTask[j] = "searching"
          /\ EsUnchangedStreams
          /\ UNCHANGED <<esJob, esBlob>>
    /\ UNCHANGED <<esRes, esTask, esStop, esUp>>

EsCancel(j) ==
    /\ esUp /\ j \in EsInTable
    /\ \/ /\ esJob[j].st = "running"
          /\ esJob' = [esJob EXCEPT ![j].st = "cancelled"]
          /\ esStop' = esStop \cup {j}
          /\ EsBroadcast(j)
       \/ /\ esJob[j].st # "running"
          /\ EsUnchangedStreams /\ UNCHANGED <<esJob, esStop>>
    /\ UNCHANGED <<esRes, esTask, esBlob, esUp>>

EsRemoved(js) == [j \in EsJobs |-> IF j \in js THEN [esJob[j] EXCEPT !.st = "removed"] ELSE esJob[j]]

\* close_job_by_id removes the job's blob with it and announces nothing.
EsCloseJob(j) ==
    /\ esUp /\ j \in EsInTable
    /\ esJob' = EsRemoved({j})
    /\ esStop' = esStop \cup {j}
    /\ esBlob' = EsDropped(esJob[j].blob)
    /\ EsUnchangedStreams
    /\ UNCHANGED <<esRes, esTask, esUp>>
-------------------------------------------------------------------------------
(* Resources and the process *)

EsOpenResource(r) ==
    /\ esUp /\ esRes[r] = "unused"
    /\ esRes' = [esRes EXCEPT ![r] = "open"]
    /\ EsUnchangedJobs /\ EsUnchangedStreams
    /\ UNCHANGED <<esBlob, esUp>>

\* Fault: closing a resource leaves its jobs running.
EsCloseResource_keepsJobs(r) ==
    /\ esUp /\ esRes[r] = "open"
    /\ esRes' = [esRes EXCEPT ![r] = "closed"]
    /\ esBlob' = EsDropped({b \in EsLive : esBlob[b].owner = {r}})
    /\ EsUnchangedJobs /\ EsUnchangedStreams
    /\ UNCHANGED esUp

\* The jobs of the resource with their blobs, then its other blobs.
EsCloseResource(r) ==
    LET js == {j \in EsInTable : esJob[j].owner = {r}}
    IN  /\ esUp /\ esRes[r] = "open"
        /\ esRes' = [esRes EXCEPT ![r] = "closed"]
        /\ esJob' = EsRemoved(js)
        /\ esStop' = esStop \cup js
        /\ esBlob' = EsDropped({b \in EsLive : esBlob[b].owner = {r}})
        /\ EsUnchangedStreams
        /\ UNCHANGED <<esTask, esUp>>

\* The loop ends: shutdown clears the tables, a lost socket just ends the process.
EsStopLoop ==
    /\ esUp
    /\ esUp' = FALSE
    /\ esRes' = [r \in EsResources |-> IF esRes[r] = "open" THEN "closed" ELSE esRes[r]]
    /\ esJob' = EsRemoved(EsInTable)
    /\ esTask' = [j \in EsJobs |-> IF esTask[j] = "searching" THEN "ended" ELSE esTask[j]]
    /\ esBlob' = EsDropped(EsLive)
    /\ esStream' = [s \in EsStreams |-> [esStream[s] EXCEPT !.st = "closed", !.buf = << >>, !.dropped = 0]]
    /\ UNCHANGED <<esStop, esSeen>>

EsNext ==
    \/ \E r \in EsResources : EsOpenResource(r) \/ EsCloseResource(r) \/ EsInvoke(r)
    \/ \E b \in EsBlobs : EsReadBlob(b) \/ EsCloseBlob(b)
    \/ \E s \in EsStreams : EsOpenStream(s) \/ EsReadStream(s) \/ EsCloseStream(s)
    \/ \E r \in EsResources, j \in EsJobs : EsStartJob(r, j)
    \/ \E j \in EsJobs : EsSearchReturns(j) \/ EsSearchStops(j) \/ EsLook(j) \/ EsCancel(j) \/ EsCloseJob(j)
    \/ EsStopLoop

EsSpec == EsInit /\ [][EsNext]_esVars
-------------------------------------------------------------------------------
(* Properties *)

(* Every search that ended while a stream was open is announced on it      *)
(* exactly once, however often its status and result are asked for, and    *)
(* nothing else is: a job closed while it ran is not announced.            *)
EsEndsAnnouncedOnce ==
    \A s \in EsOpenStreams :
        /\ IsInjective(esSeen[s].sent)
        /\ \A j \in EsJobs :
              /\ esJob[j].st \in EsEnded => j \in ToSet(esSeen[s].sent) \cup esSeen[s].before
              /\ esJob[j].st \in {"unused", "running"} => j \notin ToSet(esSeen[s].sent)

(* What a host reads from a stream, what still waits and the count of      *)
(* dropped events add up to what was announced; the events that wait are   *)
(* the newest ones and what was read came in the order of announcement.    *)
EsStreamAccounts ==
    \A s \in EsOpenStreams :
        LET sent == esSeen[s].sent
            got == esSeen[s].got
            buf == esStream[s].buf
        IN  /\ Len(got) + Len(buf) + esStream[s].dropped = Len(sent)
            /\ IsSuffix(buf, sent)
            /\ got = SelectSeq(sent, LAMBDA j : j \in ToSet(got))

(* The blobs held never exceed the budget, although results are stored by  *)
(* two paths, and every blob held belongs to an open resource and, when a  *)
(* search produced it, to a job that can still be closed.                  *)
EsBlobsHeld ==
    /\ EsTotal <= EsBudget
    /\ \A b \in EsLive :
          /\ \A r \in esBlob[b].owner : esRes[r] = "open"
          /\ \A j \in EsJobs : b \in esJob[j].blob => j \in EsInTable

(* A search nobody has told to stop is a running job of an open resource,  *)
(* and there are never more of them than the table may hold.               *)
EsNoOrphanSearch ==
    LET going == {j \in EsJobs : esTask[j] = "searching" /\ j \notin esStop}
    IN  /\ Cardinality(going) <= EsMaxJobs
        /\ \A j \in going : esJob[j].st = "running" /\ \A r \in esJob[j].owner : esRes[r] = "open"

(* An outcome is final: a search that finishes after it was cancelled      *)
(* stays cancelled, and a cancel that comes too late takes no result away. *)
EsOutcomeIsFinal ==
    \A j \in EsJobs : esJob[j].st \in EsEnded =>
         esJob'[j].blob = esJob[j].blob /\ esJob'[j].st \in {esJob[j].st, "removed"}
-------------------------------------------------------------------------------
(***************************************************************************)
(* What resource/invoke of the Elasticsearch provider does to the cluster: *)
(* the operations on indices, aliases and documents, the validation of     *)
(* their parameters, and the set of indices a search, a count or a shard   *)
(* listing reaches.  The cluster is external: an index is missing, open or *)
(* closed, holds documents, and shows those of the last refresh.           *)
(***************************************************************************)

CONSTANTS
    EsIndices,      \* index names the host uses
    EsDocs,         \* document ids
    EsAliases       \* alias names

VARIABLES
    esIx,       \* index -> [st, docs, shown, alias]
    esDid       \* the last request: [scoped, named, out, reached]

esCluster == <<esIx, esDid>>

EsExists(i) == esIx[i].st # "missing"
EsSearchable == {i \in EsIndices : esIx[i].st = "open"}

EsClusterInit ==
    /\ esIx = [i \in EsIndices |-> [st |-> "missing", docs |-> {}, shown |-> {}, alias |-> {}]]
    /\ esDid = [scoped |-> FALSE, named |-> {}, out |-> "ok", reached |-> {}]

\* A JSON parameter: absent or null, refused by its form ("bad"), naming the indices in `of`,
\* or with a wildcard or a comma, which matches those in `of` whether they exist or not.
EsParam == [is : {"absent", "bad"}, of : {{}}] \cup
           [is : {"text"}, of : {{i} : i \in EsIndices}] \cup
           [is : {"array", "pattern"}, of : SUBSET EsIndices]
EsNameParam == {p \in EsParam : p.is # "array"}
EsListParam == {p \in EsParam : p.is # "text"}
EsNames(p) == p.is \in {"text", "pattern"} \/ p.of # {}

EsRefused == [is |-> "refused", of |-> {}]
EsWhole == [is |-> "whole", of |-> {}]

\* index_name: required; "/", "?" and "#" are refused, "*" and "," are not.
index_name(name) == IF name.is \in {"text", "pattern"} THEN name ELSE EsRefused

\* An explicit list first, then the single name; neither means the whole cluster.
collect_index_strings(indices, name) ==
    CASE indices.is = "bad" -> EsRefused
      [] EsNames(indices) -> indices
      [] OTHER -> IF name.is = "absent" THEN EsWhole ELSE index_name(name)

\* The answer to a request about the indices named, none when the request was refused.
EsDoes(named, out, reached) ==
    esDid' = [scoped |-> TRUE, named |-> named, out |-> out, reached |-> reached]

\* The cluster's answer may be lost to a timeout, exceed the body limit or fail to decode.
EsAnswers == {"ok", "lost"}
-------------------------------------------------------------------------------
(* Requests that read *)

\* A search needs a body that is an object, or else a query that is not blank.
search_body(body, query) == body = "object" \/ (body = "absent" /\ query = "text")
\* A count takes any query, and none.
count_body(body) == body # "other"
EsBodyIsGood(op, body, query) ==
    CASE op = "search" -> search_body(body, query)
      [] op = "count" -> count_body(body)
      [] op = "shards" -> TRUE

\* search, count and index/shards: an empty set of names is CatShardsParts::None and the like.
EsRead(op, indices, name, body, query) ==
    LET scope == collect_index_strings(indices, name)
        Does(out, reached) ==
            esDid' = [scoped |-> EsNames(indices) \/ EsNames(name),
                      named |-> indices.of \cup name.of, out |-> out, reached |-> reached]
        good == scope # EsRefused /\ EsBodyIsGood(op, body, query)
    IN  /\ UNCHANGED esIx
        /\ \/ ~good /\ Does("invalid", {})
           \/ /\ good /\ scope = EsWhole
              /\ \E out \in EsAnswers : Does(out, EsSearchable)
           \/ /\ good /\ scope.is = "pattern"
              /\ \E out \in EsAnswers : Does(out, scope.of \cap EsSearchable)
           \/ /\ good /\ scope.is \in {"text", "array"} /\ scope.of \subseteq EsSearchable
              /\ \E out \in EsAnswers : Does(out, scope.of)
           \/ /\ good /\ scope.is \in {"text", "array"} /\ ~(scope.of \subseteq EsSearchable)
              /\ Does("failed", {})             \* 404 or a closed index

\* index/get, mapping, settings, aliases, stats and document/get read what the name stands for.
EsGet(name) ==
    LET i == index_name(name)
    IN  /\ UNCHANGED esIx
        /\ EsDoes(i.of,
              CASE i = EsRefused -> "invalid"
                [] i.is = "text" /\ \E x \in i.of : ~EsExists(x) -> "failed"
                [] OTHER -> "ok",
              IF i.is = "pattern" THEN {x \in i.of : EsExists(x)} ELSE i.of)
-------------------------------------------------------------------------------
(* Requests that write *)

EsPatternOps == {"delete", "refresh", "open", "close"}

\* op changes the one index it names to `new`, if `able`; a lost answer does not undo it.
\* With a pattern, the operations the cluster takes it for change all that match; the
\* cluster may be configured to refuse that for a deletion.
EsChange(op, name, Able(_), New(_)) ==
    LET i == index_name(name)
        able == {x \in i.of : Able(x)}
        Reaches(changed, out) ==
            /\ esIx' = [x \in EsIndices |-> IF x \in changed THEN New(x) ELSE esIx[x]]
            /\ EsDoes(i.of, out, changed)
    IN  \/ i = EsRefused /\ Reaches({}, "invalid")
        \/ i.is = "text" /\ able = {} /\ Reaches({}, "failed")
        \/ i.is = "text" /\ able # {} /\ \E out \in EsAnswers : Reaches(able, out)
        \/ i.is = "pattern" /\ op \in EsPatternOps /\ \E out \in EsAnswers : Reaches(able, out)
        \/ i.is = "pattern" /\ op \notin EsPatternOps \ {"delete"} /\ Reaches({}, "failed")

EsCreate(name) ==
    EsChange("create", name, LAMBDA x : ~EsExists(x),
             LAMBDA x : [st |-> "open", docs |-> {}, shown |-> {}, alias |-> {}])

EsDelete(name) ==
    EsChange("delete", name, EsExists,
             LAMBDA x : [st |-> "missing", docs |-> {}, shown |-> {}, alias |-> {}])

EsRefresh(name) ==
    EsChange("refresh", name, LAMBDA x : esIx[x].st = "open",
             LAMBDA x : [esIx[x] EXCEPT !.shown = esIx[x].docs])

EsReopen(name) == EsChange("open", name, EsExists, LAMBDA x : [esIx[x] EXCEPT !.st = "open"])

EsShut(name) == EsChange("close", name, EsExists, LAMBDA x : [esIx[x] EXCEPT !.st = "closed"])

\* document/index creates a missing index; refresh asks that the document be shown at once.
EsPutDocument(name, d, refresh) ==
    EsChange("index", name, LAMBDA x : esIx[x].st # "closed",
             LAMBDA x : LET docs == esIx[x].docs \cup {d}
                        IN  [esIx[x] EXCEPT !.st = "open", !.docs = docs,
                                            !.shown = IF refresh THEN docs ELSE @])

EsDeleteDocument(name, d) ==
    EsChange("delete_document", name, LAMBDA x : esIx[x].st = "open" /\ d \in esIx[x].docs,
             LAMBDA x : [esIx[x] EXCEPT !.docs = @ \ {d}])

\* alias/update sends its actions in one request: the cluster takes all of them or none.
EsUpdateAliases(alias, from, to) ==
    \/ /\ EsExists(from) /\ EsExists(to) /\ alias \in esIx[from].alias
       /\ \E out \in EsAnswers : EsDoes({from, to}, out, {from, to})
       /\ esIx' = [esIx EXCEPT ![from].alias = @ \ {alias}, ![to].alias = @ \cup {alias}]
    \/ /\ ~(EsExists(from) /\ EsExists(to) /\ alias \in esIx[from].alias)
       /\ EsDoes({from, to}, "failed", {})
       /\ UNCHANGED esIx

EsAddAlias(alias, i) ==
    /\ EsExists(i)
    /\ esIx' = [esIx EXCEPT ![i].alias = @ \cup {alias}]
    /\ EsDoes({i}, "ok", {i})

\* The cluster refreshes open indices by itself.
EsPeriodicRefresh(i) ==
    /\ esIx[i].st = "open"
    /\ esIx' = [esIx EXCEPT ![i].shown = esIx[i].docs]
    /\ EsDoes({i}, "ok", {})

EsClusterNext ==
    \/ \E indices \in EsListParam, name \in EsNameParam :
          \/ \E body \in {"object", "other"}, op \in {"search", "count"} : EsRead(op, indices, name, body, "absent")
          \/ \E query \in {"absent", "text"} : EsRead("search", indices, name, "absent", query)
          \/ EsRead("shards", indices, name, "absent", "absent")
    \/ \E name \in EsNameParam :
          \/ EsGet(name) \/ EsCreate(name) \/ EsDelete(name) \/ EsRefresh(name)
          \/ EsReopen(name) \/ EsShut(name)
          \/ \E d \in EsDocs : EsDeleteDocument(name, d)
          \/ \E d \in EsDocs, refresh \in BOOLEAN : EsPutDocument(name, d, refresh)
    \/ \E a \in EsAliases, from, to \in EsIndices : from # to /\ EsUpdateAliases(a, from, to)
    \/ \E a \in EsAliases, i \in EsIndices : EsAddAlias(a, i)
    \/ \E i \in EsIndices : EsPeriodicRefresh(i)

EsClusterSpec == EsClusterInit /\ [][EsClusterNext]_esCluster
-------------------------------------------------------------------------------
(* Properties *)

(* collect_index_strings: a request that names an index, or a pattern of   *)
(* them, never reaches another one, whichever of the two parameters has    *)
(* the name, and a parameter of the wrong form is refused, never taken for *)
(* "no index", so that a search inside one index does not silently become  *)
(* a search of the whole cluster.                                          *)
EsScopeNeverWidens ==
    /\ esDid.scoped => esDid.reached \subseteq esDid.named
    /\ \A indices \in EsListParam, name \in EsNameParam :
          LET scope == collect_index_strings(indices, name)
          IN  "bad" \in {indices.is} \cup (IF EsNames(indices) THEN {} ELSE {name.is}) => scope = EsRefused

(* An operation changes only the indices it names, and a request that was  *)
(* refused or failed changes none.                                         *)
EsWritesStayNamed ==
    \A i \in EsIndices : esIx'[i] # esIx[i] =>
         i \in esDid'.named /\ esDid'.out \notin {"invalid", "failed"}
===============================================================================
