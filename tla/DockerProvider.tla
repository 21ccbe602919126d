---------------------------- MODULE DockerProvider ----------------------------
(***************************************************************************)
(* The requests of the Docker provider, in parts that share nothing: the   *)
(* registry of pull jobs, the operations on the daemon's objects, and what *)
(* it shows and where it looks: the files of a container, the daemon       *)
(* behind a connection and the dates shown.                                *)
(***************************************************************************)
EXTENDS Integers, Sequences, FiniteSets, SequencesExt

-------------------------------------------------------------------------------
(***************************************************************************)
(* The Docker provider's request loop with its resource table and its      *)
(* registry of background jobs (image pulls).  One request is handled at a *)
(* time; only the pull tasks run beside the loop.  A task ends by sending  *)
(* its completion, by the cancel signal (sent, or its sender dropped), or  *)
(* by a panic.                                                             *)
(***************************************************************************)

CONSTANTS
    DkResources,    \* resource ids; an id is never issued twice
    DkJobs,         \* job ids, likewise
    MAX_JOBS

ASSUME DkBoundAssumption == MAX_JOBS \in Nat \ {0}

VARIABLES
    dkRes,      \* resource id -> "unused", "open" or "closed"
    dkJob,      \* job id -> [st, rx, owner]: JobState, completion receiver held, resource
    dkTask,     \* job id -> the tokio task: "none", "pulling", "ok", "err", "ended"
    dkStop,     \* jobs whose cancel sender was used or dropped
    dkUp,       \* the request loop runs
    dkReply     \* the last answer: [op, of, out]

dkVars == <<dkRes, dkJob, dkTask, dkStop, dkUp, dkReply>>

DkStates == {"unused", "running", "succeeded", "failed", "cancelled", "removed"}
DkOutcomes == {"ok", "invalid", "closed", "busy", "unavailable",
               "running", "succeeded", "failed", "cancelled", "value"}
DkAnswered(op, j, out) == dkReply' = [op |-> op, of |-> j, out |-> out]
DkInTable == {j \in DkJobs : dkJob[j].st \notin {"unused", "removed"}}

DkTypeOK ==
    /\ dkRes \in [DkResources -> {"unused", "open", "closed"}]
    /\ dkJob \in [DkJobs -> [st : DkStates, rx : BOOLEAN, owner : SUBSET DkResources]]
    /\ dkTask \in [DkJobs -> {"none", "pulling", "ok", "err", "ended"}]
    /\ dkStop \subseteq DkJobs
    /\ dkUp \in BOOLEAN
    /\ dkReply.out \in DkOutcomes

DkInit ==
    /\ dkRes = [r \in DkResources |-> "unused"]
    /\ dkJob = [j \in DkJobs |-> [st |-> "unused", rx |-> FALSE, owner |-> {}]]
    /\ dkTask = [j \in DkJobs |-> "none"]
    /\ dkStop = {}
    /\ dkUp = TRUE
    /\ dkReply = [op |-> "init", of |-> {}, out |-> "ok"]
-------------------------------------------------------------------------------
(* resource/open, resource/ping *)

\* The daemon may not answer; the id is inserted only after version() returned.
DkOpen(r) ==
    /\ dkUp /\ dkRes[r] = "unused"
    /\ \/ /\ dkRes' = [dkRes EXCEPT ![r] = "open"]
          /\ DkAnswered("open", {}, "ok")
       \/ /\ UNCHANGED dkRes
          /\ \E out \in {"invalid", "unavailable"} : DkAnswered("open", {}, out)
    /\ UNCHANGED <<dkJob, dkTask, dkStop, dkUp>>

DkPing(r) ==
    /\ dkUp
    /\ \E out \in (IF dkRes[r] = "open" THEN {"ok", "unavailable"} ELSE {"closed"}) :
          DkAnswered("ping", {}, out)
    /\ UNCHANGED <<dkRes, dkJob, dkTask, dkStop, dkUp>>
-------------------------------------------------------------------------------
(* job/start and the pull task *)

DkStartJob(r, j) ==
    /\ dkUp
    /\ dkJob[j].st = "unused"
    /\ \/ /\ dkRes[r] # "open"
          /\ DkAnswered("start", {j}, "closed")
          /\ UNCHANGED <<dkJob, dkTask>>
       \/ /\ dkRes[r] = "open"
          /\ DkAnswered("start", {j}, "invalid")        \* no image given
          /\ UNCHANGED <<dkJob, dkTask>>
       \/ /\ dkRes[r] = "open"
          /\ Cardinality(DkInTable) >= MAX_JOBS
          /\ DkAnswered("start", {j}, "busy")
          /\ UNCHANGED <<dkJob, dkTask>>
       \/ /\ dkRes[r] = "open"
          /\ Cardinality(DkInTable) < MAX_JOBS
          /\ dkJob' = [dkJob EXCEPT ![j] = [st |-> "running", rx |-> TRUE, owner |-> {r}]]
          /\ dkTask' = [dkTask EXCEPT ![j] = "pulling"]
          /\ DkAnswered("start", {j}, "running")
    /\ UNCHANGED <<dkRes, dkStop, dkUp>>

\* select! took the future: the stream of the pull ended or reported an error.
\* When the cancel signal is there too, select! may still choose the future.
DkPullEnds(j) ==
    /\ dkTask[j] = "pulling"
    /\ \E end \in {"ok", "err"} : dkTask' = [dkTask EXCEPT ![j] = end]
    /\ UNCHANGED <<dkRes, dkJob, dkStop, dkUp, dkReply>>

\* select! took the cancel receiver, or the task panicked: nothing is sent.
DkTaskStops(j) ==
    /\ dkTask[j] = "pulling"
    /\ dkTask' = [dkTask EXCEPT ![j] = "ended"]
    /\ UNCHANGED <<dkRes, dkJob, dkStop, dkUp, dkReply>>
-------------------------------------------------------------------------------
(* job/status, job/result, job/cancel, job/close *)

\* JobRegistry::poll: the completion moves into the job.
DkPoll(j) ==
    LET job == dkJob[j]
        ends(st) == [job EXCEPT !.st = st, !.rx = FALSE]
    IN  CASE job.st # "running" -> job
          [] job.st = "running" /\ ~job.rx -> ends("failed")
          [] job.st = "running" /\ job.rx /\ dkTask[j] = "ok" -> ends("succeeded")
          [] job.st = "running" /\ job.rx /\ dkTask[j] \in {"err", "ended"} -> ends("failed")
          [] OTHER -> job

DkStatus(j) ==
    /\ dkUp
    /\ IF j \in DkInTable
       THEN /\ dkJob' = [dkJob EXCEPT ![j] = DkPoll(j)]
            /\ DkAnswered("status", {j}, DkPoll(j).st)
       ELSE /\ UNCHANGED dkJob
            /\ DkAnswered("status", {j}, "closed")
    /\ UNCHANGED <<dkRes, dkTask, dkStop, dkUp>>

DkResult(j) ==
    /\ dkUp
    /\ IF j \in DkInTable
       THEN /\ dkJob' = [dkJob EXCEPT ![j] = DkPoll(j)]
            /\ DkAnswered("result", {j},
                  [succeeded |-> "value", running |-> "busy",
                   cancelled |-> "cancelled", failed |-> "failed"][DkPoll(j).st])
       ELSE /\ UNCHANGED dkJob
            /\ DkAnswered("result", {j}, "closed")
    /\ UNCHANGED <<dkRes, dkTask, dkStop, dkUp>>

DkCancel(j) ==
    /\ dkUp
    /\ \/ /\ j \in DkInTable /\ dkJob[j].st = "running"
          /\ dkJob' = [dkJob EXCEPT ![j].st = "cancelled", ![j].rx = FALSE]
          /\ dkStop' = dkStop \cup {j}
          /\ DkAnswered("cancel", {j}, "ok")
       \/ /\ j \in DkInTable /\ dkJob[j].st # "running"
          /\ DkAnswered("cancel", {j}, "ok")
          /\ UNCHANGED <<dkJob, dkStop>>
       \/ /\ j \notin DkInTable
          /\ DkAnswered("cancel", {j}, "closed")
          /\ UNCHANGED <<dkJob, dkStop>>
    /\ UNCHANGED <<dkRes, dkTask, dkUp>>

\* Removing an entry drops its cancel sender, which the task sees as well.
DkRemoved(js) ==
    /\ dkJob' = [j \in DkJobs |-> IF j \in js THEN [dkJob[j] EXCEPT !.st = "removed", !.rx = FALSE]
                                             ELSE dkJob[j]]
    /\ dkStop' = dkStop \cup js

DkCloseJob(j) ==
    /\ dkUp
    /\ DkRemoved({j} \cap DkInTable)
    /\ DkAnswered("close", {j}, "ok")
    /\ UNCHANGED <<dkRes, dkTask, dkUp>>
-------------------------------------------------------------------------------
(* resource/close, shutdown, the end of the socket *)

\* JobRegistry::clear takes no resource: it empties the whole registry.
DkCloseResource(r) ==
    /\ dkUp
    /\ \/ /\ dkRes[r] = "open"
          /\ dkRes' = [dkRes EXCEPT ![r] = "closed"]
          /\ DkRemoved(DkInTable)
          /\ DkAnswered("release", {}, "ok")
       \/ /\ dkRes[r] # "open"
          /\ DkAnswered("release", {}, "closed")
          /\ UNCHANGED <<dkRes, dkJob, dkStop>>
    /\ UNCHANGED <<dkTask, dkUp>>

DkExitTasks ==
    dkTask' = [j \in DkJobs |-> IF dkTask[j] = "pulling" THEN "ended" ELSE dkTask[j]]

\* Shutdown answers and leaves the loop; main returns and the runtime drops its tasks.
DkShutdown ==
    /\ dkUp
    /\ DkRemoved(DkInTable)
    /\ dkRes' = [r \in DkResources |-> IF dkRes[r] = "open" THEN "closed" ELSE dkRes[r]]
    /\ dkUp' = FALSE
    /\ DkExitTasks
    /\ DkAnswered("shutdown", {}, "ok")

\* recv_msg_async or send_msg_async failed.
DkHostGone ==
    /\ dkUp
    /\ dkUp' = FALSE
    /\ DkExitTasks
    /\ UNCHANGED <<dkRes, dkJob, dkStop, dkReply>>

DkNext ==
    \/ \E r \in DkResources : DkOpen(r) \/ DkPing(r) \/ DkCloseResource(r)
    \/ \E r \in DkResources, j \in DkJobs : DkStartJob(r, j)
    \/ \E j \in DkJobs : DkPullEnds(j) \/ DkTaskStops(j)
    \/ \E j \in DkJobs : DkStatus(j) \/ DkResult(j) \/ DkCancel(j) \/ DkCloseJob(j)
    \/ DkShutdown
    \/ DkHostGone

DkSpec == DkInit /\ [][DkNext]_dkVars
-------------------------------------------------------------------------------
(* Properties *)

(* A pull that nobody has told to stop is a running job of the registry,   *)
(* and the resource it was started on is open: cancel, job/close and       *)
(* resource/close leave no pull behind that no request can reach.          *)
DkNoOrphanPull ==
    \A j \in DkJobs :
        dkTask[j] = "pulling" /\ j \notin dkStop =>
            dkJob[j].st = "running" /\ \A r \in dkJob[j].owner : dkRes[r] = "open"

(* The registry never holds more than MAX_JOBS jobs, and no more pulls     *)
(* than that are under way that were not told to stop.                     *)
DkRegistryBounded ==
    /\ Cardinality(DkInTable) <= MAX_JOBS
    /\ Cardinality({j \in DkJobs : dkTask[j] = "pulling" /\ j \notin dkStop}) <= MAX_JOBS

(* A job that has ended keeps its outcome until it is closed: a completion *)
(* that arrives late does not turn a cancelled job into a finished one,    *)
(* and a late cancel does not take a result away.                          *)
DkOutcomeIsFinal ==
    \A j \in DkJobs : dkJob[j].st \in {"succeeded", "failed", "cancelled"} =>
         dkJob'[j].st \in {dkJob[j].st, "removed"}

(* A value is answered only for a pull that did end well, and a status     *)
(* answered after the task ended is not "running": one poll is enough.     *)
DkAnswersAreTrue ==
    /\ dkReply'.op = "result" /\ dkReply'.out = "value" /\ dkReply' # dkReply =>
         \A j \in dkReply'.of : dkTask[j] = "ok"
    /\ \A j \in DkJobs : DkStatus(j) /\ dkTask[j] # "pulling" => dkReply'.out # "running"
-------------------------------------------------------------------------------
(***************************************************************************)
(* docker/... operations of the Docker provider (resource/invoke) on an    *)
(* open resource.  The daemon is external: containers, images with their   *)
(* tags, volumes and networks, which other clients change as well.  Every  *)
(* operation is one call to the daemon that works or fails, except         *)
(* system/usage and system/prune, which make several calls in turn while   *)
(* the daemon's objects change between them.                               *)
(***************************************************************************)

CONSTANTS DkContainers, DkImages, DkTags, DkVolumes, DkNetworks

VARIABLES
    dkCont,     \* container -> "absent", "created", "running", "paused", "exited"
    dkUses,     \* container -> its image (a set: empty when absent)
    dkTagged,   \* image -> its tags, or {"absent"}
    dkVols,     \* volumes
    dkNets,     \* network -> "absent" or its containers
    dkCall,     \* the operation in progress: [op, step, seen, sum]
    dkListed,   \* the rows of the last image/list: [image, target, tags]
    dkDone      \* the last answer: [op, ok, sum], op only for usage and prune

dkDaemon == <<dkCont, dkUses, dkTagged, dkVols, dkNets>>
dkObjVars == <<dkCont, dkUses, dkTagged, dkVols, dkNets, dkCall, dkListed, dkDone>>

DkDangling == {"<none>"}            \* repo_tags of an image without a name
DkHere == {i \in DkImages : dkTagged[i] # {"absent"}}
DkIdle == dkCall.op = "none"
DkNoCall == [op |-> "none", step |-> 0, seen |-> {}, sum |-> 0]
DkSay(op, ok, sum) == dkDone' = [op |-> op, ok |-> ok, sum |-> sum]
DkUsed == UNION {dkUses[c] : c \in DkContainers}

DkObjInit ==
    /\ dkCont = [c \in DkContainers |-> "absent"]
    /\ dkUses = [c \in DkContainers |-> {}]
    /\ dkTagged = [i \in DkImages |-> {"absent"}]
    /\ dkVols = {}
    /\ dkNets = [n \in DkNetworks |-> {"absent"}]
    /\ dkCall = DkNoCall
    /\ dkListed = {}
    /\ dkDone = [op |-> "one", ok |-> TRUE, sum |-> 0]

DkObjTypeOK ==
    /\ dkCont \in [DkContainers -> {"absent", "created", "running", "paused", "exited"}]
    /\ dkUses \in [DkContainers -> SUBSET DkImages]
    /\ dkTagged \in [DkImages -> SUBSET (DkTags \cup {"absent"} \cup DkDangling)]
    /\ dkVols \subseteq DkVolumes
    /\ dkNets \in [DkNetworks -> SUBSET (DkContainers \cup {"absent"})]
    /\ dkCall.op \in {"none", "usage", "prune"}
-------------------------------------------------------------------------------
(* One call, one effect *)

DkFails ==
    /\ DkIdle
    /\ DkSay("one", FALSE, 0)
    /\ UNCHANGED <<dkDaemon, dkCall, dkListed>>

\* A call that only reads: list, inspect, logs, mounts, stats, top, diff, history.
DkReads(exists) ==
    /\ DkIdle
    /\ DkSay("one", exists, 0)
    /\ UNCHANGED <<dkDaemon, dkCall, dkListed>>

DkMoves(c, from, to) ==
    /\ DkIdle /\ dkCont[c] \in from
    /\ dkCont' = [dkCont EXCEPT ![c] = to]
    /\ DkSay("one", TRUE, 0)
    /\ UNCHANGED <<dkUses, dkTagged, dkVols, dkNets, dkCall, dkListed>>

DkContainerCreate(c, i) ==
    /\ DkIdle /\ dkCont[c] = "absent" /\ i \in DkHere
    /\ dkCont' = [dkCont EXCEPT ![c] = "created"]
    /\ dkUses' = [dkUses EXCEPT ![c] = {i}]
    /\ DkSay("one", TRUE, 0)
    /\ UNCHANGED <<dkTagged, dkVols, dkNets, dkCall, dkListed>>

DkContainerStart(c) == DkMoves(c, {"created", "exited", "running"}, "running")
DkContainerStop(c) == DkMoves(c, {"running", "paused", "exited"}, "exited")
DkContainerRestart(c) == DkMoves(c, {"created", "running", "exited"}, "running")
DkContainerPause(c) == DkMoves(c, {"running"}, "paused")
DkContainerUnpause(c) == DkMoves(c, {"paused"}, "running")
\* Any signal: the default SIGKILL ends the container, another may leave it running.
DkContainerKill(c) == \E to \in {"running", "exited"} : DkMoves(c, {"running"}, to)

\* The daemon without container c.
DkDrop(cs) ==
    /\ dkCont' = [c \in DkContainers |-> IF c \in cs THEN "absent" ELSE dkCont[c]]
    /\ dkUses' = [c \in DkContainers |-> IF c \in cs THEN {} ELSE dkUses[c]]
    /\ dkNets' = [n \in DkNetworks |-> dkNets[n] \ cs]

DkContainerRemove(c) ==         \* force, with its anonymous volumes
    /\ DkIdle /\ dkCont[c] # "absent"
    /\ DkDrop({c})
    /\ DkSay("one", TRUE, 0)
    /\ UNCHANGED <<dkTagged, dkVols, dkCall, dkListed>>

DkContainerRename(c) == DkReads(dkCont[c] # "absent")
DkContainerUpdate(c) == DkReads(dkCont[c] # "absent")
DkContainerList == DkReads(TRUE)
DkContainerInspect(c) == DkReads(dkCont[c] # "absent")
DkContainerLogs(c) == DkReads(dkCont[c] # "absent")
DkContainerMounts(c) == DkReads(dkCont[c] # "absent")
DkContainerStats(c) == DkReads(dkCont[c] # "absent")
DkContainerTop(c) == DkReads(dkCont[c] \in {"running", "paused"})
DkContainerDiff(c) == DkReads(dkCont[c] # "absent")
-------------------------------------------------------------------------------
(* Images *)

\* The names an image may be removed by: its first tag, whichever the daemon puts
\* first.  The placeholder "<none>" is no name; a dangling image has only its id.
DkTargets_keepsPlaceholder(i) == IF dkTagged[i] = {} THEN {i} ELSE dkTagged[i]
DkTargets(i) ==
    LET tags == dkTagged[i] \ DkDangling IN IF tags = {} THEN {i} ELSE tags

DkImageList ==
    /\ DkIdle
    /\ \E first \in [DkHere -> UNION {DkTargets(i) : i \in DkHere}] :
          /\ \A i \in DkHere : first[i] \in DkTargets(i)
          /\ dkListed' = {[image |-> i, tags |-> dkTagged[i], target |-> first[i]] : i \in DkHere}
    /\ DkSay("one", TRUE, 0)
    /\ UNCHANGED <<dkDaemon, dkCall>>

\* The tags of an image once tag t is taken from it; the last tag takes the image along.
DkUntag(i, t) == IF dkTagged[i] = {t} THEN {"absent"} ELSE dkTagged[i] \ {t}

\* Forced removal of a tag or of an image by its id.
DkImageRemove(name) ==
    /\ DkIdle
    /\ \/ /\ name \in DkTags /\ \E i \in DkHere : name \in dkTagged[i]
          /\ dkTagged' = [i \in DkImages |-> IF name \in dkTagged[i] THEN DkUntag(i, name) ELSE dkTagged[i]]
       \/ /\ name \in DkHere
          /\ dkTagged' = [dkTagged EXCEPT ![name] = {"absent"}]
    /\ DkSay("one", TRUE, 0)
    /\ UNCHANGED <<dkCont, dkUses, dkVols, dkNets, dkCall, dkListed>>

\* A tag has one image: giving it to i takes it from the image that had it,
\* which is left dangling when it had no other.
DkGives(i, t) ==
    [k \in DkImages |->
        IF k = i THEN ((IF dkTagged[i] = {"absent"} THEN {} ELSE dkTagged[i]) \ DkDangling) \cup {t}
        ELSE IF dkTagged[k] = {t} THEN DkDangling
        ELSE dkTagged[k] \ {t}]

DkImageTag(i, t) ==
    /\ DkIdle /\ i \in DkHere
    /\ dkTagged' = DkGives(i, t)
    /\ DkSay("one", TRUE, 0)
    /\ UNCHANGED <<dkCont, dkUses, dkVols, dkNets, dkCall, dkListed>>

DkPrunable(all) == {i \in DkHere : i \notin DkUsed /\ (all \/ dkTagged[i] \subseteq DkDangling)}
DkPruned(is) == [i \in DkImages |-> IF i \in is THEN {"absent"} ELSE dkTagged[i]]

DkImagePrune(all) ==
    /\ DkIdle
    /\ dkTagged' = DkPruned(DkPrunable(all))
    /\ DkSay("one", TRUE, 0)
    /\ UNCHANGED <<dkCont, dkUses, dkVols, dkNets, dkCall, dkListed>>

DkImageInspect(i) == DkReads(i \in DkHere)
DkImageHistory(i) == DkReads(i \in DkHere)
-------------------------------------------------------------------------------
(* Volumes and networks *)

DkSetVolumes(vs) ==
    /\ DkIdle
    /\ dkVols' = vs
    /\ DkSay("one", TRUE, 0)
    /\ UNCHANGED <<dkCont, dkUses, dkTagged, dkNets, dkCall, dkListed>>
DkVolumeCreate(v) == DkSetVolumes(dkVols \cup {v})
DkVolumeRemove(v) == v \in dkVols /\ DkSetVolumes(dkVols \ {v})
DkVolumePrune == DkSetVolumes({})
DkVolumeList == DkReads(TRUE)
DkVolumeInspect(v) == DkReads(v \in dkVols)

DkSetNetwork(n, members) ==
    /\ DkIdle
    /\ dkNets' = [dkNets EXCEPT ![n] = members]
    /\ DkSay("one", TRUE, 0)
    /\ UNCHANGED <<dkCont, dkUses, dkTagged, dkVols, dkCall, dkListed>>
DkNetworkCreate(n) == dkNets[n] = {"absent"} /\ DkSetNetwork(n, {})
DkNetworkConnect(n, c) ==
    /\ dkNets[n] # {"absent"} /\ dkCont[c] # "absent"
    /\ DkSetNetwork(n, dkNets[n] \cup {c})
DkNetworkDisconnect(n, c) == c \in dkNets[n] /\ DkSetNetwork(n, dkNets[n] \ {c})
DkNetworkRemove(n) == dkNets[n] = {} /\ DkSetNetwork(n, {"absent"})
DkNoNets == [n \in DkNetworks |-> IF dkNets[n] = {} THEN {"absent"} ELSE dkNets[n]]
DkNetworkPrune ==
    /\ DkIdle
    /\ dkNets' = DkNoNets
    /\ DkSay("one", TRUE, 0)
    /\ UNCHANGED <<dkCont, dkUses, dkTagged, dkVols, dkCall, dkListed>>
DkNetworkList == DkReads(TRUE)
DkNetworkInspect(n) == DkReads(dkNets[n] # {"absent"})
DkSystemInfo == DkReads(TRUE)
-------------------------------------------------------------------------------
(* system/usage: info, df, volumes, networks (both degrade to 0), the      *)
(* running containers, then one stats sample of each; a failed sample is   *)
(* left out.                                                               *)

DkUsage ==
    \/ /\ DkIdle                                        \* info, df
       /\ dkCall' = [op |-> "usage", step |-> 1, seen |-> {}, sum |-> 0]
       /\ UNCHANGED <<dkDaemon, dkListed, dkDone>>
    \/ /\ dkCall.op = "usage" /\ dkCall.step = 1        \* list_containers
       /\ dkCall' = [dkCall EXCEPT !.step = 2, !.seen = {c \in DkContainers : dkCont[c] \in {"running", "paused"}}]
       /\ UNCHANGED <<dkDaemon, dkListed, dkDone>>
    \/ /\ dkCall.op = "usage" /\ dkCall.step = 2        \* one sample
       /\ \E c \in dkCall.seen :
             \/ dkCont[c] # "absent" /\ dkCall' = [dkCall EXCEPT !.seen = @ \ {c}, !.sum = @ + 1]
             \/ dkCall' = [dkCall EXCEPT !.seen = @ \ {c}]
       /\ UNCHANGED <<dkDaemon, dkListed, dkDone>>
    \/ /\ dkCall.op = "usage" /\ dkCall.step = 2 /\ dkCall.seen = {}
       /\ dkCall' = DkNoCall
       /\ DkSay("usage", TRUE, dkCall.sum)
       /\ UNCHANGED <<dkDaemon, dkListed>>

DkUsageFails ==         \* info, df or list_containers
    /\ dkCall.op = "usage" /\ dkCall.step = 1
    /\ dkCall' = DkNoCall
    /\ DkSay("usage", FALSE, 0)
    /\ UNCHANGED <<dkDaemon, dkListed>>
-------------------------------------------------------------------------------
(* system/prune: containers, dangling images, volumes, networks.  The sum  *)
(* is the space reclaimed by the first three (one unit per object).        *)

DkPruneStart ==
    /\ DkIdle
    /\ dkCall' = [op |-> "prune", step |-> 1, seen |-> {}, sum |-> 0]
    /\ UNCHANGED <<dkDaemon, dkListed, dkDone>>

DkPruneContainers ==
    LET gone == {c \in DkContainers : dkCont[c] \in {"created", "exited"}}
    IN  /\ dkCall.op = "prune" /\ dkCall.step = 1
        /\ DkDrop(gone)
        /\ dkCall' = [dkCall EXCEPT !.step = 2, !.seen = @ \cup gone, !.sum = @ + Cardinality(gone)]
        /\ UNCHANGED <<dkTagged, dkVols, dkListed, dkDone>>

DkPruneImages ==
    LET gone == DkPrunable(FALSE)
    IN  /\ dkCall.op = "prune" /\ dkCall.step = 2
        /\ dkTagged' = DkPruned(gone)
        /\ dkCall' = [dkCall EXCEPT !.step = 3, !.seen = @ \cup gone, !.sum = @ + Cardinality(gone)]
        /\ UNCHANGED <<dkCont, dkUses, dkVols, dkNets, dkListed, dkDone>>

DkPruneVolumes ==
    /\ dkCall.op = "prune" /\ dkCall.step = 3
    /\ dkVols' = {}
    /\ dkCall' = [dkCall EXCEPT !.step = 4, !.seen = @ \cup dkVols, !.sum = @ + Cardinality(dkVols)]
    /\ UNCHANGED <<dkCont, dkUses, dkTagged, dkNets, dkListed, dkDone>>

DkPruneNetworks ==
    /\ dkCall.op = "prune" /\ dkCall.step = 4
    /\ dkNets' = DkNoNets
    /\ dkCall' = DkNoCall
    /\ DkSay("prune", TRUE, dkCall.sum)
    /\ UNCHANGED <<dkCont, dkUses, dkTagged, dkVols, dkListed>>

\* A failed call ends the operation; what the earlier calls deleted stays deleted
\* and is not reported.
DkPruneFails ==
    /\ dkCall.op = "prune"
    /\ dkCall' = DkNoCall
    /\ DkSay("prune", FALSE, 0)
    /\ UNCHANGED <<dkDaemon, dkListed>>
-------------------------------------------------------------------------------
(* External: other clients of the daemon, a pull job, a container that exits *)
DkOutside ==
    /\ \/ \E c \in DkContainers : /\ dkCont[c] = "running"
                                  /\ dkCont' = [dkCont EXCEPT ![c] = "exited"]
                                  /\ UNCHANGED <<dkUses, dkTagged, dkVols, dkNets>>
       \/ \E c \in DkContainers : dkCont[c] # "absent" /\ DkDrop({c}) /\ UNCHANGED <<dkTagged, dkVols>>
       \/ \E i \in DkImages, t \in DkTags : /\ dkTagged' = DkGives(i, t)
                                            /\ UNCHANGED <<dkCont, dkUses, dkVols, dkNets>>
    /\ UNCHANGED <<dkCall, dkListed, dkDone>>

DkContainerOps ==
    \E c \in DkContainers :
        \/ \E i \in DkImages : DkContainerCreate(c, i)
        \/ DkContainerStart(c) \/ DkContainerStop(c) \/ DkContainerRestart(c) \/ DkContainerPause(c)
        \/ DkContainerUnpause(c) \/ DkContainerKill(c) \/ DkContainerRemove(c) \/ DkContainerRename(c)
        \/ DkContainerUpdate(c) \/ DkContainerInspect(c) \/ DkContainerLogs(c) \/ DkContainerMounts(c)
        \/ DkContainerStats(c) \/ DkContainerTop(c) \/ DkContainerDiff(c)
DkImageOps ==
    \/ DkImageList
    \/ \E name \in DkTags \cup DkImages : DkImageRemove(name)
    \/ \E i \in DkImages : DkImageInspect(i) \/ DkImageHistory(i) \/ \E t \in DkTags : DkImageTag(i, t)
    \/ \E all \in BOOLEAN : DkImagePrune(all)
DkStoreOps ==
    \/ \E v \in DkVolumes : DkVolumeCreate(v) \/ DkVolumeRemove(v) \/ DkVolumeInspect(v)
    \/ DkVolumePrune \/ DkVolumeList \/ DkNetworkPrune \/ DkNetworkList
    \/ \E n \in DkNetworks : DkNetworkCreate(n) \/ DkNetworkRemove(n) \/ DkNetworkInspect(n)
    \/ \E n \in DkNetworks, c \in DkContainers : DkNetworkConnect(n, c) \/ DkNetworkDisconnect(n, c)
DkSystemOps ==
    \/ DkSystemInfo \/ DkContainerList \/ DkUsage \/ DkUsageFails \/ DkPruneStart
    \/ DkPruneContainers \/ DkPruneImages \/ DkPruneVolumes \/ DkPruneNetworks \/ DkPruneFails
DkObjNext == DkContainerOps \/ DkImageOps \/ DkStoreOps \/ DkSystemOps \/ DkFails \/ DkOutside
DkObjSpec == DkObjInit /\ [][DkObjNext]_dkObjVars
-------------------------------------------------------------------------------
(* Properties *)

(* The target image/list gives for a row is accepted by image/remove and   *)
(* removes that row's image, or the named tag from it, and nothing from    *)
(* any other image, as long as the row is not stale.                       *)
DkListedTargetIsItsImage ==
    \A row \in dkListed :
       /\ row.image \in DkHere /\ dkTagged[row.image] = row.tags
       => /\ row.target \in DkTags \cup DkImages
          /\ DkImageRemove(row.target) =>
                /\ dkTagged'[row.image] # row.tags
                /\ \A i \in DkImages \ {row.image} : dkTagged'[i] = dkTagged[i]

(* system/usage does not fail because a container vanished between the     *)
(* list and its sample, and adds up no more samples than were running.     *)
DkUsageSurvivesChurn ==
    dkCall.op = "usage" /\ dkCall.step = 2 =>
       /\ dkCall'.op = "none" => dkDone'.ok
       /\ dkCall'.sum + Cardinality(dkCall'.seen) <= dkCall.sum + Cardinality(dkCall.seen)

(* The space system/prune reports accounts for every container, image and  *)
(* volume its four calls deleted.                                          *)
DkPruneReportsAll ==
    dkCall.op = "prune" /\ dkCall'.op = "none" /\ dkDone'.ok =>
       dkDone'.sum = Cardinality(dkCall.seen)

-------------------------------------------------------------------------------
(***************************************************************************)
(* Browsing and deleting files inside a container.  The provider runs ls   *)
(* and stat in the directory asked for, shows one row per name plus a ".." *)
(* row, and deletes a path with rm -rf.  The container's own processes     *)
(* change the files meanwhile, between ls and each stat too.               *)
(*                                                                         *)
(* A path is the sequence of its segments, <<>> the root; the container's  *)
(* files are a set of such paths closed under parents, some of them        *)
(* directories.                                                            *)
(***************************************************************************)

CONSTANTS DfNames,     \* file names, in their order
          DfTrim,      \* segment -> what is left of it without blanks at its end
          DfRaw,       \* the paths the host may send: sequences of names, "", "." and ".."
          DfDepth,     \* no path of the container is longer
          DfChanges    \* how often the container changes its files

VARIABLES dfDirs, dfFiles,  \* the container's directories and files
          dfCall,           \* the call in progress
          dfRows,           \* the last directory listing shown, and its path
          dfChanges
dfVars == <<dfDirs, dfFiles, dfCall, dfRows, dfChanges>>

DfIdle == [op |-> "none"]
DfNoRows == [path |-> <<>>, rows |-> <<>>]
Up == ".."
DfAll == dfDirs \cup dfFiles
Under(p, q) == Len(q) >= Len(p) /\ SubSeq(q, 1, Len(p)) = p

-----------------------------------------------------------------------------
(* Paths.                                                                  *)

\* Blanks at the end are dropped (those at the beginning come before the first
\* slash), then slashes at the end; those inside stay.
normalize_container_path(raw) ==
    LET trimmed == [i \in DOMAIN raw |-> IF i = Len(raw) THEN DfTrim[raw[i]] ELSE raw[i]]
        last == {i \in DOMAIN raw : trimmed[i] # ""}
    IN  SubSeq(trimmed, 1, IF last = {} THEN 0 ELSE CHOOSE i \in last : \A j \in last : j <= i)

parent_path(path) == IF path = <<>> THEN <<>> ELSE Front(path)

\* What the container's kernel makes of a path (external).
Resolve(path) ==
    FoldLeft(LAMBDA at, s : CASE s = Up          -> IF at = <<>> THEN <<>> ELSE Front(at)
                              [] s \in {"", "."} -> at
                              [] OTHER           -> Append(at, s), <<>>, path)

-----------------------------------------------------------------------------
(* Listing.                                                                *)

DfInit ==
    /\ dfDirs = {<<>>} \cup {<<n>> : n \in ToSet(DfNames)}
    /\ dfFiles = {}
    /\ dfCall = DfIdle
    /\ dfRows = DfNoRows
    /\ dfChanges = 0

\* The exec starts in the directory, or fails because there is none.
list(raw) ==
    /\ dfCall = DfIdle
    /\ LET path == normalize_container_path(raw)
           here == Resolve(path)
       IN  /\ here \in dfDirs
           /\ dfCall' = [op |-> "list", path |-> path, at |-> here, rows |-> <<>>,
                         left |-> SelectSeq(DfNames, LAMBDA n : Append(here, n) \in DfAll)]
    /\ UNCHANGED <<dfDirs, dfFiles, dfRows, dfChanges>>

list_missing(raw) ==
    /\ dfCall = DfIdle
    /\ Resolve(normalize_container_path(raw)) \notin dfDirs
    /\ UNCHANGED dfVars

\* One name of ls is looked up; it is of unknown type if it is gone again, or if
\* stat fails for another reason.
stat ==
    /\ dfCall.op = "list" /\ dfCall.left # <<>>
    /\ LET name == Head(dfCall.left)
           there == Append(dfCall.at, name)
           found == CASE there \in dfDirs  -> "directory"
                      [] there \in dfFiles -> "file"
                      [] OTHER             -> "unknown"
       IN  \E type \in {found, "unknown"} :
              dfCall' = [dfCall EXCEPT !.left = Tail(@),
                           !.rows = Append(@, [name |-> name, type |-> type,
                                               path |-> Append(dfCall.path, name)])]
    /\ UNCHANGED <<dfDirs, dfFiles, dfRows, dfChanges>>

\* The parent first, then what is not a directory, then the directories, each
\* group by name.
sorted(rows) ==
    SelectSeq(rows, LAMBDA r : r.name = Up)
       \o SelectSeq(rows, LAMBDA r : r.name # Up /\ r.type # "directory")
       \o SelectSeq(rows, LAMBDA r : r.name # Up /\ r.type = "directory")

listed ==
    /\ dfCall.op = "list" /\ dfCall.left = <<>>
    /\ LET up == IF dfCall.path = <<>> THEN <<>>
                 ELSE <<[name |-> Up, type |-> "directory", path |-> parent_path(dfCall.path)]>>
       IN  dfRows' = [path |-> dfCall.path, rows |-> sorted(up \o dfCall.rows)]
    /\ dfCall' = DfIdle
    /\ UNCHANGED <<dfDirs, dfFiles, dfChanges>>

-----------------------------------------------------------------------------
(* Deleting.                                                               *)

Refused(path) == path # <<>> => Last(path) = Up

refuse(raw) ==
    /\ dfCall = DfIdle
    /\ Refused(normalize_container_path(raw))
    /\ UNCHANGED dfVars

\* rm -rf: a path that ends in "." is an error for rm, one that is not there
\* is none.
delete(raw) ==
    LET path == normalize_container_path(raw)
    IN  /\ dfCall = DfIdle
        /\ ~Refused(path)
        /\ IF path # <<>> /\ Last(path) = "." THEN UNCHANGED <<dfDirs, dfFiles>>
           ELSE /\ dfDirs' = {d \in dfDirs : ~Under(Resolve(path), d)}
                /\ dfFiles' = {f \in dfFiles : ~Under(Resolve(path), f)}
        /\ UNCHANGED <<dfCall, dfRows, dfChanges>>

-----------------------------------------------------------------------------
\* The container's processes (external).
changes(p, kind) ==
    /\ dfChanges < DfChanges
    /\ dfChanges' = dfChanges + 1
    /\ CASE kind = "remove" -> /\ dfDirs' = {d \in dfDirs : ~Under(p, d)}
                               /\ dfFiles' = {f \in dfFiles : ~Under(p, f)}
         [] kind = "file"   -> /\ p \notin dfDirs /\ Front(p) \in dfDirs
                               /\ dfFiles' = dfFiles \cup {p}
                               /\ UNCHANGED dfDirs
         [] kind = "dir"    -> /\ p \notin dfFiles /\ Front(p) \in dfDirs
                               /\ dfDirs' = dfDirs \cup {p}
                               /\ UNCHANGED dfFiles
    /\ UNCHANGED <<dfCall, dfRows>>

DfNext ==
    \/ \E raw \in DfRaw : list(raw) \/ list_missing(raw) \/ refuse(raw) \/ delete(raw)
    \/ stat
    \/ listed
    \/ \E n \in 1..DfDepth : \E p \in [1..n -> ToSet(DfNames)] :
          \E kind \in {"remove", "file", "dir"} : changes(p, kind)
    \/ \E r \in ToSet(dfRows.rows) : r.name # Up /\ delete(r.path)

DfSpec == DfInit /\ [][DfNext]_dfVars

-----------------------------------------------------------------------------
(* Properties.                                                             *)

DfTypeOK ==
    /\ <<>> \in dfDirs
    /\ dfDirs \cap dfFiles = {}
    /\ \A p \in DfAll \ {<<>>} : Front(p) \in dfDirs

\* Each row leads to the name it shows: listing or deleting its path is about that
\* very entry of the listed directory, however the host spelled it.  Not so for a name
\* that ends in blanks: its path is trimmed and leads to another entry, or to the
\* directory itself.
RowsLeadWhereTheyShow ==
    LET here == Resolve(dfRows.path)
    IN  \A r \in ToSet(dfRows.rows) :
            IF r.name = Up
            THEN Last(dfRows.path) \notin {Up, "."} =>
                    Resolve(normalize_container_path(r.path))
                       = IF here = <<>> THEN <<>> ELSE Front(here)
            ELSE DfTrim[r.name] = r.name =>
                    Resolve(normalize_container_path(r.path)) = Append(here, r.name)

\* Deleting empties one subtree and nothing beside it, and never the root.
DeleteIsExact ==
    \A raw \in DfRaw : delete(raw) =>
       LET gone == DfAll \ (dfDirs' \cup dfFiles')
           target == Resolve(normalize_container_path(raw))
       IN  /\ \A p \in gone : Under(target, p)
           /\ target = <<>> => gone = {}
-------------------------------------------------------------------------------
(***************************************************************************)
(* Which Docker daemon a connection is about is worked out twice: by the   *)
(* provider from the connection form, when the resource is opened, and by  *)
(* the exec-bridge process of each terminal from the DOCKER_HOST,          *)
(* DOCKER_TLS_VERIFY and DOCKER_CERT_PATH the opened resource hands to the *)
(* host.  Both must come to the same daemon, as protected.                 *)
(*                                                                         *)
(* A location is "home" (below ~/), "absolute" or "relative", and may go   *)
(* up with ".."; a socket may lack the unix://; "" is a field left blank.  *)
(***************************************************************************)

CONSTANTS DhForms,    \* the connection forms a user can fill in
          DhUnix      \* whether the provider runs where there are unix sockets

VARIABLES dhTarget,   \* what the provider connects to
          dhEnv,      \* the environment its terminals are started with
          dhBridge    \* what the last terminal connects to
dhVars == <<dhTarget, dhEnv, dhBridge>>

NoTarget == [kind |-> "none"]
Invalid == [kind |-> "invalid"]
BlankPlace == [base |-> "", up |-> FALSE, name |-> ""]

-----------------------------------------------------------------------------
\* ~/ becomes the home directory; what is not absolute or goes up is refused.
expand_dir(place) ==
    IF place.base = "relative" \/ place.up THEN Invalid
    ELSE [kind |-> "path", base |-> "absolute", up |-> FALSE,
          name |-> <<place.base, place.name>>]

\* Only unix:// is a socket.  One below the home directory is not looked at any
\* further.
expand_socket(place) ==
    CASE place.base = "home" ->
            [kind |-> "path", base |-> "absolute", up |-> place.up, name |-> <<"home", place.name>>]
      [] place.base # "home" /\ (place.base \in {"relative", "no unix://"} \/ place.up) -> Invalid
      [] OTHER ->
            [kind |-> "path", base |-> "absolute", up |-> place.up,
             name |-> <<place.base, place.name>>]

Unix(path) == [kind |-> "unix", path |-> path]
Http(host, port) == [kind |-> "http", host |-> host, port |-> port]
Https(host, port, dir) == [kind |-> "https", host |-> host, port |-> port, dir |-> dir]

local_socket(path) == IF ~DhUnix \/ path = Invalid THEN Invalid ELSE Unix(path)

DefaultSocket == [base |-> "home", up |-> FALSE, name |-> "docker.sock"]
DefaultCerts == [base |-> "home", up |-> FALSE, name |-> ".docker"]
Otherwise(place, default) == IF place = BlankPlace THEN default ELSE place

\* A port left blank depends on the protection asked for.
remote(form) ==
    LET tls == form.secure = "tls"
        port == IF form.port = "" THEN (IF tls THEN "2376" ELSE "2375") ELSE form.port
        dir == expand_dir(Otherwise(form.certs, DefaultCerts))
    IN  CASE form.host = "" \/ port = "bad" -> Invalid
          [] form.host # "" /\ port # "bad" /\ ~tls -> Http(form.host, port)
          [] OTHER -> IF dir = Invalid THEN Invalid ELSE Https(form.host, port, dir)

resolve(form) ==
    CASE form.mode \in {"", "local"} ->
            local_socket(expand_socket(Otherwise(form.socket, DefaultSocket)))
      [] form.mode = "remote" -> remote(form)
      [] OTHER -> Invalid

-----------------------------------------------------------------------------
\* The properties of the opened resource; the fields a target has not are "".
Environment(target) ==
    [host   |-> CASE target.kind = "unix" -> [scheme |-> "unix", path |-> target.path]
                  [] OTHER -> [scheme |-> "tcp", addr |-> target.host, port |-> target.port],
     verify |-> target.kind = "https",
     certs  |-> IF target.kind = "https" THEN target.dir ELSE Invalid]

\* Already expanded, the socket's path is examined again; so is the directory.
Again(place) == [base |-> place.base, up |-> place.up, name |-> place.name]
Same(place, checked) == IF checked = Invalid THEN Invalid ELSE place

\* The environment as the docker CLI of old would read it: no verify flag.
from_env_vars_byScheme(env) ==
    IF env.host.scheme = "unix" THEN local_socket(env.host.path)
    ELSE Http(env.host.addr, env.host.port)

\* The hosts it meets are the ones the provider wrote: unix:// or tcp://.
from_env_vars(env) ==
    CASE env.host.scheme = "unix" ->
            local_socket(Same(env.host.path, expand_socket(Again(env.host.path))))
      [] env.host.scheme = "tcp" /\ env.verify ->
            LET dir == IF env.certs = Invalid THEN Invalid
                       ELSE Same(env.certs, expand_dir(Again(env.certs)))
            IN  IF dir = Invalid THEN Invalid ELSE Https(env.host.addr, env.host.port, dir)
      [] OTHER -> Http(env.host.addr, env.host.port)

-----------------------------------------------------------------------------
DhInit == dhTarget = NoTarget /\ dhEnv = NoTarget /\ dhBridge = NoTarget

resource_open(form) ==
    /\ dhTarget' = resolve(form)
    /\ dhEnv' = IF dhTarget' = Invalid THEN NoTarget ELSE Environment(dhTarget')
    /\ dhBridge' = NoTarget

exec_bridge ==
    /\ dhEnv # NoTarget
    /\ dhBridge' = from_env_vars(dhEnv)
    /\ UNCHANGED <<dhTarget, dhEnv>>

DhNext == exec_bridge \/ \E form \in DhForms : resource_open(form)
DhSpec == DhInit /\ [][DhNext]_dhVars

-----------------------------------------------------------------------------
\* A terminal reaches the very daemon the resource is about, over the same
\* protection, unless its socket goes up from the home directory: that one the
\* provider accepts and the terminal refuses.
TerminalsReachTheDaemon ==
    dhBridge # NoTarget =>
        \/ dhBridge = dhTarget
        \/ dhBridge = Invalid /\ dhTarget.kind = "unix" /\ dhTarget.path.up

\* A form that asks for TLS is never answered with an open connection, and
\* only a form that does not is.
TlsIsKept ==
    \A form \in DhForms : resource_open(form) =>
       /\ form.mode = "remote" /\ form.secure = "tls" => dhTarget'.kind \in {"https", "invalid"}
       /\ dhTarget'.kind = "unix" => DhUnix
-------------------------------------------------------------------------------
(***************************************************************************)
(* utc_format of the Docker provider: the date of a day number, computed   *)
(* with its variant of the civil_from_days algorithm, against a calendar   *)
(* that is advanced one day at a time.                                     *)
(***************************************************************************)

CONSTANTS
    DtFirst,        \* the first day checked: [day, date] with date = <<y, m, d>>
    DtDays          \* how many days follow it

VARIABLES dtDay, dtDate

dtVars == <<dtDay, dtDate>>

DtIsLeap(y) == (y % 4 = 0 /\ y % 100 # 0) \/ y % 400 = 0

\* Days of the era before its year y (which begins in March).
DtYearStart(y) == 365 * y + (y \div 4) - (y \div 100)

\* The two while loops that correct the guess: up while the next year still starts
\* before doe, then down while this one starts after it.
DtYearOfEra(doe) ==
    LET guess == (4 * doe) \div 1461
        up == CHOOSE y \in guess..(guess + 2) :
                 /\ DtYearStart(y + 1) >= doe
                 /\ \A k \in guess..(y - 1) : DtYearStart(k + 1) < doe
    IN  CHOOSE y \in (up - 2)..up :
           /\ DtYearStart(y) <= doe
           /\ \A k \in (y + 1)..up : DtYearStart(k) > doe

\* Only days from 1970 on: z + 719468 is positive.
DtCivilFromDays(day) ==
    LET z == day + 719468
        era == z \div 146097
        doe == z - era * 146097
        yoe == DtYearOfEra(doe)
        doy == doe - DtYearStart(yoe)
        mp == (5 * doy + 2) \div 153
        d == doy - ((153 * mp + 2) \div 5) + 1
        m == mp + 3 - 12 * (mp \div 10)
        y == yoe + era * 400 + (mp \div 10)
    IN  IF m = 2 /\ d = 29 /\ ~DtIsLeap(y) THEN <<y, 3, 1>> ELSE <<y, m, d>>
-------------------------------------------------------------------------------
(* The calendar *)

DtMonthDays(y, m) ==
    IF m = 2 THEN (IF DtIsLeap(y) THEN 29 ELSE 28) ELSE IF m \in {4, 6, 9, 11} THEN 30 ELSE 31

DtTomorrow(date) ==
    LET y == date[1] m == date[2] d == date[3]
    IN  IF d < DtMonthDays(y, m) THEN <<y, m, d + 1>>
        ELSE IF m < 12 THEN <<y, m + 1, 1>> ELSE <<y + 1, 1, 1>>

DtInit == dtDay = DtFirst.day /\ dtDate = DtFirst.date
DtNext ==
    /\ dtDay < DtFirst.day + DtDays
    /\ dtDay' = dtDay + 1
    /\ dtDate' = DtTomorrow(dtDate)
DtSpec == DtInit /\ [][DtNext]_dtVars
-------------------------------------------------------------------------------
(* The date computed for a day is the calendar's, but for one day: the     *)
(* first of March of a leap year outside the first century of its 400      *)
(* years, which comes out as the 30th of February.                         *)
DtDateIsRight ==
    DtCivilFromDays(dtDay) =
       IF dtDate[2] = 3 /\ dtDate[3] = 1 /\ DtIsLeap(dtDate[1]) /\ dtDate[1] % 400 >= 100
       THEN <<dtDate[1], 2, 30>> ELSE dtDate
===============================================================================
