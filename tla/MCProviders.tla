----------------------------- MODULE MCProviders ------------------------------
(***************************************************************************)
(* The components of the four composite providers, each on a small         *)
(* instance.  They share no state (each provider is a process of its own,  *)
(* and the modules of one provider are about separate tables), so one run  *)
(* explores one of them at a time: `part' says which, and the variables of *)
(* the others are off.                                                     *)
(***************************************************************************)
EXTENDS DockerProvider, EsProvider, MqttProvider, RocketmqProvider, TLC

CONSTANT Parts

VARIABLE part

Off == "off"

JobsOff ==
    dkRes = Off /\ dkJob = Off /\ dkTask = Off /\ dkStop = Off /\ dkUp = Off /\ dkReply = Off
ObjectsOff ==
    dkCont = Off /\ dkUses = Off /\ dkTagged = Off /\ dkVols = Off /\ dkNets = Off /\
    dkCall = Off /\ dkListed = Off /\ dkDone = Off
FilesOff ==
    dfDirs = Off /\ dfFiles = Off /\ dfCall = Off /\ dfRows = Off /\ dfChanges = Off
TargetOff == dhTarget = Off /\ dhEnv = Off /\ dhBridge = Off
DatesOff == dtDay = Off /\ dtDate = Off
SearchesOff ==
    esRes = Off /\ esJob = Off /\ esTask = Off /\ esStop = Off /\ esBlob = Off /\
    esStream = Off /\ esSeen = Off /\ esUp = Off
ClusterOff == esIx = Off /\ esDid = Off
EventsOff ==
    mqResources = Off /\ mqLog = Off /\ mqStreams = Off /\ mqUsed = Off /\ mqReading = Off /\
    mqBatch = Off
ProfileOff ==
    mqpKv = Off /\ mqpOpen = Off /\ mqpUsed = Off /\ mqpHost = Off /\ mqpAsked = Off
HistoryOff ==
    mqaNow = Off /\ mqaArrived = Off /\ mqaCursor = Off /\ mqaRing = Off /\ mqaHeld = Off /\
    mqaRecorded = Off /\ mqaReceived = Off /\ mqaSent = Off /\ mqaToday = Off /\ mqaDay = Off
AdminOff ==
    rqaTopics = Off /\ rqaRoutes = Off /\ rqaOffsets = Off /\ rqaCall = Off /\
    rqaLast = Off /\ rqaResets = Off
PagesOff == rqwStored = Off /\ rqwClock = Off
ReadsOff ==
    rrUp = Off /\ rrKnown = Off /\ rrGroups = Off /\ rrOnline = Off /\ rrTopics = Off /\
    rrChanges = Off /\ rrCall = Off /\ rrResult = Off
ResourceOff ==
    rpOpen = Off /\ rpUsed = Off /\ rpChannels = Off /\ rpBlobs = Off /\ rpAnswer = Off /\
    rpRunning = Off

Init ==
    /\ part \in Parts
    /\ IF part = "jobs" THEN DkInit ELSE JobsOff
    /\ IF part = "objects" THEN DkObjInit ELSE ObjectsOff
    /\ IF part = "files" THEN DfInit ELSE FilesOff
    /\ IF part = "target" THEN DhInit ELSE TargetOff
    /\ IF part = "dates" THEN DtInit ELSE DatesOff
    /\ IF part = "searches" THEN EsInit ELSE SearchesOff
    /\ IF part = "cluster" THEN EsClusterInit ELSE ClusterOff
    /\ IF part = "events" THEN MqEventInit ELSE EventsOff
    /\ IF part = "profile" THEN MqpInit ELSE ProfileOff
    /\ IF part = "history" THEN MqaInit ELSE HistoryOff
    /\ IF part = "admin" THEN RqaInit ELSE AdminOff
    /\ IF part = "pages" THEN RqwInit ELSE PagesOff
    /\ IF part = "reads" THEN RrInit ELSE ReadsOff
    /\ IF part = "resource" THEN RpInit ELSE ResourceOff

\* The other parts rest.
Resting ==
    /\ IF part = "jobs" THEN TRUE ELSE UNCHANGED dkVars
    /\ IF part = "objects" THEN TRUE ELSE UNCHANGED dkObjVars
    /\ IF part = "files" THEN TRUE ELSE UNCHANGED dfVars
    /\ IF part = "target" THEN TRUE ELSE UNCHANGED dhVars
    /\ IF part = "dates" THEN TRUE ELSE UNCHANGED dtVars
    /\ IF part = "searches" THEN TRUE ELSE UNCHANGED esVars
    /\ IF part = "cluster" THEN TRUE ELSE UNCHANGED esCluster
    /\ IF part = "events" THEN TRUE ELSE UNCHANGED mqEventVars
    /\ IF part = "profile" THEN TRUE ELSE UNCHANGED mqpVars
    /\ IF part = "history" THEN TRUE ELSE UNCHANGED mqaVars
    /\ IF part = "admin" THEN TRUE ELSE UNCHANGED rqaVars
    /\ IF part = "pages" THEN TRUE ELSE UNCHANGED rqwVars
    /\ IF part = "reads" THEN TRUE ELSE UNCHANGED rrVars
    /\ IF part = "resource" THEN TRUE ELSE UNCHANGED rpVars

Next ==
    /\ UNCHANGED part /\ Resting
    /\ \/ part = "jobs" /\ DkNext
       \/ part = "objects" /\ DkObjNext
       \/ part = "files" /\ DfNext
       \/ part = "target" /\ DhNext
       \/ part = "dates" /\ DtNext
       \/ part = "searches" /\ EsNext
       \/ part = "cluster" /\ EsClusterNext
       \/ part = "events" /\ MqEventNext
       \/ part = "profile" /\ MqpNext
       \/ part = "history" /\ MqaNext
       \/ part = "admin" /\ RqaNext
       \/ part = "pages" /\ RqwNext
       \/ part = "reads" /\ RrNext
       \/ part = "resource" /\ RpNext

vars == <<part, dkVars, dkObjVars, dfVars, dhVars, dtVars, esVars, esCluster, mqEventVars, mqpVars, mqaVars, rqaVars, rqwVars, rrVars, rpVars>>

Spec == Init /\ [][Next]_vars
-------------------------------------------------------------------------------
(* Properties *)

(* Docker's jobs and objects: no pull outlives its job or its resource, an *)
(* outcome is final and an answer true (jobs.rs); a listed image target    *)
(* removes that image only, usage survives containers that vanish between  *)
(* two calls, and prune accounts for everything its four calls delete.     *)
DockerSafe ==
    /\ [](/\ part = "jobs" => DkTypeOK /\ DkNoOrphanPull /\ DkRegistryBounded
          /\ part = "objects" => DkObjTypeOK)
    /\ [][/\ part = "jobs" => DkOutcomeIsFinal /\ DkAnswersAreTrue
          /\ part = "objects" =>
                DkListedTargetIsItsImage /\ DkUsageSurvivesChurn /\ DkPruneReportsAll]_vars

(* Docker's views of files, daemon and time: a listed row leads to the     *)
(* entry it shows, unless its name ends in blanks, and a delete empties    *)
(* that subtree only; a terminal reaches the daemon of its resource over   *)
(* the same protection; and the date shown for a file is the calendar's,   *)
(* except for one day of each leap year that is not of the years 2000 to   *)
(* 2099 (or 2400 to 2499, and so on).                                      *)
DockerViewsSafe ==
    /\ [](/\ part = "files" => DfTypeOK /\ RowsLeadWhereTheyShow
          /\ part = "target" => TerminalsReachTheDaemon
          /\ part = "dates" => DtDateIsRight)
    /\ [][/\ part = "files" => DeleteIsExact
          /\ part = "target" => TlsIsKept]_vars

(* Elasticsearch: every search that ends is announced exactly once, events *)
(* read, waiting and dropped add up, blobs stay within the budget and with *)
(* their owner, no search is orphaned, an outcome is final, and a request  *)
(* that names an index reaches and changes no other.                       *)
ElasticsearchSafe ==
    /\ [](/\ part = "searches" => /\ EsTypeOK /\ EsEndsAnnouncedOnce /\ EsStreamAccounts
                                  /\ EsBlobsHeld /\ EsNoOrphanSearch
          /\ part = "cluster" => EsScopeNeverWidens)
    /\ [][/\ part = "searches" => EsOutcomeIsFinal
          /\ part = "cluster" => EsWritesStayNamed]_vars

(* MQTT event streams: what a host reads, what waits and what is reported  *)
(* dropped add up to what arrived, a batch fits the frame it is sent in,   *)
(* and streams live exactly as long as their connections.                  *)
MqttEventsSafe ==
    /\ [](part = "events" => MqEventTypeOK /\ MqEventsAccounted /\ MqBatchFits)
    /\ [][part = "events" => MqStreamsFollowConnections]_vars

(* MQTT profile and history: nothing is saved or restored that the user    *)
(* did not subscribe to, "persisted" is only said of what the storage      *)
(* holds; the ring has the newest messages, its pages cover a window, its  *)
(* counts agree with what was recorded.                                    *)
MqttRecordsSafe ==
    /\ part = "profile" => MqpTypeOK /\ MqpNoGhosts /\ MqpPersistenceIsTrue
    /\ part = "history" => MqaTypeOK /\ MqaRingIsNewest /\ MqaPagesCoverWindow /\ MqaCountsAgree

(* RocketMQ administration: a topic whose deletion met no failure stays    *)
(* gone; pages cover the window over all queues, and a call that fails     *)
(* costs its own queue only; what the reads put together from several      *)
(* brokers was there during the call, without a client twice.              *)
RocketmqClusterSafe ==
    /\ part = "admin" => RqaTypeOK /\ RqaDeletedIsGone
    /\ part = "pages" => RqwTypeOK /\ RqwPagesCoverWindow
    /\ part = "reads" => RocketmqReadsSafe

(* The RocketMQ resource: replacing or closing it leaves no channel up,    *)
(* closing it leaves no blob (replacing it leaves the old ones), blobs     *)
(* stay within the budget and are read whole.                              *)
RocketmqResourceSafe ==
    /\ [](part = "resource" => RpTypeOK /\ NoChannelLeaks /\ BlobsEndWithTheResource)
    /\ [][part = "resource" => BlobsAreReadWhole]_vars
-------------------------------------------------------------------------------
(* The instance *)

\* The parts share their model values, which keeps the group small.
ProviderSymmetry == Permutations(MqResources) \cup Permutations(MqStreams)

MCNames == <<"a", "a ">>
MCTrim == [n \in {"", ".", "..", "a", "a "} |-> IF n = "a " THEN "a" ELSE n]
MCPaths == {<<>>, <<"a">>, <<"a", "">>, <<"..">>, <<"a", "..">>, <<"a", "..", "a ">>, <<"a", ".">>,
            <<"a", "", "a">>, <<"a ", "">>}

\* Connection forms: local sockets, and remote hosts with and without TLS.
MCPlaces == {BlankPlace} \cup [base : {"home", "absolute", "relative"}, up : BOOLEAN, name : {"x"}]
MCSockets == MCPlaces \cup [base : {"no unix://"}, up : {FALSE}, name : {"x"}]
MCForms ==
    [mode : {"", "local", "ssh"}, socket : MCSockets, host : {""}, port : {""}, secure : {""},
     certs : {BlankPlace}]
    \cup [mode : {"remote"}, socket : {BlankPlace}, host : {"", "h"}, port : {"", "bad", "4243"},
          secure : {"", "tls"}, certs : MCPlaces]

MC1970 == [day |-> 0, date |-> <<1970, 1, 1>>]

MCKeyOf == [r \in MqpResources |-> IF r = "r3" THEN "l" ELSE "k"]
MCTopics == {<<"a">>, <<"a", "b">>}
MCFilters == {<<"#">>, <<"a", "#">>, <<"+">>, <<"a", "b">>, <<"#", "a">>, <<"+", "#">>, <<"b", "+">>}

MCBrokers == <<"b1", "b2">>
MCServers == <<"n1", "n2">>
MCAddr == ("b1" :> [ip |-> "1", port |-> 1]) @@ ("b2" :> [ip |-> "1", port |-> 2])
MCLog == ("b1" :> <<[topic |-> "t", key |-> "k", time |-> 1], [topic |-> "t", key |-> "k", time |-> 2]>>)
      @@ ("b2" :> <<[topic |-> "t", key |-> "k", time |-> 2]>>)
MCHosts == [ip : {"1"}, port : 1..3] \cup [ip : {"2"}, port : {1}]
MCSecretForms ==
    [type : {"middleware", "x"}, acl : {"", "none", "rocketmq"}, access : {"", "k"}, ref : {"", "r"}]
===============================================================================
