--------------------------- MODULE RocketmqProvider ---------------------------
(***************************************************************************)
(* The requests of the RocketMQ provider, in four parts that share         *)
(* nothing: the resource with its blobs, operations that change the        *)
(* cluster, pages of messages, and the other operations that read it.  The *)
(* connections are RocketmqRemoting.                                       *)
(***************************************************************************)
EXTENDS Integers, Sequences, FiniteSets, SequencesExt, FiniteSetsExt

-------------------------------------------------------------------------------
(***************************************************************************)
(* The RocketMQ provider process: one resource with a fixed id, opened and *)
(* replaced, pinged, invoked and closed, and the blobs that hold the       *)
(* results too large for an answer (server/, config.rs, state.rs).         *)
(* Requests are handled one at a time; a connection is a number that is    *)
(* never used again, so that what belongs to an earlier one shows.         *)
(***************************************************************************)

CONSTANTS RpForms,     \* connection forms: [type, acl, access, ref], see parse_open_params
          RpSecrets,   \* what the host may resolve a reference to: "text", "blank", "bytes", "none"
          RpIds,       \* resource ids the host may name, RpFixed among them
          RpFixed,     \* the id of the only resource
          RpSizes,     \* sizes of results
          RpInline,    \* a result up to this size is answered inline
          RpBudget,    \* bytes all blobs may hold together
          RpReads,     \* how much a read may ask for
          RpBlobs,     \* names of blobs
          RpOpens      \* bound: connections opened

VARIABLES rpOpen,      \* the connection of the resource, 0 when there is none
          rpUsed,      \* connections opened so far
          rpChannels,  \* connections whose channels are still up
          rpBlobs,     \* blob -> [size, offset, conn], or RpNoBlob
          rpAnswer,    \* the last answer
          rpRunning
rpVars == <<rpOpen, rpUsed, rpChannels, rpBlobs, rpAnswer, rpRunning>>

RpNoBlob == [size |-> 0, offset |-> 0, conn |-> 0]
RpStored == {b \in RpBlobs : rpBlobs[b] # RpNoBlob}
total_blob_bytes == FoldSet(LAMBDA b, n : n + rpBlobs[b].size, 0, RpStored)
RpError == [kind |-> "error"]
RpOk == [kind |-> "ok"]

RpInit ==
    /\ rpOpen = 0 /\ rpUsed = 0 /\ rpChannels = {}
    /\ rpBlobs = [b \in RpBlobs |-> RpNoBlob]
    /\ rpAnswer = RpOk
    /\ rpRunning = TRUE

-----------------------------------------------------------------------------
(* resource/open.                                                          *)

\* A form is refused, needs no secret, or needs the one it refers to.  An absent
\* acl_enabled is "none"; an empty one is refused.
parse_open_params(form) ==
    CASE form.type # "middleware" \/ form.acl \notin {"none", "rocketmq"} -> "refused"
      [] form.type = "middleware" /\ form.acl = "none" -> "plain"
      [] OTHER -> IF form.access # "" /\ form.ref # "" THEN "secret" ELSE "refused"

\* The previous connection is replaced and its channels closed; its blobs stay.
insert_resource ==
    /\ rpUsed < RpOpens
    /\ rpUsed' = rpUsed + 1
    /\ rpOpen' = rpUsed'
    /\ rpChannels' = (rpChannels \ {rpOpen}) \cup {rpOpen'}
    /\ rpAnswer' = RpOk
    /\ UNCHANGED <<rpBlobs, rpRunning>>

RpRefuse == rpAnswer' = RpError /\ UNCHANGED <<rpOpen, rpUsed, rpChannels, rpBlobs, rpRunning>>

open(form, secret) ==
    LET needs == parse_open_params(form)
    IN  /\ rpRunning
        /\ needs = "plain" \/ (needs = "secret" /\ secret = "text")
        /\ insert_resource

\* The form, the secret or the name server's answer is not good.
open_fails(form, secret) == rpRunning /\ RpRefuse

-----------------------------------------------------------------------------
(* resource/ping, invoke, close.                                           *)

RpKnown(id) == id = RpFixed /\ rpOpen # 0

ping(id) ==
    /\ rpRunning
    /\ rpAnswer' = IF RpKnown(id) THEN RpOk ELSE RpError
    /\ UNCHANGED <<rpOpen, rpUsed, rpChannels, rpBlobs, rpRunning>>

\* A result small enough is inline; a larger one needs room among the blobs.
store_blob_ownSize(size) == size <= RpBudget

store_blob(size) == size <= RpBudget /\ total_blob_bytes + size <= RpBudget

invoke(id, size, b) ==
    /\ rpRunning /\ RpKnown(id)
    /\ CASE size <= RpInline -> rpAnswer' = [kind |-> "inline", size |-> size] /\ UNCHANGED rpBlobs
         [] size > RpInline /\ store_blob(size) ->
              /\ b \notin RpStored
              /\ rpBlobs' = [rpBlobs EXCEPT ![b] = [size |-> size, offset |-> 0, conn |-> rpOpen]]
              /\ rpAnswer' = [kind |-> "blob", blob |-> b]
         [] OTHER -> rpAnswer' = RpError /\ UNCHANGED rpBlobs
    /\ UNCHANGED <<rpOpen, rpUsed, rpChannels, rpRunning>>

\* Nothing is open under that id, or the cluster does not answer.
invoke_fails(id) == rpRunning /\ RpRefuse

close(id) ==
    /\ rpRunning /\ RpKnown(id)
    /\ rpOpen' = 0
    /\ rpChannels' = rpChannels \ {rpOpen}
    /\ rpBlobs' = [b \in RpBlobs |-> RpNoBlob]
    /\ rpAnswer' = RpOk
    /\ UNCHANGED <<rpUsed, rpRunning>>

close_unknown(id) == rpRunning /\ ~RpKnown(id) /\ RpRefuse

-----------------------------------------------------------------------------
(* blob/read, blob/close, and the end.                                     *)

\* The last part says so; a read after it brings nothing and never does.
read_blob(b, n) ==
    /\ rpRunning /\ b \in RpStored
    /\ LET start == rpBlobs[b].offset
           end == Min({start + n, rpBlobs[b].size})
       IN  /\ rpBlobs' = [rpBlobs EXCEPT ![b].offset = end]
           /\ rpAnswer' = [kind |-> "read", blob |-> b, from |-> start, to |-> end,
                           done |-> end = rpBlobs[b].size /\ end > start]
    /\ UNCHANGED <<rpOpen, rpUsed, rpChannels, rpRunning>>

read_unknown(b) == rpRunning /\ b \notin RpStored /\ RpRefuse

close_blob(b) ==
    /\ rpRunning
    /\ rpBlobs' = [rpBlobs EXCEPT ![b] = RpNoBlob]
    /\ rpAnswer' = RpOk
    /\ UNCHANGED <<rpOpen, rpUsed, rpChannels, rpRunning>>

\* Shutdown is answered; a host that is gone is not.  Either way all is closed.
clear ==
    /\ rpRunning
    /\ rpRunning' = FALSE
    /\ rpOpen' = 0
    /\ rpChannels' = rpChannels \ {rpOpen}
    /\ rpBlobs' = [b \in RpBlobs |-> RpNoBlob]
    /\ rpAnswer' = RpOk
    /\ UNCHANGED rpUsed

\* Methods the provider has not: blob/open, job/*, event/*, anything unknown.
unsupported == rpRunning /\ RpRefuse

RpNext ==
    \/ \E form \in RpForms, secret \in RpSecrets : open(form, secret) \/ open_fails(form, secret)
    \/ \E id \in RpIds :
          \/ ping(id) \/ invoke_fails(id) \/ close(id) \/ close_unknown(id)
          \/ \E size \in RpSizes, b \in RpBlobs : invoke(id, size, b)
    \/ \E b \in RpBlobs : read_unknown(b) \/ close_blob(b) \/ \E n \in RpReads : read_blob(b, n)
    \/ clear \/ unsupported

RpSpec == RpInit /\ [][RpNext]_rpVars

-----------------------------------------------------------------------------
(* Properties.                                                             *)

RpTypeOK ==
    /\ rpOpen \in 0..RpOpens /\ rpUsed \in 0..RpOpens
    /\ rpBlobs \in [RpBlobs -> [size : {0} \cup RpSizes, offset : 0..RpBudget, conn : 0..RpOpens]]

\* However often the resource is opened, replaced and closed, the only
\* channels that are up are those of the connection in use.
NoChannelLeaks == rpChannels = IF rpOpen = 0 THEN {} ELSE {rpOpen}

\* Blobs stay within their budget, those of replaced connections included, which
\* insert_resource leaves; closing the resource leaves none, of no connection.
BlobsEndWithTheResource ==
    /\ total_blob_bytes <= RpBudget
    /\ rpOpen = 0 => RpStored = {}

\* A blob is read without a gap and without an overlap, and the read that
\* reaches its end, and only that one, is the last.
BlobsAreReadWhole ==
    \A b \in RpBlobs : rpAnswer'.kind = "read" /\ rpAnswer'.blob = b /\ b \in RpStored =>
       /\ rpAnswer'.from = rpBlobs[b].offset
       /\ rpAnswer'.done => rpAnswer'.to = rpBlobs[b].size
       /\ rpBlobs[b].offset = rpBlobs[b].size => ~rpAnswer'.done
-------------------------------------------------------------------------------
(***************************************************************************)
(* The RocketMQ provider's management operations (rocketmq/src/admin.rs)   *)
(* over a cluster of brokers and name servers.  One request is handled at  *)
(* a time, but each is a series of calls of which any may fail, applied or *)
(* not, and between two of which the brokers go on registering.            *)
(***************************************************************************)

CONSTANTS RqaBrokers,   \* masters, as a sequence in the order of the route
          RqaServers,   \* name servers, in the configured order
          RqaTopics,    \* topics
          RqaResets     \* bound: offset resets

VARIABLES rqaTopics,   \* broker -> its topics
          rqaRoutes,   \* name server -> the <<broker, topic>> it has a route for
          rqaOffsets,  \* broker -> number of the last reset applied
          rqaCall,     \* the request that is being handled
          rqaLast,     \* the last one that was answered
          rqaResets    \* offset resets so far

rqaVars == <<rqaTopics, rqaRoutes, rqaOffsets, rqaCall, rqaLast, rqaResets>>

RqaMasters == Range(RqaBrokers)
RqaIdle == [op |-> "none"]

RqaTypeOK ==
  /\ rqaTopics \in [RqaMasters -> SUBSET RqaTopics]
  /\ rqaRoutes \in [Range(RqaServers) -> SUBSET (RqaMasters \X RqaTopics)]
  /\ rqaOffsets \in [RqaMasters -> 0 .. RqaResets] /\ rqaResets \in 0 .. RqaResets

RqaInit ==
  /\ rqaTopics = [b \in RqaMasters |-> {}] /\ rqaRoutes = [s \in Range(RqaServers) |-> {}]
  /\ rqaOffsets = [b \in RqaMasters |-> 0] /\ rqaResets = 0
  /\ rqaCall = RqaIdle /\ rqaLast = RqaIdle

-----------------------------------------------------------------------------
(* The requests.                                                           *)

\* A request has its calls still to be made, in order, and those that failed.
RqaBegin(op, t, left) ==
  /\ rqaCall = RqaIdle
  /\ rqaCall' = [op |-> op, topic |-> t, left |-> left, failed |-> {},
                 brokers |-> Range(left) \cap RqaMasters]
  /\ UNCHANGED <<rqaTopics, rqaRoutes, rqaOffsets, rqaLast>>

\* topic/create and topic/update: every master, in any order.
update_topic(t, order) == RqaBegin("update", t, order) /\ UNCHANGED rqaResets

\* With the name servers before the brokers.
delete_topic_serversFirst(t, order) ==
  RqaBegin("delete", t, RqaServers \o order) /\ UNCHANGED rqaResets

\* topic/delete: the masters, then every name server, whatever the masters said.
delete_topic(t, order) == RqaBegin("delete", t, order \o RqaServers) /\ UNCHANGED rqaResets

\* rocketmq/consumer/reset-offset: the brokers of the topic's route, as the name
\* server that is asked has it.
reset_consumer_offset(t, s) ==
  LET route == SelectSeq(RqaBrokers, LAMBDA b : <<b, t>> \in rqaRoutes[s])
  IN /\ route # <<>> /\ rqaResets < RqaResets
     /\ rqaResets' = rqaResets + 1
     /\ RqaBegin("reset", t, route)

\* What a call does where it arrives (external: brokers and name servers).
RqaApplied(at) ==
  LET t == rqaCall.topic
  IN /\ rqaTopics' = IF at \notin RqaMasters THEN rqaTopics
                     ELSE [rqaTopics EXCEPT ![at] = CASE rqaCall.op = "update" -> @ \cup {t}
                                                      [] rqaCall.op = "delete" -> @ \ {t}
                                                      [] OTHER -> @]
     /\ rqaRoutes' = IF at \in RqaMasters THEN rqaRoutes
                     ELSE [rqaRoutes EXCEPT ![at] = {r \in @ : r[2] # t}]
     /\ rqaOffsets' = IF rqaCall.op = "reset" THEN [rqaOffsets EXCEPT ![at] = rqaResets] ELSE rqaOffsets

\* One call: it succeeds, fails without effect, or is applied and its answer lost.
RqaCalls(outcome) ==
  /\ rqaCall # RqaIdle /\ rqaCall.left # <<>>
  /\ LET at == Head(rqaCall.left)
     IN /\ rqaCall' = [rqaCall EXCEPT !.left = Tail(@),
                         !.failed = IF outcome = "ok" THEN @ ELSE @ \cup {at}]
        /\ IF outcome = "fails" THEN UNCHANGED <<rqaTopics, rqaRoutes, rqaOffsets>> ELSE RqaApplied(at)
  /\ UNCHANGED <<rqaLast, rqaResets>>

\* The answer is an error only if every broker failed.
RqaAnswers ==
  /\ rqaCall # RqaIdle /\ rqaCall.left = <<>>
  /\ rqaLast' = [op |-> rqaCall.op, topic |-> rqaCall.topic, failed |-> rqaCall.failed,
                 ok |-> ~(rqaCall.brokers \subseteq rqaCall.failed)]
  /\ rqaCall' = RqaIdle
  /\ UNCHANGED <<rqaTopics, rqaRoutes, rqaOffsets, rqaResets>>

\* A broker registers its topics with a name server, at any time.
RqaRegisters(b, s) ==
  /\ rqaRoutes' = [rqaRoutes EXCEPT ![s] = @ \cup ({b} \X rqaTopics[b])]
  /\ UNCHANGED <<rqaTopics, rqaOffsets, rqaCall, rqaLast, rqaResets>>

RqaNext ==
  \/ \E t \in RqaTopics :
       \/ \E order \in SetToSeqs(RqaMasters) : update_topic(t, order) \/ delete_topic(t, order)
       \/ \E s \in Range(RqaServers) : reset_consumer_offset(t, s)
  \/ \E outcome \in {"ok", "fails", "lost"} : RqaCalls(outcome)
  \/ RqaAnswers
  \/ \E b \in RqaMasters, s \in Range(RqaServers) : RqaRegisters(b, s)

RqaSpec == RqaInit /\ [][RqaNext]_rqaVars

\* A deletion all of whose calls succeeded leaves no trace, and none comes back:
\* until the topic is created again it is on no broker and on no name server, although
\* brokers register their topics between the calls and afterwards.
RqaDeletedIsGone ==
  rqaLast # RqaIdle /\ rqaLast.op = "delete" /\ rqaLast.failed = {} =>
       LET again == rqaCall # RqaIdle /\ rqaCall.op = "update" /\ rqaCall.topic = rqaLast.topic
       IN again \/ /\ \A b \in RqaMasters : rqaLast.topic \notin rqaTopics[b]
                   /\ \A s \in Range(RqaServers) : \A r \in rqaRoutes[s] : r[2] # rqaLast.topic
-------------------------------------------------------------------------------
(***************************************************************************)
(* query_by_time_window (rocketmq/src/admin.rs): pages of the messages of  *)
(* a topic, put together from the consume queues of all brokers.  A queue  *)
(* holds the store times of its messages, and an entry's place in it is    *)
(* its identity.  Any call of a query may fail: `bad' is the set of those  *)
(* that do.  The broker's max_queue_index is taken as the code takes it,   *)
(* the index of the last entry.                                            *)
(***************************************************************************)

CONSTANTS RqwQueues,    \* queues, in the order in which they are scanned
          RqwTime,      \* bound: store times
          RqwLength,    \* bound: messages in a queue
          RqwFaults     \* bound: calls of a query that fail

VARIABLES rqwStored,   \* queue -> store times
          rqwClock     \* the brokers' clock

rqwVars == <<rqwStored, rqwClock>>

RqwInit == rqwStored = [q \in Range(RqwQueues) |-> <<>>] /\ rqwClock = 1

RqwStores(q, tick) ==
  /\ Len(rqwStored[q]) < RqwLength /\ rqwClock + tick <= RqwTime
  /\ rqwStored' = [rqwStored EXCEPT ![q] = Append(@, rqwClock + tick)]
  /\ rqwClock' = rqwClock + tick

RqwNext == \E q \in Range(RqwQueues), tick \in {0, 1} : RqwStores(q, tick)

RqwSpec == RqwInit /\ [][RqwNext]_rqwVars

RqwTypeOK == rqwStored \in [Range(RqwQueues) -> Seq(1 .. RqwTime)] /\ rqwClock \in 1 .. RqwTime

\* The calls of a query: where does the window begin, where does the queue end, a
\* batch in each round, and the messages one by one.
RqwRounds == Len(RqwQueues) * RqwLength + 1
RqwEntries == Range(RqwQueues) \X (1 .. RqwLength)
RqwCalls ==
  ({"search", "max"} \X Range(RqwQueues))
    \cup ({"fetch"} \X (Range(RqwQueues) \X (1 .. RqwLength)))
    \cup ({"view"} \X RqwEntries)

\* The first message stored at begin or later; the very first when the search fails.
RqwFrom(q, begin, bad) ==
  LET later == {i \in DOMAIN rqwStored[q] : rqwStored[q][i] >= begin}
  IN CASE <<"search", q>> \in bad -> 1
       [] later = {} /\ <<"search", q>> \notin bad -> Len(rqwStored[q]) + 1
       [] OTHER -> Min(later)

\* The last index; the one before the first, which leaves the queue out, on failure.
RqwMax(q, begin, bad) ==
  IF <<"max", q>> \in bad THEN RqwFrom(q, begin, bad) - 1 ELSE Len(rqwStored[q])

\* One queue's turn in round n: up to a page's worth of entries, unless the page is
\* full, the queue is at its end or the call fails; then the next queue is tried.
RqwTurn(acc, q, n, begin, size, need, bad) ==
  LET current == acc.cursor[q]
      max == RqwMax(q, begin, bad)
      last == Min({Len(rqwStored[q]), current + size - 1})
      found == [i \in 1 .. Max({0, last - current + 1}) |-> <<q, current + i - 1>>]
  IN IF Len(acc.entries) >= need \/ current > max \/ <<"fetch", <<q, n>>>> \in bad THEN acc
     ELSE [entries |-> acc.entries \o found,
           cursor |-> [acc.cursor EXCEPT ![q] = IF found = <<>> THEN max + 1 ELSE last + 1],
           more |-> acc.more \/ Len(rqwStored[q]) > last,
           progressed |-> acc.progressed \/ found # <<>>]

\* Rounds over the queues until the page and all before it are full, or a round
\* brings nothing.
RqwScanned(begin, size, need, bad) ==
  LET round[n \in 0 .. RqwRounds] ==
        IF n = 0
        THEN [entries |-> <<>>, more |-> FALSE, progressed |-> TRUE,
              cursor |-> [q \in Range(RqwQueues) |-> RqwFrom(q, begin, bad)]]
        ELSE LET before == round[n - 1]
             IN IF ~before.progressed \/ Len(before.entries) >= need THEN before
                ELSE FoldLeft(LAMBDA a, q : RqwTurn(a, q, n, begin, size, need, bad),
                              [before EXCEPT !.progressed = FALSE], RqwQueues)
  IN round[RqwRounds]

\* A page: what is later than the window, or cannot be viewed, is left out.
query_by_time_window(begin, end, page, size, bad) ==
  LET skip == (page - 1) * size
      scan == RqwScanned(begin, size, skip + size, bad)
      selected == SubSeq(scan.entries, skip + 1, Min({skip + size, Len(scan.entries)}))
  IN [messages |-> SelectSeq(selected, LAMBDA e : rqwStored[e[1]][e[2]] <= end
                                                    /\ <<"view", e>> \notin bad),
      has_more |-> scan.more \/ selected # <<>>]

\* The calls that may fail together, at most RqwFaults of them.
RqwBad == UNION {kSubset(k, RqwCalls) : k \in 0 .. RqwFaults}

\* A queue all of whose own calls succeed.
RqwSound(q, bad) ==
  /\ {<<"search", q>>, <<"max", q>>} \cap bad = {}
  /\ \A n \in 1 .. RqwLength : <<"fetch", <<q, n>>>> \notin bad

\* The pages of a window, read while has_more holds and with the same calls failing
\* each time.  No message comes twice and none is later than the window; one earlier
\* than the window only comes from a queue in which the search failed; and one in the
\* window is only missing if a call for its queue, or for itself, failed: where a queue
\* fails, the others lose nothing.
RqwPagesCoverWindow ==
  \A begin \in 1 .. RqwTime, end \in 1 .. RqwTime, size \in 1 .. 2, bad \in RqwBad :
    LET pages == [p \in 1 .. Len(RqwQueues) * RqwLength + 1 |->
                    query_by_time_window(begin, end, p, size, bad)]
        upto == Min({p \in DOMAIN pages : ~pages[p].has_more} \cup {Len(pages)})
        got == FlattenSeq([p \in 1 .. upto |-> pages[p].messages])
        at(e) == rqwStored[e[1]][e[2]]
    IN /\ IsInjective(got)
       /\ \A e \in Range(got) : at(e) <= end /\ (at(e) >= begin \/ <<"search", e[1]>> \in bad)
       /\ \A e \in RqwEntries :
            e[2] <= Len(rqwStored[e[1]]) =>
              (at(e) \in begin .. end /\ RqwSound(e[1], bad) /\ <<"view", e>> \notin bad
                 => e \in Range(got))
-------------------------------------------------------------------------------
(***************************************************************************)
(* What the RocketMQ console shows of a cluster (rocketmq/src/admin.rs).   *)
(* Every answer is put together from requests to the name server and to    *)
(* one broker after the other.  Meanwhile brokers come and go, clients     *)
(* connect, topics and groups appear: a call sees none of them at one      *)
(* instant.                                                                *)
(*                                                                         *)
(* A call is a list of requests still to be sent, [what, at, about], and   *)
(* what it has got so far.  `ever` and `always` are history: what some     *)
(* reachable broker had at some moment, and at every moment, of the call.  *)
(***************************************************************************)

CONSTANTS RrBrokers,   \* masters, in the order of a topic's route
          RrGroups, RrClients, RrTopics,
          RrEnrich,    \* at most so many groups are looked at one by one
          RrAddr,      \* broker -> its address [ip, port] in the route
          RrLog,       \* broker -> its messages [topic, key, time], by offset
          RrHosts,     \* addresses that occur in message ids
          RrIndexEnd,  \* the latest store time an index query asks for: i32::MAX, which
                       \* in milliseconds is in January 1970
          RrChanges    \* bound: changes of the cluster

VARIABLES rrUp, rrKnown,              \* brokers that answer (neither down nor refusing);
                                      \* that the name server lists
          rrGroups, rrOnline, rrTopics,  \* sets of <<broker, group>>, <<broker, group, client>>,
                                         \* <<broker, topic>>
          rrCall, rrResult, rrChanges
rrCluster == <<rrUp, rrKnown, rrGroups, rrOnline, rrTopics, rrChanges>>
rrVars == <<rrCluster, rrCall, rrResult>>

RrMasters == Range(RrBrokers)
RrNoCall == [op |-> "none"]
RrUnasked == -1
RrFacts(up) ==
    [groups  |-> {f \in rrGroups : f[1] \in up},
     clients |-> {f \in rrOnline : f[1] \in up},
     topics  |-> {f \in rrTopics : f[1] \in up},
     brokers |-> up]

RrInit ==
    /\ rrUp \in SUBSET RrMasters /\ rrKnown \in SUBSET RrMasters \ {{}}
    /\ rrGroups = RrMasters \X RrGroups
    /\ rrOnline = {} /\ rrTopics = {<<RrBrokers[1], t>> : t \in RrTopics}
    /\ rrCall = RrNoCall /\ rrResult = RrNoCall /\ rrChanges = 0

-----------------------------------------------------------------------------
(* Requests.                                                               *)

Ask(what, at, about) == [what |-> what, at |-> at, about |-> about]
AskAll(what, order, about) == [i \in DOMAIN order |-> Ask(what, order[i], about)]

\* The masters of the cluster come out of a hash table, in any order.
master_addrs == SetToSeqs(rrKnown)

\* The brokers of a topic's route, in the route's order.
topic_route(t) == SelectSeq(RrBrokers, LAMBDA b : b \in rrKnown /\ <<b, t>> \in rrTopics)

RrNothing(about) ==
    [names |-> {}, configs |-> {}, live |-> {}, clients |-> <<>>, queues |-> {},
     count |-> [g \in RrGroups |-> RrUnasked], lag |-> [g \in RrGroups |-> RrUnasked],
     found |-> {}, topics |-> {t \in RrTopics : \E b \in rrKnown : <<b, t>> \in rrTopics},
     about |-> about]

RrBegin(op, about, left, first) ==
    /\ rrCall = RrNoCall
    /\ rrCall' = [op |-> op, left |-> left, first |-> first, expanded |-> FALSE,
                  got |-> RrNothing(about), masters |-> rrKnown,
                  ever |-> RrFacts(rrUp), always |-> RrFacts(rrUp \cap rrKnown)]
    /\ rrResult' = RrNoCall
    /\ UNCHANGED rrCluster

list_groups(order) == RrBegin("groups", "", AskAll("names", order, ""), order[1])

metrics_snapshot(order) ==
    RrBegin("metrics", "", AskAll("runtime", order, "") \o AskAll("names", order, ""), order[1])

group_clients(order, g) == RrBegin("clients", g, AskAll("clients", order, g), order[1])

group_detail(order, g) == RrBegin("queues", g, AskAll("stats", order, g), order[1])

list_topics(order) == RrBegin("topics", "", AskAll("config", order, ""), order[1])

\* The cluster is read twice: for the configurations, and before it.
cluster_overview(order, again) ==
    RrBegin("overview", "", AskAll("config", again, "") \o AskAll("runtime", order, ""), order[1])

topic_detail(t) ==
    /\ topic_route(t) # <<>>
    /\ RrBegin("topic", t, AskAll("topic", topic_route(t), t), topic_route(t)[1])

-----------------------------------------------------------------------------
(* Messages.                                                               *)

route_master_addr(route) == route[1]

\* The broker with the very address, else one with the same ip, else the first.
resolve_broker_addr(route, host) ==
    LET exact == SelectSeq(route, LAMBDA b : RrAddr[b] = host)
        near == SelectSeq(route, LAMBDA b : RrAddr[b].ip = host.ip)
    IN  CASE exact # <<>> -> exact[1]
          [] exact = <<>> /\ near # <<>> -> near[1]
          [] OTHER -> route_master_addr(route)

query_by_key(t, key) ==
    /\ topic_route(t) # <<>>
    /\ LET b == route_master_addr(topic_route(t))
       IN  RrBegin("key", key, <<Ask("index", b, [topic |-> t, key |-> key])>>, b)

query_by_id(t, host, offset) ==
    /\ topic_route(t) # <<>>
    /\ LET b == resolve_broker_addr(topic_route(t), host)
       IN  RrBegin("id", host, <<Ask("view", b, [host |-> host, offset |-> offset])>>, b)

\* An index query covers the store times up to RrIndexEnd; a view takes the
\* message at the offset, whatever the topic (external: the broker).
Found(r) ==
    IF r.what = "index"
    THEN {<<r.at, i>> : i \in {j \in DOMAIN RrLog[r.at] :
              /\ RrLog[r.at][j].topic = r.about.topic /\ RrLog[r.at][j].key = r.about.key
              /\ RrLog[r.at][j].time <= RrIndexEnd}}
    ELSE {<<r.at, r.about.offset>>}

-----------------------------------------------------------------------------
(* Answers.                                                                *)

RrGets(got, rest) ==
    /\ rrCall' = [rrCall EXCEPT !.got = got, !.left = rest]
    /\ UNCHANGED <<rrCluster, rrResult>>

RrHead(what) == rrCall # RrNoCall /\ rrCall.left # <<>> /\ Head(rrCall.left).what = what
RrAt == Head(rrCall.left).at
RrAbout == Head(rrCall.left).about
RrOnline(b, g) == {f[3] : f \in {x \in rrOnline : x[1] = b /\ x[2] = g}}

\* With the last broker's groups alone.
list_group_names_last ==
    /\ RrHead("names") /\ RrAt \in rrUp
    /\ RrGets([rrCall.got EXCEPT !.names = {f[2] : f \in {x \in rrGroups : x[1] = RrAt}}],
              Tail(rrCall.left))

list_group_names ==
    /\ RrHead("names") /\ RrAt \in rrUp
    /\ RrGets([rrCall.got EXCEPT !.names = @ \cup {f[2] : f \in {x \in rrGroups : x[1] = RrAt}}],
              Tail(rrCall.left))

runtime_infos ==
    /\ RrHead("runtime") /\ RrAt \in rrUp
    /\ RrGets([rrCall.got EXCEPT !.live = @ \cup {RrAt}], Tail(rrCall.left))

\* The first broker that answers is enough.
all_topic_configs ==
    /\ RrHead("config") /\ RrAt \in rrUp
    /\ RrGets([rrCall.got EXCEPT !.configs = {f \in rrTopics : f[1] = RrAt}],
              SelectSeq(Tail(rrCall.left), LAMBDA r : r.what # "config"))

\* A client that is connected to several brokers is one client.
Merge(known, found) ==
    known \o SetToSeq({c \in found : ~Contains(known, c)})

merge_clients ==
    /\ RrHead("clients") /\ RrAt \in rrUp
    /\ RrGets([rrCall.got EXCEPT !.clients = Merge(@, RrOnline(RrAt, RrAbout))], Tail(rrCall.left))

consume_stats ==
    /\ RrHead("stats") /\ RrAt \in rrUp
    /\ RrGets([rrCall.got EXCEPT !.queues = @ \cup {f \in rrGroups : f = <<RrAt, RrAbout>>}],
              Tail(rrCall.left))

topic_stats ==
    /\ RrHead("topic") /\ RrAt \in rrUp
    /\ RrGets([rrCall.got EXCEPT !.queues = @ \cup {f \in rrTopics : f = <<RrAt, RrAbout>>}],
              Tail(rrCall.left))

consumer_connection ==
    /\ RrHead("connection") /\ RrAt \in rrUp
    /\ RrGets([rrCall.got EXCEPT !.count[RrAbout] = Cardinality(RrOnline(RrAt, RrAbout))],
              Tail(rrCall.left))

total_diff ==
    /\ RrHead("lag") /\ RrAt \in rrUp
    /\ RrGets([rrCall.got EXCEPT !.lag[RrAbout] = IF <<RrAt, RrAbout>> \in rrGroups THEN 1 ELSE 0],
              Tail(rrCall.left))

message_ext_to_model ==
    /\ RrHead("index") /\ RrAt \in rrUp
    /\ RrGets([rrCall.got EXCEPT !.found = Found(Head(rrCall.left))], <<>>)

view_message_by_offset ==
    /\ RrHead("view") /\ RrAt \in rrUp
    /\ RrAbout.offset \in DOMAIN RrLog[RrAt]
    /\ RrGets([rrCall.got EXCEPT !.found = Found(Head(rrCall.left))], <<>>)

\* A broker that fails is left out.
RrSkips(what) ==
    /\ what \notin {"index", "view"}
    /\ RrHead(what) /\ RrAt \notin rrUp
    /\ RrGets(rrCall.got, Tail(rrCall.left))

\* Where the call gives up: a message query that fails, an offset nobody
\* stored, clients asked of a broker that answers too late.
RrFails ==
    /\ \/ /\ RrHead("index") \/ RrHead("view") \/ RrHead("clients")
          /\ RrAt \notin rrUp
       \/ RrHead("view") /\ RrAbout.offset \notin DOMAIN RrLog[RrAt]
    /\ rrCall' = RrNoCall /\ rrResult' = RrNoCall
    /\ UNCHANGED rrCluster

\* The groups are known: a few of them are looked at, on the first master.
enrich ==
    /\ rrCall.op \in {"groups", "metrics"} /\ rrCall.left = <<>> /\ ~rrCall.expanded
    /\ LET names == SetToSeq(rrCall.got.names)
           ask(what) == [i \in DOMAIN names |-> Ask(what, rrCall.first, names[i])]
       IN  rrCall' = [rrCall EXCEPT !.expanded = TRUE,
                        !.left = CASE Len(names) > RrEnrich -> <<>>
                                   [] rrCall.op = "groups" -> ask("connection") \o ask("lag")
                                   [] OTHER -> ask("connection")]
    /\ UNCHANGED <<rrCluster, rrResult>>

RrReturns ==
    /\ rrCall # RrNoCall /\ rrCall.left = <<>>
    /\ rrCall.op \in {"groups", "metrics"} => rrCall.expanded
    /\ rrResult' = rrCall
    /\ rrCall' = RrNoCall
    /\ UNCHANGED rrCluster

-----------------------------------------------------------------------------
(* The cluster (external).                                                 *)

RrToggle(set, x) == IF x \in set THEN set \ {x} ELSE set \cup {x}

RrWatched(new) ==
    IF rrCall = RrNoCall THEN RrNoCall
    ELSE [rrCall EXCEPT
            !.ever = [k \in DOMAIN @ |-> @[k] \cup new[k]],
            !.always = [k \in DOMAIN @ |-> @[k] \cap new[k]]]

RrClusterChanges ==
    /\ rrChanges < RrChanges /\ rrChanges' = rrChanges + 1
    /\ \/ /\ \E b \in RrMasters :
                \/ rrUp' = RrToggle(rrUp, b)
                   /\ rrKnown' = IF b \in rrUp THEN rrKnown ELSE rrKnown \cup {b}
                \/ b \notin rrUp /\ rrKnown # {b} /\ rrKnown' = rrKnown \ {b} /\ UNCHANGED rrUp
          /\ UNCHANGED <<rrGroups, rrOnline, rrTopics>>
       \/ /\ \/ \E f \in RrMasters \X RrGroups :
                   rrGroups' = RrToggle(rrGroups, f) /\ UNCHANGED <<rrOnline, rrTopics>>
             \/ \E f \in RrMasters \X RrGroups \X RrClients :
                   rrOnline' = RrToggle(rrOnline, f) /\ UNCHANGED <<rrGroups, rrTopics>>
             \/ \E f \in RrMasters \X RrTopics :
                   rrTopics' = RrToggle(rrTopics, f) /\ UNCHANGED <<rrGroups, rrOnline>>
          /\ UNCHANGED <<rrUp, rrKnown>>
    /\ rrCall' = RrWatched(RrFacts(rrUp)')
    /\ UNCHANGED rrResult

RrNext ==
    \/ \E order \in master_addrs :
          \/ list_groups(order) \/ metrics_snapshot(order) \/ list_topics(order)
          \/ \E g \in RrGroups : group_clients(order, g) \/ group_detail(order, g)
          \/ \E again \in master_addrs : cluster_overview(order, again)
    \/ \E t \in RrTopics :
          \/ topic_detail(t)
          \/ \E key \in {"k", "l"} : query_by_key(t, key)
          \/ \E host \in RrHosts, offset \in 1..2 : query_by_id(t, host, offset)
    \/ list_group_names \/ runtime_infos \/ all_topic_configs \/ merge_clients \/ consume_stats
    \/ topic_stats \/ consumer_connection \/ total_diff
    \/ message_ext_to_model \/ view_message_by_offset
    \/ \E what \in {"names", "runtime", "config", "clients", "stats", "topic", "connection", "lag"} :
          RrSkips(what)
    \/ RrFails \/ enrich \/ RrReturns
    \/ RrClusterChanges

RrSpec == RrInit /\ [][RrNext]_rrVars

-----------------------------------------------------------------------------
(* Properties.                                                             *)

RrTypeOK ==
    /\ rrUp \subseteq RrMasters /\ rrKnown \in SUBSET RrMasters \ {{}}
    /\ rrCall # RrNoCall => rrCall.got.names \subseteq RrGroups

RrBetween(low, seen, high) == low \subseteq seen /\ seen \subseteq high
RrDone(op) == rrResult.op = op

\* What is shown was there at some moment of the call, and what a master that
\* answered all along had all along is shown: groups, clients, queues, live
\* brokers.
ReadsAreRegular ==
    LET r == rrResult
        seconds(facts) == {f[2] : f \in facts}
        mine(facts) == {f \in facts : f[2] = r.got.about}
        ofMasters(facts) == {f \in facts : f[1] \in r.masters}
    IN  /\ RrDone("groups") =>
              RrBetween(seconds(ofMasters(r.always.groups)), r.got.names, seconds(r.ever.groups))
        /\ RrDone("metrics") =>
              RrBetween(r.always.brokers \cap r.masters, r.got.live, r.ever.brokers)
        /\ RrDone("clients") =>
              RrBetween({f[3] : f \in mine(ofMasters(r.always.clients))}, Range(r.got.clients),
                        {f[3] : f \in mine(r.ever.clients)})
        /\ RrDone("queues") =>
              RrBetween(mine(ofMasters(r.always.groups)), r.got.queues, mine(r.ever.groups))
        /\ RrDone("topic") =>
              RrBetween(mine(ofMasters(r.always.topics)), r.got.queues, mine(r.ever.topics))

\* A client connected to several brokers is counted once among a group's.
NoClientTwice == RrDone("clients") => IsInjective(rrResult.got.clients)

\* A message shown for an id is the one stored under it, as long as the id's broker
\* is still in the route.
QueriesAreTrue ==
    RrDone("id") =>
       \A m \in rrResult.got.found :
          rrResult.got.about \in {RrAddr[b] : b \in {f[1] : f \in rrResult.always.topics}} =>
             RrAddr[m[1]] = rrResult.got.about

RocketmqReadsSafe == RrTypeOK /\ ReadsAreRegular /\ NoClientTwice /\ QueriesAreTrue
===============================================================================
