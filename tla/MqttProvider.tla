----------------------------- MODULE MqttProvider -----------------------------
(***************************************************************************)
(* The requests of the MQTT provider, in three parts that share nothing:   *)
(* event streams, saved subscriptions, and the ring of recent messages.    *)
(* The connection to the broker is MqttSession.                            *)
(***************************************************************************)
EXTENDS Integers, Sequences, FiniteSets, Functions, SequencesExt, FiniteSetsExt

-------------------------------------------------------------------------------
(***************************************************************************)
(* The MQTT provider's event streams (mqtt/src/state/event.rs, pubsub.rs)  *)
(* and its resource table.  Messages of a connection are broadcast to      *)
(* every stream opened on it: mqLog[r] is what the connection r has         *)
(* broadcast, and a stream is a cursor into it, so a cursor further behind *)
(* than the channel's capacity has lost the messages in between.  A message *)
(* is its size; its place in the log is its identity.  The serve loop      *)
(* handles one request at a time, but messages arrive while a read waits:  *)
(* mqReading is the stream whose read is waiting, if any.                  *)
(***************************************************************************)

CONSTANTS MqResources,   \* connections the host may open
          MqStreams,     \* stream ids (each used once)
          MqSizes,       \* serialized sizes of events
          MqChannel,     \* capacity of the broadcast channel
          MqBatch,       \* MQTT_EVENT_BATCH_MAX_BYTES
          MqPending,     \* MQTT_EVENT_PENDING_MAX_BYTES
          MqMaxStreams,  \* MAX_EVENT_STREAMS
          MqMaxEvents,   \* values of max_events in event/read
          MqMessages     \* bound: messages of one connection

VARIABLES mqResources, mqLog, mqStreams, mqUsed, mqReading, mqBatch

mqEventVars == <<mqResources, mqLog, mqStreams, mqUsed, mqReading, mqBatch>>

MqNone == "none"

(* A stream remembers the log's length when it was opened (start) and, for *)
(* the properties, the messages its reads have returned.                   *)
MqStreamType == [resource : MqResources, start : Nat, cursor : Nat, dropped : Nat,
                 pending : Seq(Nat), read : Seq(Nat)]

(* The provider's tables, and the sizes of the last batch a read returned. *)
MqEventTypeOK ==
  /\ mqResources \subseteq MqResources
  /\ mqLog \in [MqResources -> Seq(MqSizes)]
  /\ DOMAIN mqStreams \subseteq mqUsed
  /\ mqUsed \subseteq MqStreams
  /\ \A s \in DOMAIN mqStreams : mqStreams[s] \in MqStreamType
  /\ mqReading \in DOMAIN mqStreams \cup {MqNone}
  /\ mqBatch \in Seq(MqSizes)

MqEventInit ==
  /\ mqResources = {} /\ mqStreams = <<>> /\ mqUsed = {}
  /\ mqLog = [r \in MqResources |-> <<>>]
  /\ mqReading = MqNone /\ mqBatch = <<>>

MqSizeOf(st, i) == mqLog[st.resource][i]
MqBytes(st, ids) == FoldLeft(LAMBDA acc, i : acc + MqSizeOf(st, i), 0, ids)

-----------------------------------------------------------------------------
(* resource/open and resource/close: the streams of a closed connection go *)
(* with it, the others stay.                                               *)
MqOpenConnection(r) ==
  /\ mqReading = MqNone /\ r \notin mqResources /\ mqLog[r] = <<>>
  /\ mqResources' = mqResources \cup {r}
  /\ UNCHANGED <<mqLog, mqStreams, mqUsed, mqReading, mqBatch>>

MqStreamsOf(r) == {s \in DOMAIN mqStreams : mqStreams[s].resource = r}

MqCloseConnection(r) ==
  /\ mqReading = MqNone /\ r \in mqResources
  /\ mqResources' = mqResources \ {r}
  /\ mqStreams' = [s \in DOMAIN mqStreams \ MqStreamsOf(r) |-> mqStreams[s]]
  /\ UNCHANGED <<mqLog, mqUsed, mqReading, mqBatch>>

(* A message of the broker is broadcast by the connection's poll task, at  *)
(* any moment, during a waiting read too.                                  *)
MqArrives(r, size) ==
  /\ r \in mqResources /\ Len(mqLog[r]) < MqMessages
  /\ mqLog' = [mqLog EXCEPT ![r] = Append(@, size)]
  /\ UNCHANGED <<mqResources, mqStreams, mqUsed, mqReading, mqBatch>>

-----------------------------------------------------------------------------
(* event/open and middleware/message/stream: streams whose connection is   *)
(* gone are pruned before the limit is checked; the event protocol names   *)
(* no resource, so exactly one connection must be open.                    *)
MqLiveStreams == {s \in DOMAIN mqStreams : mqStreams[s].resource \in mqResources}

open_message_event_stream(s) ==
  LET pruned == [t \in MqLiveStreams |-> mqStreams[t]]
      accepted == /\ Cardinality(MqLiveStreams) < MqMaxStreams
                  /\ Cardinality(mqResources) = 1
      r == CHOOSE x \in mqResources : TRUE
      opened == [resource |-> r, start |-> Len(mqLog[r]), cursor |-> Len(mqLog[r]),
                 dropped |-> 0, pending |-> <<>>, read |-> <<>>]
  IN /\ mqReading = MqNone /\ s \notin mqUsed
     /\ mqUsed' = mqUsed \cup {s}
     /\ mqStreams' = IF accepted
                       THEN [t \in MqLiveStreams \cup {s} |-> IF t = s THEN opened ELSE mqStreams[t]]
                       ELSE pruned
     /\ UNCHANGED <<mqResources, mqLog, mqReading, mqBatch>>

-----------------------------------------------------------------------------
(* How many of the cursor's messages the channel no longer holds.          *)
MqLag(st) == Max({0, Len(mqLog[st.resource]) - MqChannel - st.cursor})

(* drain_available: up to max messages, in order, after what lagged.       *)
drain_available(st, max) ==
  LET first == st.cursor + MqLag(st) + 1
      last == Min({Len(mqLog[st.resource]), first + max - 1})
  IN [ids |-> [i \in 1 .. last - first + 1 |-> first + i - 1],
      dropped |-> IF max = 0 THEN 0 ELSE MqLag(st),
      cursor |-> IF max = 0 THEN st.cursor ELSE last]

(* Step 1 of a read: the backlog first, as much of it as fits the budget,  *)
(* and its first event whatever its size.                                  *)
MqFromPending(st) ==
  LET fits(n) == n <= 1 \/ MqBytes(st, SubSeq(st.pending, 1, n)) <= MqBatch
      n == Max({k \in 0 .. Len(st.pending) : \A j \in 0 .. k : fits(j)})
  IN [batch |-> SubSeq(st.pending, 1, n),
      rest |-> SubSeq(st.pending, n + 1, Len(st.pending))]

\* Fault: a message that fits nowhere is dropped without being counted.
MqPlace_uncounted(st, acc, i) ==
  LET fits == acc.batch = <<>> \/ MqBytes(st, acc.batch) + MqSizeOf(st, i) <= MqBatch
      keeps == MqBytes(st, acc.rest) + MqSizeOf(st, i) <= MqPending
  IN CASE fits -> [acc EXCEPT !.batch = Append(@, i)]
       [] ~fits /\ keeps -> [acc EXCEPT !.rest = Append(@, i)]
       [] OTHER -> acc

(* Step 2: a drained message that does not fit goes to the backlog, or is  *)
(* dropped and counted when the backlog is full too.                       *)
MqPlace(st, acc, i) ==
  LET fits == acc.batch = <<>> \/ MqBytes(st, acc.batch) + MqSizeOf(st, i) <= MqBatch
      keeps == MqBytes(st, acc.rest) + MqSizeOf(st, i) <= MqPending
  IN CASE fits -> [acc EXCEPT !.batch = Append(@, i)]
       [] ~fits /\ keeps -> [acc EXCEPT !.rest = Append(@, i)]
       [] OTHER -> [acc EXCEPT !.lost = @ + 1]

MqReadable(st, max) ==
  LET one == MqFromPending(st)
      drained == drain_available(st, Max({0, max - Len(one.batch)}))
      two == FoldLeft(LAMBDA acc, i : MqPlace(st, acc, i),
                      [batch |-> one.batch, rest |-> one.rest, lost |-> 0], drained.ids)
  IN [stream |-> [st EXCEPT !.pending = two.rest, !.cursor = drained.cursor,
                            !.dropped = @ + drained.dropped + two.lost,
                            !.read = @ \o two.batch],
      batch |-> two.batch]

MqAnswerRead(s, got, wait) ==
  /\ mqStreams' = [mqStreams EXCEPT ![s] = got.stream]
  /\ mqBatch' = [i \in DOMAIN got.batch |-> MqSizeOf(got.stream, got.batch[i])]
  /\ mqReading' = IF got.batch = <<>> /\ wait THEN s ELSE MqNone

(* event/read, answered at once: there is something to return, or the      *)
(* caller does not wait.                                                   *)
read_event_stream(s, max, wait) ==
  /\ mqReading = MqNone /\ s \in DOMAIN mqStreams
  /\ MqAnswerRead(s, MqReadable(mqStreams[s], max), wait)
  /\ UNCHANGED <<mqResources, mqLog, mqUsed>>

(* Step 3: an empty read waits for one message; it ends with that message, *)
(* with the count of what was lost meanwhile, or at its timeout.           *)
MqWaitEnds ==
  LET st == mqStreams[mqReading]
      next == st.cursor + 1
  IN /\ mqReading # MqNone
     /\ \/ /\ Len(mqLog[st.resource]) >= next /\ MqLag(st) = 0
           /\ mqStreams' = [mqStreams EXCEPT ![mqReading] =
                              [@ EXCEPT !.cursor = next, !.read = Append(@, next)]]
           /\ mqBatch' = <<MqSizeOf(st, next)>>
        \/ /\ MqLag(st) > 0
           /\ mqStreams' = [mqStreams EXCEPT ![mqReading] =
                              [@ EXCEPT !.cursor = @ + MqLag(st), !.dropped = @ + MqLag(st)]]
           /\ UNCHANGED mqBatch
        \/ UNCHANGED <<mqStreams, mqBatch>>
     /\ mqReading' = MqNone
     /\ UNCHANGED <<mqResources, mqLog, mqUsed>>

(* event/close: idempotent.                                                *)
close_event_stream(s) ==
  /\ mqReading = MqNone /\ s \in DOMAIN mqStreams
  /\ mqStreams' = [t \in DOMAIN mqStreams \ {s} |-> mqStreams[t]]
  /\ UNCHANGED <<mqResources, mqLog, mqUsed, mqReading, mqBatch>>

(* shutdown and a broken pipe: every table is cleared.                     *)
MqShutdown ==
  /\ mqReading = MqNone /\ mqResources # {}
  /\ mqResources' = {} /\ mqStreams' = <<>> /\ mqBatch' = <<>>
  /\ UNCHANGED <<mqLog, mqUsed, mqReading>>

MqEventNext ==
  \/ \E r \in MqResources : MqOpenConnection(r) \/ MqCloseConnection(r)
  \/ \E r \in MqResources, z \in MqSizes : MqArrives(r, z)
  \/ \E s \in MqStreams : open_message_event_stream(s) \/ close_event_stream(s)
  \/ \E s \in MqStreams, max \in MqMaxEvents, wait \in BOOLEAN : read_event_stream(s, max, wait)
  \/ MqWaitEnds
  \/ MqShutdown

MqEventSpec == MqEventInit /\ [][MqEventNext]_mqEventVars

-----------------------------------------------------------------------------
(* Every message broadcast since a stream was opened is accounted for:     *)
(* returned once, in the backlog, counted as dropped, or still ahead of    *)
(* the cursor.  dropped_count, which the user is shown, is exact.          *)
MqEventsAccounted ==
  \A s \in DOMAIN mqStreams :
    LET st == mqStreams[s]
        held == ToSet(st.read) \cup ToSet(st.pending)
    IN /\ Cardinality(held) = Len(st.read) + Len(st.pending)
       /\ held \subseteq st.start + 1 .. st.cursor
       /\ Cardinality(held) + st.dropped = st.cursor - st.start

(* A batch never overflows the frame it is sent in: it is within the       *)
(* budget, or one event; and the backlog stays within its own budget.      *)
MqBatchFits ==
  /\ Len(mqBatch) <= 1 \/ FoldLeft(LAMBDA x, y : x + y, 0, mqBatch) <= MqBatch
  /\ \A s \in DOMAIN mqStreams : MqBytes(mqStreams[s], mqStreams[s].pending) <= MqPending

(* A stream lives no longer than its connection, and closing one           *)
(* connection leaves the streams of the others.                            *)
MqStreamsFollowConnections ==
  /\ \A s \in DOMAIN mqStreams' : mqStreams'[s].resource \in mqResources'
  /\ \A s \in DOMAIN mqStreams \ DOMAIN mqStreams' :
       \/ mqStreams[s].resource \notin mqResources'
       \/ mqResources' = mqResources /\ DOMAIN mqStreams = DOMAIN mqStreams' \cup {s}
-------------------------------------------------------------------------------
(***************************************************************************)
(* The MQTT provider's saved subscriptions (mqtt/src/host_state.rs,        *)
(* resource.rs, server/resource.rs).  The user's subscriptions of a        *)
(* connection are kept in the host's key-value storage under a key that    *)
(* connections to the same broker and account share, so that a provider    *)
(* process that is started again finds them.  The storage may be durable,  *)
(* a stub that accepts writes and reads back nothing, or fail for a while. *)
(* Keys and filters are model values; a client id and the quality of       *)
(* service travel with the filter and are left out.                        *)
(***************************************************************************)

CONSTANTS MqpResources,  \* connections (each is opened once)
          MqpFilters,    \* topic filters
          MqpKeyOf,      \* [MqpResources -> keys]: profile_key of the connection
          MqpAuto        \* values of auto_subscribe, MqpNoFilter among them

VARIABLES mqpKv, mqpOpen, mqpUsed, mqpHost, mqpAsked

mqpVars == <<mqpKv, mqpOpen, mqpUsed, mqpHost, mqpAsked>>

MqpNoFilter == "none"
MqpKeys == Range(MqpKeyOf)
MqpAnyone == "nobody"

(* mqpKv: the host's storage, with the connection that wrote last;         *)
(* mqpOpen: an open connection's subscription table and what it tells the  *)
(* user about persistence; mqpAsked: every filter the user subscribed to.  *)
MqpTypeOK ==
  /\ mqpKv \in [MqpKeys -> [saved : SUBSET MqpFilters, by : MqpResources \cup {MqpAnyone}]]
  /\ DOMAIN mqpOpen \subseteq mqpUsed /\ mqpUsed \subseteq MqpResources
  /\ \A r \in DOMAIN mqpOpen :
       mqpOpen[r] \in [table : SUBSET MqpFilters, auto : MqpAuto, ok : BOOLEAN]
  /\ mqpHost \in {"durable", "failing", "stub"}
  /\ mqpAsked \subseteq MqpFilters

MqpInit ==
  /\ mqpKv = [k \in MqpKeys |-> [saved |-> {}, by |-> MqpAnyone]]
  /\ mqpOpen = <<>> /\ mqpUsed = {} /\ mqpAsked = {}
  /\ mqpHost \in {"durable", "stub"}

-----------------------------------------------------------------------------
(* load_profile: the storage's content; nothing if it is a stub, and       *)
(* nothing, after an error that is only logged, if it fails.               *)
MqpLoaded(k) == IF mqpHost = "durable" THEN mqpKv[k].saved ELSE {}

(* The subscriptions written: the user's, not the configured filter's.     *)
MqpToSave_withAuto(table, auto) == table

MqpToSave(table, auto) == table \ {auto}

(* save_profile: write, then read back; a failing storage may have stored  *)
(* the value and failed at reading it.                                     *)
save_profile(r, subs, ok) ==
  LET written == [mqpKv EXCEPT ![MqpKeyOf[r]] = [saved |-> subs, by |-> r]]
  IN \/ mqpHost = "durable" /\ mqpKv' = written /\ ok
     \/ mqpHost = "stub" /\ mqpKv' = mqpKv /\ ~ok
     \/ mqpHost = "failing" /\ mqpKv' \in {mqpKv, written} /\ ~ok

(* persist_subscriptions: the current table is saved and the outcome is    *)
(* remembered.                                                             *)
persist_subscriptions(r, table, auto, others) ==
  \E ok \in BOOLEAN :
    /\ save_profile(r, MqpToSave(table, auto), ok)
    /\ mqpOpen' = [x \in others \cup {r} |->
                     IF x = r THEN [table |-> table, auto |-> auto, ok |-> ok] ELSE mqpOpen[x]]

-----------------------------------------------------------------------------
(* resource/open: the saved subscriptions seed the table, connecting adds  *)
(* the configured filter, and the profile is written back at once.  When   *)
(* the broker cannot be reached nothing is written.                        *)
MqpOpens(r, auto) ==
  LET seed == MqpLoaded(MqpKeyOf[r])
      table == seed \cup ({auto} \ {MqpNoFilter})
  IN /\ r \notin mqpUsed
     /\ mqpUsed' = mqpUsed \cup {r}
     /\ persist_subscriptions(r, table, auto, DOMAIN mqpOpen)
     /\ UNCHANGED <<mqpHost, mqpAsked>>

MqpOpenFails(r) ==
  /\ r \notin mqpUsed
  /\ mqpUsed' = mqpUsed \cup {r}
  /\ UNCHANGED <<mqpKv, mqpOpen, mqpHost, mqpAsked>>

(* topic/create and topic/update: subscribe, then save.                    *)
MqpCreateTopic(r, f) ==
  /\ r \in DOMAIN mqpOpen
  /\ mqpAsked' = mqpAsked \cup {f}
  /\ persist_subscriptions(r, mqpOpen[r].table \cup {f}, mqpOpen[r].auto, DOMAIN mqpOpen)
  /\ UNCHANGED <<mqpUsed, mqpHost>>

(* topic/delete: refused for the configured filter and for a filter that   *)
(* is not subscribed to; a refusal returns before the profile is saved.    *)
MqpDeleteTopic(r, f) ==
  /\ r \in DOMAIN mqpOpen /\ f \in mqpOpen[r].table /\ f # mqpOpen[r].auto
  /\ persist_subscriptions(r, mqpOpen[r].table \ {f}, mqpOpen[r].auto, DOMAIN mqpOpen)
  /\ UNCHANGED <<mqpUsed, mqpHost, mqpAsked>>

(* resource/close, and the end of the process: the tables go, the storage  *)
(* stays.                                                                  *)
MqpClose(r) ==
  /\ r \in DOMAIN mqpOpen
  /\ mqpOpen' = [x \in DOMAIN mqpOpen \ {r} |-> mqpOpen[x]]
  /\ UNCHANGED <<mqpKv, mqpUsed, mqpHost, mqpAsked>>

MqpCrash ==
  /\ DOMAIN mqpOpen # {}
  /\ mqpOpen' = <<>>
  /\ UNCHANGED <<mqpKv, mqpUsed, mqpHost, mqpAsked>>

(* The host's storage breaks and recovers.                                 *)
MqpStorageChanges ==
  /\ mqpHost # "stub"
  /\ mqpHost' = IF mqpHost = "durable" THEN "failing" ELSE "durable"
  /\ UNCHANGED <<mqpKv, mqpOpen, mqpUsed, mqpAsked>>

MqpNext ==
  \/ \E r \in MqpResources, a \in MqpAuto : MqpOpens(r, a)
  \/ \E r \in MqpResources : MqpOpenFails(r) \/ MqpClose(r)
  \/ \E r \in MqpResources, f \in MqpFilters : MqpCreateTopic(r, f) \/ MqpDeleteTopic(r, f)
  \/ MqpCrash
  \/ MqpStorageChanges

MqpSpec == MqpInit /\ [][MqpNext]_mqpVars

-----------------------------------------------------------------------------
(* No ghost subscriptions: whatever is saved, or restored into a table, is *)
(* a filter the user once subscribed to, or the table's own configured     *)
(* one, although configurations change from one opening to the next.       *)
MqpNoGhosts ==
  /\ \A k \in MqpKeys : mqpKv[k].saved \subseteq mqpAsked
  /\ \A r \in DOMAIN mqpOpen : mqpOpen[r].table \subseteq mqpAsked \cup {mqpOpen[r].auto}

(* What metadata says of persistence is true: while a connection reports   *)
(* "host" and no other connection has written the same profile since, the  *)
(* storage holds exactly the user's subscriptions in its table.            *)
MqpPersistenceIsTrue ==
  \A r \in DOMAIN mqpOpen :
    mqpOpen[r].ok =>
      /\ mqpHost # "stub"
      /\ mqpKv[MqpKeyOf[r]].by = r =>
           mqpKv[MqpKeyOf[r]].saved = mqpOpen[r].table \ {mqpOpen[r].auto}
-------------------------------------------------------------------------------
(***************************************************************************)
(* The MQTT provider's management view (mqtt/src/admin.rs): a ring of the  *)
(* messages received and sent, bounded in number and in bytes, filled      *)
(* lazily from the connection's broadcast channel whenever a management    *)
(* request is handled, and searched page by page.  A message is its topic  *)
(* (a sequence of levels), its size and the time it arrived; topics and    *)
(* payloads are otherwise left out.  Time is a counter that the arrivals   *)
(* and the requests read.                                                  *)
(***************************************************************************)

CONSTANTS MqaTopics,    \* topics of messages: sequences of levels
          MqaFilters,   \* filters of searches
          MqaSizes,     \* payload sizes (topics included)
          MqaCapacity,  \* MQTT_ADMIN_BUFFER_CAPACITY
          MqaBytes,     \* MQTT_ADMIN_BUFFER_MAX_BYTES
          MqaMaxBody,   \* MQTT_MAX_PUBLISH_BYTES
          MqaChannel,   \* capacity of the broadcast channel
          MqaMessages,  \* bound: messages broadcast
          MqaSends,     \* bound: messages sent
          MqaTime       \* bound: the clock; a day is two ticks

VARIABLES mqaNow, mqaArrived, mqaCursor, mqaRing, mqaHeld, mqaRecorded,
          mqaReceived, mqaSent, mqaToday, mqaDay

mqaVars == <<mqaNow, mqaArrived, mqaCursor, mqaRing, mqaHeld, mqaRecorded,
             mqaReceived, mqaSent, mqaToday, mqaDay>>

MqaNone == -1
MqaDayOf(t) == t \div 2

MqaMessage == [topic : MqaTopics, size : MqaSizes, at : 0 .. MqaTime]
MqaBuffered == [topic : MqaTopics, size : MqaSizes, at : 0 .. MqaTime, id : Nat, outgoing : BOOLEAN,
                on : Nat]

(* mqaArrived: what the connection broadcast; mqaCursor: the view's        *)
(* receiver, MqaNone before the first request; mqaHeld: buffered_bytes;    *)
(* mqaRecorded: everything ever put in the ring, with the day it was, for  *)
(* the properties.                                                         *)
MqaTypeOK ==
  /\ mqaNow \in 0 .. MqaTime /\ mqaCursor \in {MqaNone} \cup Nat
  /\ mqaArrived \in Seq(MqaMessage) /\ mqaRing \in Seq(MqaBuffered)
  /\ mqaRecorded \in Seq(MqaBuffered)
  /\ mqaHeld \in Nat /\ mqaReceived \in Nat /\ mqaSent \in Nat
  /\ mqaToday \in Nat /\ mqaDay \in {MqaNone} \cup Nat

MqaInit ==
  /\ mqaNow = 0 /\ mqaArrived = <<>> /\ mqaCursor = MqaNone
  /\ mqaRing = <<>> /\ mqaHeld = 0 /\ mqaRecorded = <<>>
  /\ mqaReceived = 0 /\ mqaSent = 0 /\ mqaToday = 0 /\ mqaDay = MqaNone

MqaSum(ring) == FoldLeft(LAMBDA acc, b : acc + b.size, 0, ring)

-----------------------------------------------------------------------------
(* push_buffered: append, then drop the oldest until both bounds hold; the *)
(* newest is kept whatever its size.                                       *)
MqaTrimmed(ring) ==
  LET keeps(n) == /\ n <= MqaCapacity
                  /\ n <= 1 \/ MqaSum(SubSeq(ring, Len(ring) - n + 1, Len(ring))) <= MqaBytes
      n == Max({k \in 0 .. Len(ring) : keeps(k)})
  IN SubSeq(ring, Len(ring) - n + 1, Len(ring))

push_buffered(v, m, outgoing, now) ==
  LET b == [topic |-> m.topic, size |-> m.size, at |-> m.at,
            id |-> Len(v.recorded), outgoing |-> outgoing,
            on |-> MqaDayOf(now)]
      ring == MqaTrimmed(Append(v.ring, b))
      gone == Len(v.ring) + 1 - Len(ring)
  IN [v EXCEPT !.ring = ring, !.recorded = Append(@, b),
               !.held = @ + b.size - MqaSum(SubSeq(Append(v.ring, b), 1, gone))]

(* record_received: the count of the day restarts when the day changes.    *)
record_received(v, m, now) ==
  LET today == IF v.day = MqaDayOf(now) THEN v.today ELSE 0
  IN [push_buffered(v, m, FALSE, now) EXCEPT
        !.received = @ + 1, !.day = MqaDayOf(now), !.today = today + 1]

record_sent(v, m, now) == [push_buffered(v, m, TRUE, now) EXCEPT !.sent = @ + 1]

MqaView == [ring |-> mqaRing, held |-> mqaHeld, recorded |-> mqaRecorded,
            received |-> mqaReceived, sent |-> mqaSent, today |-> mqaToday, day |-> mqaDay]

MqaSet(v) ==
  /\ mqaRing' = v.ring /\ mqaHeld' = v.held /\ mqaRecorded' = v.recorded
  /\ mqaReceived' = v.received /\ mqaSent' = v.sent
  /\ mqaToday' = v.today /\ mqaDay' = v.day

-----------------------------------------------------------------------------
(* drain_stream, with which metrics, topic/list, group/clients and         *)
(* message/query begin: the receiver is opened at the first of them, so    *)
(* messages that came before it are never seen; what overflowed the        *)
(* channel since the last request is lost uncounted.                       *)
drain_stream ==
  LET opened == IF mqaCursor = MqaNone THEN Len(mqaArrived) ELSE mqaCursor
      first == Max({opened, Len(mqaArrived) - MqaChannel}) + 1
  IN /\ MqaSet(FoldLeft(LAMBDA v, m : record_received(v, m, mqaNow), MqaView,
                        SubSeq(mqaArrived, first, Len(mqaArrived))))
     /\ mqaCursor' = Len(mqaArrived)
     /\ UNCHANGED <<mqaNow, mqaArrived>>

(* message/send: a body over the limit is refused before it is published;  *)
(* publishing may fail, and only a published message is recorded.  The     *)
(* channel is not drained first.                                           *)
send_message(topic, size) ==
  /\ mqaSent < MqaSends
  /\ size <= MqaMaxBody
  /\ MqaSet(record_sent(MqaView, [topic |-> topic, size |-> size, at |-> mqaNow], mqaNow))
  /\ UNCHANGED <<mqaNow, mqaArrived, mqaCursor>>

(* A message of the broker, and time.                                      *)
MqaArrives(topic, size) ==
  /\ Len(mqaArrived) < MqaMessages
  /\ mqaArrived' = Append(mqaArrived, [topic |-> topic, size |-> size, at |-> mqaNow])
  /\ UNCHANGED <<mqaNow, mqaCursor, mqaRing, mqaHeld, mqaRecorded, mqaReceived, mqaSent, mqaToday, mqaDay>>

MqaTick ==
  /\ mqaNow < MqaTime /\ mqaNow' = mqaNow + 1
  /\ UNCHANGED <<mqaArrived, mqaCursor, mqaRing, mqaHeld, mqaRecorded, mqaReceived, mqaSent, mqaToday, mqaDay>>

MqaNext ==
  \/ drain_stream
  \/ \E t \in MqaTopics, z \in MqaSizes : send_message(t, z) \/ MqaArrives(t, z)
  \/ MqaTick

MqaSpec == MqaInit /\ [][MqaNext]_mqaVars

-----------------------------------------------------------------------------
(* mqtt_topic_match: the loop over the filter's levels, from level i of    *)
(* both on; the last two tests are the ones after the loop and in it.      *)
mqtt_topic_match(filter, topic) ==
  LET from[i \in 1 .. Len(filter) + 1] ==
        IF i > Len(filter) THEN i > Len(topic)
        ELSE IF filter[i] = "#" THEN i = Len(filter)
        ELSE i <= Len(topic) /\ filter[i] \in {"+", topic[i]} /\ from[i + 1]
  IN from[1]

(* What the MQTT standard says of a filter.                                *)
MqaMatches(filter, topic) ==
  \/ /\ Len(topic) = Len(filter)
     /\ \A i \in 1 .. Len(filter) : filter[i] # "#" /\ filter[i] \in {"+", topic[i]}
  \/ /\ Last(filter) = "#" /\ Len(topic) >= Len(filter) - 1
     /\ \A i \in 1 .. Len(filter) - 1 : filter[i] # "#" /\ filter[i] \in {"+", topic[i]}

(* filter_and_paginate for a time window: page numbers and sizes of zero   *)
(* count as one.                                                           *)
MqaPage(ring, filter, begin, end, page, size) ==
  LET found == SelectSeq(ring, LAMBDA b :
                 begin <= b.at /\ b.at <= end /\ mqtt_topic_match(filter, b.topic))
      per == Max({1, size})
      start == (Max({1, page}) - 1) * per
      messages == SubSeq(found, start + 1, Min({start + per, Len(found)}))
  IN [messages |-> messages, total |-> Len(found),
      has_more |-> start + Len(messages) < Len(found)]

-----------------------------------------------------------------------------
(* The ring holds the newest messages recorded, unbroken, as many as both  *)
(* bounds allow, and its running byte count never drifts from its content. *)
MqaRingIsNewest ==
  LET n == Len(mqaRing)
  IN /\ mqaRing = SubSeq(mqaRecorded, Len(mqaRecorded) - n + 1, Len(mqaRecorded))
     /\ mqaHeld = MqaSum(mqaRing)
     /\ n <= MqaCapacity
     /\ mqaHeld <= MqaBytes \/ n = 1

(* Reading the pages of a window one after the other, for as long as       *)
(* has_more says so, gives every message of the ring that arrived in the   *)
(* window under the filter, once and in order, whatever the page size.     *)
MqaPagesCoverWindow ==
  \A f \in MqaFilters, begin \in 0 .. 1, size \in {0, 2} :
    LET wanted == SelectSeq(mqaRing, LAMBDA b : begin <= b.at /\ MqaMatches(f, b.topic))
        page[p \in 1 .. Len(mqaRing) + 1] == MqaPage(mqaRing, f, begin, MqaTime, p, size)
        last == Min({p \in DOMAIN page : ~page[p].has_more})
    IN /\ \E p \in DOMAIN page : ~page[p].has_more
       /\ FlattenSeq([p \in 1 .. last |-> page[p].messages]) = wanted
       /\ last > 1 => page[last].messages # <<>>
       /\ page[1].total = Len(wanted)

(* The totals shown are those of what was recorded, and the count of the   *)
(* day is the number of messages recorded on the day of the last one,      *)
(* however many have left the ring since.                                  *)
MqaCountsAgree ==
  LET received == {i \in DOMAIN mqaRecorded : ~mqaRecorded[i].outgoing}
  IN /\ mqaReceived = Cardinality(received)
     /\ mqaSent = Len(mqaRecorded) - mqaReceived
     /\ mqaToday = Cardinality({i \in received : mqaRecorded[i].on = mqaDay})
===============================================================================
