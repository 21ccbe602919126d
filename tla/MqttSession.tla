----------------------------- MODULE MqttSession ------------------------------
(***************************************************************************)
(* The MQTT provider's connection to a broker: the request handler, the    *)
(* poll task that drives the client library and restores subscriptions     *)
(* after every ConnAck, the bounded request channel between them, and the  *)
(* local table of subscriptions.  The library and the broker are external: *)
(* a lost connection moves what waits in the channel to the front of the   *)
(* next session, and a broker may forget its sessions.                     *)
(***************************************************************************)
EXTENDS Naturals, Sequences, FiniteSets

CONSTANTS
    MqFilters,      \* topic filters
    MqQos,          \* qualities of service
    MqCap,          \* MQTT_MESSAGE_CHANNEL_CAPACITY
    MqMaxOps,       \* operations of the host in a behaviour
    MqMaxFaults     \* connections lost or refused in a behaviour

ASSUME MqAssumption == MqCap \in Nat \ {0} /\ MqMaxOps \in Nat /\ MqMaxFaults \in Nat

VARIABLES
    mqTable,    \* the local table: filter -> qos or "none"
    mqBroker,   \* the broker's view of the session, likewise
    mqChan,     \* request channel of the client library: [f, q], f = "publish" for a message
    mqPend,     \* requests the library kept from the last connection
    mqPoll,     \* the poll task: [pc, left]; left: filters still to be restored
    mqAlive,    \* eventloop_alive
    mqWatch,    \* connected_tx: [val, rx]; a send without receiver is not stored
    mqHand,     \* the handler: [op, f, q, pc]
    mqClient,   \* the connection has a client
    mqOps, mqFaults

mqVars == <<mqTable, mqBroker, mqChan, mqPend, mqPoll, mqAlive, mqWatch, mqHand, mqClient, mqOps, mqFaults>>

MqNothing == [f \in MqFilters |-> "none"]
MqIdle == [op |-> "none", f |-> "none", q |-> "none", pc |-> "idle"]
MqAt(pc) == [pc |-> pc, left |-> << >>]
MqTold(val) == [mqWatch EXCEPT !.val = IF mqWatch.rx THEN val ELSE @]

\* What the broker will hold of f once everything in flight arrived.
MqEventually(f) ==
    LET sent == SelectSeq(mqPend \o mqChan, LAMBDA r : r.f = f)
    IN  IF sent = << >> THEN mqBroker[f] ELSE sent[Len(sent)].q

MqTypeOK ==
    /\ mqTable \in [MqFilters -> MqQos \cup {"none"}]
    /\ mqBroker \in [MqFilters -> MqQos \cup {"none"}]
    /\ Len(mqChan) <= MqCap
    /\ mqPoll.pc \in {"none", "connecting", "restoring", "running", "backoff", "dead"}
    /\ mqHand.pc \in {"idle", "spawned", "waiting", "send", "sent", "leave"}
    /\ mqClient => mqPoll.pc # "none"

MqInit ==
    /\ mqTable = MqNothing /\ mqBroker = MqNothing
    /\ mqChan = << >> /\ mqPend = << >>
    /\ mqPoll = MqAt("none")
    /\ mqAlive = TRUE
    /\ mqWatch = [val |-> FALSE, rx |-> FALSE]
    /\ mqHand = MqIdle
    /\ mqClient = FALSE
    /\ mqOps = 0 /\ mqFaults = 0
-------------------------------------------------------------------------------
(* connect, disconnect *)

\* A new connection: the table starts with what was stored for it, the poll task is spawned.
MqConnect ==
    /\ mqHand = MqIdle /\ ~mqClient /\ mqPoll.pc = "none"
    /\ mqOps < MqMaxOps /\ mqOps' = mqOps + 1
    /\ mqTable' \in [MqFilters -> MqQos \cup {"none"}]
    /\ mqBroker' = MqNothing
    /\ mqChan' = << >> /\ mqPend' = << >>
    /\ mqPoll' = MqAt("connecting")
    /\ mqAlive' = TRUE
    /\ mqWatch' = [val |-> FALSE, rx |-> FALSE]
    /\ mqHand' = [MqIdle EXCEPT !.op = "connect", !.pc = "spawned"]
    /\ UNCHANGED <<mqClient, mqFaults>>

\* connected_tx.subscribe(), after the task was spawned.
MqListen ==
    /\ mqHand.pc = "spawned"
    /\ mqHand' = [mqHand EXCEPT !.pc = "waiting"]
    /\ mqWatch' = [mqWatch EXCEPT !.rx = TRUE]
    /\ UNCHANGED <<mqTable, mqBroker, mqChan, mqPend, mqPoll, mqAlive, mqClient, mqOps, mqFaults>>

MqConnected ==
    /\ mqHand.pc = "waiting" /\ mqWatch.val
    /\ mqHand' = MqIdle /\ mqClient' = TRUE
    /\ mqWatch' = [mqWatch EXCEPT !.rx = FALSE]
    /\ UNCHANGED <<mqTable, mqBroker, mqChan, mqPend, mqPoll, mqAlive, mqOps, mqFaults>>

\* The broker refused the credentials, or the time is up: the task is aborted.
MqConnectFails ==
    /\ mqHand.pc = "waiting" /\ ~mqWatch.val
    /\ mqHand' = MqIdle
    /\ mqPoll' = MqAt("none")
    /\ mqWatch' = [mqWatch EXCEPT !.rx = FALSE]
    /\ UNCHANGED <<mqTable, mqBroker, mqChan, mqPend, mqAlive, mqClient, mqOps, mqFaults>>

\* The request to disconnect waits for room in the same channel; then the task is aborted.
MqDisconnect ==
    /\ mqHand = MqIdle /\ mqClient
    /\ mqClient' = FALSE
    /\ mqHand' = [MqIdle EXCEPT !.op = "disconnect", !.pc = "leave"]
    /\ UNCHANGED <<mqTable, mqBroker, mqChan, mqPend, mqPoll, mqAlive, mqWatch, mqOps, mqFaults>>

MqLeaves ==
    /\ mqHand.pc = "leave"
    /\ Len(mqChan) < MqCap \/ mqPoll.pc = "dead"
    /\ mqHand' = MqIdle
    /\ mqPoll' = MqAt("none")
    /\ mqWatch' = [mqWatch EXCEPT !.val = FALSE]
    /\ UNCHANGED <<mqTable, mqBroker, mqChan, mqPend, mqAlive, mqClient, mqOps, mqFaults>>
-------------------------------------------------------------------------------
(* publish, subscribe, unsubscribe: q = "none" unsubscribes *)

MqPublish ==
    /\ mqHand = MqIdle /\ mqClient /\ mqAlive
    /\ mqOps < MqMaxOps /\ mqOps' = mqOps + 1
    /\ mqHand' = [op |-> "publish", f |-> "publish", q |-> "none", pc |-> "send"]
    /\ UNCHANGED <<mqTable, mqBroker, mqChan, mqPend, mqPoll, mqAlive, mqWatch, mqClient, mqFaults>>

\* The table decides whether the broker has to be told at all; a dead event loop is refused.
MqSubscribe(f, q) ==
    /\ mqHand = MqIdle /\ mqClient /\ mqAlive
    /\ mqTable[f] # q
    /\ mqOps < MqMaxOps /\ mqOps' = mqOps + 1
    /\ mqHand' = [op |-> "subscribe", f |-> f, q |-> q, pc |-> "send"]
    /\ UNCHANGED <<mqTable, mqBroker, mqChan, mqPend, mqPoll, mqAlive, mqWatch, mqClient, mqFaults>>

\* Fault: a request waits for the event loop after it has died.
MqHandOver_waits ==
    /\ mqHand.pc = "send"
    /\ mqPoll.pc # "dead" /\ Len(mqChan) < MqCap
    /\ mqChan' = Append(mqChan, [f |-> mqHand.f, q |-> mqHand.q])
    /\ mqHand' = IF mqHand.op = "publish" THEN MqIdle ELSE [mqHand EXCEPT !.pc = "sent"]
    /\ UNCHANGED <<mqTable, mqBroker, mqPend, mqPoll, mqAlive, mqWatch, mqClient, mqOps, mqFaults>>

\* The channel takes the request when it has room; a dead event loop closed it.
MqHandOver ==
    /\ mqHand.pc = "send"
    /\ \/ /\ mqPoll.pc # "dead" /\ Len(mqChan) < MqCap
          /\ mqChan' = Append(mqChan, [f |-> mqHand.f, q |-> mqHand.q])
          /\ mqHand' = IF mqHand.op = "publish" THEN MqIdle ELSE [mqHand EXCEPT !.pc = "sent"]
       \/ /\ mqPoll.pc = "dead"
          /\ mqHand' = MqIdle /\ UNCHANGED mqChan
    /\ UNCHANGED <<mqTable, mqBroker, mqPend, mqPoll, mqAlive, mqWatch, mqClient, mqOps, mqFaults>>

MqRecord ==
    /\ mqHand.pc = "sent"
    /\ mqTable' = [mqTable EXCEPT ![mqHand.f] = mqHand.q]
    /\ mqHand' = MqIdle
    /\ UNCHANGED <<mqBroker, mqChan, mqPend, mqPoll, mqAlive, mqWatch, mqClient, mqOps, mqFaults>>
-------------------------------------------------------------------------------
(* The poll task *)

MqInTable == {f \in MqFilters : mqTable[f] # "none"}
\* The table is a list; the order of restoration does not matter here.
MqListings == {s \in [1..Cardinality(MqInTable) -> MqInTable] : {s[k] : k \in DOMAIN s} = MqInTable}

\* The table is read once; then its subscriptions go through the channel that this very task empties.
MqConnAck ==
    /\ mqPoll.pc = "connecting"
    /\ mqWatch' = MqTold(TRUE)
    /\ \E s \in MqListings : mqPoll' = [pc |-> "restoring", left |->
          [k \in DOMAIN s |-> [f |-> s[k], q |-> mqTable[s[k]]]]]
    /\ UNCHANGED <<mqTable, mqBroker, mqChan, mqPend, mqAlive, mqHand, mqClient, mqOps, mqFaults>>

MqRestore ==
    /\ mqPoll.pc = "restoring"
    /\ \/ /\ mqPoll.left # << >> /\ Len(mqChan) < MqCap
          /\ mqChan' = Append(mqChan, Head(mqPoll.left))
          /\ mqPoll' = [mqPoll EXCEPT !.left = Tail(@)]
       \/ /\ mqPoll.left = << >>
          /\ mqPoll' = MqAt("running") /\ UNCHANGED mqChan
    /\ UNCHANGED <<mqTable, mqBroker, mqPend, mqAlive, mqWatch, mqHand, mqClient, mqOps, mqFaults>>

\* The library sends what it kept first, then what waits in the channel.
MqSend ==
    LET all == mqPend \o mqChan
    IN  /\ mqPoll.pc = "running" /\ all # << >>
        /\ mqBroker' = IF all[1].f \in MqFilters THEN [mqBroker EXCEPT ![all[1].f] = all[1].q] ELSE mqBroker
        /\ IF mqPend # << >> THEN mqPend' = Tail(mqPend) /\ UNCHANGED mqChan
                             ELSE mqChan' = Tail(mqChan) /\ UNCHANGED mqPend
        /\ UNCHANGED <<mqTable, mqPoll, mqAlive, mqWatch, mqHand, mqClient, mqOps, mqFaults>>

\* The connection breaks; the broker may have restarted or drop the session.
MqLost ==
    /\ mqPoll.pc = "running"
    /\ mqFaults < MqMaxFaults /\ mqFaults' = mqFaults + 1
    /\ mqPend' = mqPend \o mqChan /\ mqChan' = << >>
    /\ mqBroker' \in {mqBroker, MqNothing}
    /\ mqWatch' = MqTold(FALSE)
    /\ mqPoll' = MqAt("backoff")
    /\ UNCHANGED <<mqTable, mqAlive, mqHand, mqClient, mqOps>>

\* No connection: refused credentials end the task, anything else is tried again.
MqUnreachable ==
    /\ mqPoll.pc = "connecting"
    /\ mqFaults < MqMaxFaults /\ mqFaults' = mqFaults + 1
    /\ mqWatch' = MqTold(FALSE)
    /\ \/ mqPoll' = MqAt("backoff") /\ UNCHANGED mqAlive
       \/ mqPoll' = MqAt("dead") /\ mqAlive' = FALSE
    /\ UNCHANGED <<mqTable, mqBroker, mqChan, mqPend, mqHand, mqClient, mqOps>>

\* The back-off outlasts the step of a handler between two of its awaits.
MqBackoffOver ==
    /\ mqPoll.pc = "backoff" /\ mqHand.pc # "sent"
    /\ mqPoll' = MqAt("connecting")
    /\ UNCHANGED <<mqTable, mqBroker, mqChan, mqPend, mqAlive, mqWatch, mqHand, mqClient, mqOps, mqFaults>>

MqHandler == MqListen \/ MqConnected \/ MqConnectFails \/ MqLeaves \/ MqHandOver \/ MqRecord
MqTask == MqConnAck \/ MqRestore \/ MqSend \/ MqBackoffOver

MqNext ==
    \/ MqConnect \/ MqListen \/ MqConnected \/ MqConnectFails \/ MqDisconnect \/ MqLeaves
    \/ MqPublish
    \/ \E f \in MqFilters, q \in MqQos \cup {"none"} : MqSubscribe(f, q)
    \/ MqHandOver \/ MqRecord
    \/ MqConnAck \/ MqRestore \/ MqSend \/ MqLost \/ MqUnreachable \/ MqBackoffOver

MqFairness == WF_mqVars(MqHandler) /\ WF_mqVars(MqTask)

MqSpec == MqInit /\ [][MqNext]_mqVars /\ MqFairness
-------------------------------------------------------------------------------
(* Properties *)

(* Once subscriptions are restored, every filter of the local table is     *)
(* subscribed at the broker or on its way there, through any number of     *)
(* lost connections, lost broker sessions and requests in between: no      *)
(* entry exists only in the provider's memory.                             *)
MqTableReachesBroker ==
    mqPoll.pc = "running" =>
        \A f \in MqFilters : mqTable[f] # "none" /\ mqHand.f # f => MqEventually(f) # "none"

\* The task waits for room in the channel that it alone empties.
MqClogged == mqPoll.pc = "restoring" /\ mqPoll.left # << >> /\ Len(mqChan) = MqCap

(* The handler serves one request at a time, so a request that never       *)
(* returns stops the provider.  Every request to a connection returns,     *)
(* through outages and a dead event loop, with one exception: the channel  *)
(* is full when the poll task restores the subscriptions through it.  Then *)
(* the task waits for itself, and publish, subscribe and disconnect for    *)
(* the task.                                                               *)
MqHandlerReturns == mqHand.pc # "idle" ~> (mqHand.pc = "idle" \/ []MqClogged)
===============================================================================
