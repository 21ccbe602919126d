-------------------------- MODULE RocketmqRemoting --------------------------
(***************************************************************************)
(* The RocketMQ provider's remoting client (rocketmq/src/remoting.rs) and   *)
(* the one request that is not idempotent, message/send (admin.rs).  The   *)
(* serve loop handles one request at a time, so there is one caller; it    *)
(* runs against the reader and writer tasks of each channel and against    *)
(* the servers.  A channel is one TCP connection, named by its number in   *)
(* the order of connecting.  Frames and answers carry the opaque that      *)
(* pairs them; what a server does with a request is only counted.          *)
(***************************************************************************)
EXTENDS Integers, Sequences, FiniteSets, SequencesExt, FiniteSetsExt

CONSTANTS RqNameservers,  \* addresses of name servers, in order
          RqBroker,       \* address of the topic's broker
          RqMaxChannels,  \* bound: connections made
          RqMaxRequests   \* bound: requests of the host

RqAddrs == Range(RqNameservers) \cup {RqBroker}

VARIABLES rqChannels,   \* sequence of channels ever connected
          rqTable,      \* address -> number of its cached channel, 0 if none
          rqCall,       \* the caller
          rqCursor,     \* namesrv_cursor
          rqAsked,      \* requests handled so far
          rqStored,     \* copies of the current message the broker stored
          rqReply       \* the answer to the last request

rqVars == <<rqChannels, rqTable, rqCall, rqCursor, rqAsked, rqStored, rqReply>>

RqIdle == [pc |-> "idle", work |-> "none", addr |-> RqBroker, ch |-> 0, opaque |-> 0, tried |-> {}]

RqCodes == {"success", "refused", "unsupported"}
RqFrame == [n : Nat, msg : Nat]
RqAnswer == [n : Nat, code : RqCodes]

RqChannel == [addr : RqAddrs, active : BOOLEAN, waiting : SUBSET Nat, next : Nat,
              out : Seq(RqFrame), writer : BOOLEAN, server : SUBSET RqFrame, in : Seq(RqAnswer),
              open : BOOLEAN, reader : BOOLEAN, lost : Nat]

(* A frame carries the opaque n (0 in Close) and its request's number;     *)
(* out: the writer's queue; server: requests it received; in: answers on     *)
(* their way; open: the TCP connection; waiting: the pending    *)
(* table; reader, writer: whether the tasks run; lost: frames that could   *)
(* not be encoded, for the properties.                                     *)
RqTypeOK ==
  /\ \A c \in DOMAIN rqChannels : rqChannels[c] \in RqChannel
  /\ rqTable \in [RqAddrs -> 0 .. Len(rqChannels)]
  /\ rqCall.pc \in {"idle", "connect", "register", "send", "wait", "failed", "done"}
  /\ rqCall.work \in {"none", "query", "sendV2", "sendV1"}
  /\ rqReply \in {"none", "ok", "error"}

RqInit ==
  /\ rqChannels = <<>> /\ rqTable = [a \in RqAddrs |-> 0]
  /\ rqCall = RqIdle /\ rqCursor = 0 /\ rqAsked = 0 /\ rqStored = 0 /\ rqReply = "none"

-----------------------------------------------------------------------------
(* is_active, shutdown.                                                    *)
is_active(c) == rqChannels[c].active /\ rqChannels[c].writer

RqShut(ch) == [ch EXCEPT !.active = FALSE, !.waiting = {},
                         !.out = IF ch.writer THEN Append(@, [n |-> 0, msg |-> 0]) ELSE @]

(* invalidate: drops the cached channel of an address.                     *)
RqInvalidated(a) ==
  IF rqTable[a] = 0 THEN rqChannels
  ELSE [rqChannels EXCEPT ![rqTable[a]] = RqShut(@)]

-----------------------------------------------------------------------------
(* A request of the host: a query to the name servers, from the round      *)
(* robin's next address on, or a message for the broker.                   *)
RqFirst == RqNameservers[(rqCursor % Len(RqNameservers)) + 1]

RqStart(work) ==
  /\ rqCall.pc = "idle" /\ rqAsked < RqMaxRequests
  /\ rqAsked' = rqAsked + 1 /\ rqStored' = 0 /\ rqReply' = "none"
  /\ rqCall' = [RqIdle EXCEPT !.pc = "connect", !.work = work,
                              !.addr = IF work = "query" THEN RqFirst ELSE RqBroker]
  /\ rqCursor' = IF work = "query" THEN rqCursor + 1 ELSE rqCursor
  /\ UNCHANGED <<rqChannels, rqTable>>

(* get_or_connect: a cached channel that is active, or a new one; an       *)
(* inactive one is shut down and replaced.  Connecting may fail.           *)
get_or_connect ==
  LET a == rqCall.addr
      c == rqTable[a]
      reuse == c # 0 /\ is_active(c)
      fresh == [addr |-> a, active |-> TRUE, waiting |-> {}, next |-> 1, out |-> <<>>,
                writer |-> TRUE, server |-> {}, in |-> <<>>, open |-> TRUE, reader |-> TRUE, lost |-> 0]
  IN /\ rqCall.pc = "connect"
     /\ \/ /\ reuse
           /\ rqCall' = [rqCall EXCEPT !.pc = "register", !.ch = c]
           /\ UNCHANGED <<rqChannels, rqTable>>
        \/ /\ ~reuse /\ Len(rqChannels) < RqMaxChannels
           /\ rqChannels' = Append(RqInvalidated(a), fresh)
           /\ rqTable' = [rqTable EXCEPT ![a] = Len(rqChannels) + 1]
           /\ rqCall' = [rqCall EXCEPT !.pc = "register", !.ch = Len(rqChannels) + 1]
        \/ /\ ~reuse
           /\ rqChannels' = RqInvalidated(a)
           /\ rqTable' = [rqTable EXCEPT ![a] = 0]
           /\ rqCall' = [rqCall EXCEPT !.pc = "failed"]
     /\ UNCHANGED <<rqCursor, rqAsked, rqStored, rqReply>>

(* RemotingChannel::invoke: the channel is looked at once more, the opaque *)
(* is taken and the waiter registered; then the frame is handed over.      *)
RqRegister ==
  LET c == rqCall.ch
      n == rqChannels[c].next
  IN /\ rqCall.pc = "register"
     /\ IF is_active(c)
          THEN /\ rqChannels' = [rqChannels EXCEPT ![c].waiting = @ \cup {n}, ![c].next = n + 1]
               /\ rqCall' = [rqCall EXCEPT !.pc = "send", !.opaque = n]
          ELSE /\ rqCall' = [rqCall EXCEPT !.pc = "failed"]
               /\ UNCHANGED rqChannels
     /\ UNCHANGED <<rqTable, rqCursor, rqAsked, rqStored, rqReply>>

RqHandOver ==
  LET c == rqCall.ch
  IN /\ rqCall.pc = "send"
     /\ IF rqChannels[c].writer
          THEN /\ rqChannels' = [rqChannels EXCEPT ![c].out = Append(@, [n |-> rqCall.opaque, msg |-> rqAsked])]
               /\ rqCall' = [rqCall EXCEPT !.pc = "wait"]
          ELSE /\ rqChannels' = [rqChannels EXCEPT ![c].waiting = @ \ {rqCall.opaque},
                                                   ![c].active = FALSE]
               /\ rqCall' = [rqCall EXCEPT !.pc = "failed"]
     /\ UNCHANGED <<rqTable, rqCursor, rqAsked, rqStored, rqReply>>

(* A message over the frame limit is refused by encode_frame after its     *)
(* waiter was registered; the error drops no channel.                      *)
RqTooLarge ==
  LET c == rqCall.ch
  IN /\ rqCall.pc = "send" /\ rqCall.work # "query"
     /\ rqChannels' = [rqChannels EXCEPT ![c].lost = @ + 1]
     /\ IF rqCall.work = "sendV2"
          THEN /\ rqCall' = [rqCall EXCEPT !.pc = "connect", !.work = "sendV1", !.ch = 0, !.opaque = 0]
               /\ UNCHANGED rqReply
          ELSE rqCall' = [rqCall EXCEPT !.pc = "done"] /\ rqReply' = "error"
     /\ UNCHANGED <<rqTable, rqCursor, rqAsked, rqStored>>

(* The wait ends: the reader dropped the waiter (the channel is gone) or   *)
(* the timeout fires, whether or not an answer is on its way.              *)
RqWaiterDropped ==
  /\ rqCall.pc = "wait" /\ rqCall.opaque \notin rqChannels[rqCall.ch].waiting
  /\ rqCall' = [rqCall EXCEPT !.pc = "failed"]
  /\ UNCHANGED <<rqChannels, rqTable, rqCursor, rqAsked, rqStored, rqReply>>

RqTimeout ==
  LET c == rqCall.ch
  IN /\ rqCall.pc = "wait" /\ rqCall.opaque \in rqChannels[c].waiting
     /\ rqChannels' = [rqChannels EXCEPT ![c].waiting = @ \ {rqCall.opaque}]
     /\ rqCall' = [rqCall EXCEPT !.pc = "failed"]
     /\ UNCHANGED <<rqTable, rqCursor, rqAsked, rqStored, rqReply>>

-----------------------------------------------------------------------------
(* invoke_addr, then the caller: the channel of the failed address is      *)
(* dropped; a query goes on to the next name server until all were tried; *)
(* a message that failed as V2 is sent again as V1 to the same broker.     *)
RqNextAddr ==
  LET i == CHOOSE k \in DOMAIN RqNameservers : RqNameservers[k] = rqCall.addr
  IN RqNameservers[(i % Len(RqNameservers)) + 1]

RqFailed ==
  LET tried == rqCall.tried \cup {rqCall.addr}
      again == CASE rqCall.work = "query" -> tried # Range(RqNameservers)
                 [] rqCall.work = "sendV2" -> TRUE
                 [] OTHER -> FALSE
  IN /\ rqCall.pc = "failed"
     /\ rqChannels' = RqInvalidated(rqCall.addr)
     /\ rqTable' = [rqTable EXCEPT ![rqCall.addr] = 0]
     /\ IF again
          THEN /\ rqCall' = [rqCall EXCEPT
                     !.pc = "connect", !.tried = tried, !.ch = 0, !.opaque = 0,
                     !.work = IF @ = "sendV2" THEN "sendV1" ELSE @,
                     !.addr = IF rqCall.work = "query" THEN RqNextAddr ELSE @]
               /\ UNCHANGED rqReply
          ELSE /\ rqCall' = [rqCall EXCEPT !.pc = "done", !.tried = tried]
               /\ rqReply' = "error"
     /\ UNCHANGED <<rqCursor, rqAsked, rqStored>>

\* Fault: any code of an answer counts as success.
RqAnswered_anyCode(code) ==
  /\ IF code = "unsupported" /\ rqCall.work = "sendV2"
       THEN /\ rqCall' = [rqCall EXCEPT !.pc = "connect", !.work = "sendV1", !.ch = 0, !.opaque = 0]
            /\ UNCHANGED rqReply
       ELSE rqCall' = [rqCall EXCEPT !.pc = "done"] /\ rqReply' = "ok"

(* An answer: an old broker does not know V2 and is asked again with V1;   *)
(* any other refusal ends the request.                                     *)
RqAnswered(code) ==
  /\ IF code = "unsupported" /\ rqCall.work = "sendV2"
       THEN /\ rqCall' = [rqCall EXCEPT !.pc = "connect", !.work = "sendV1", !.ch = 0, !.opaque = 0]
            /\ UNCHANGED rqReply
       ELSE /\ rqCall' = [rqCall EXCEPT !.pc = "done"]
            /\ rqReply' = IF code = "success" THEN "ok" ELSE "error"

RqReturn ==
  /\ rqCall.pc = "done" /\ rqCall' = RqIdle
  /\ UNCHANGED <<rqChannels, rqTable, rqCursor, rqAsked, rqStored, rqReply>>

(* resource/close and shutdown: every channel is shut down.                *)
RqClose ==
  /\ rqCall.pc = "idle" /\ \E a \in RqAddrs : rqTable[a] # 0
  /\ rqChannels' = [c \in DOMAIN rqChannels |->
                      IF rqTable[rqChannels[c].addr] = c THEN RqShut(rqChannels[c]) ELSE rqChannels[c]]
  /\ rqTable' = [a \in RqAddrs |-> 0]
  /\ UNCHANGED <<rqCall, rqCursor, rqAsked, rqStored, rqReply>>

-----------------------------------------------------------------------------
(* writer_loop: one queued frame, or Close, or a failing write.            *)
writer_loop(c) ==
  LET ch == rqChannels[c]
  IN /\ ch.writer /\ ch.out # <<>>
     /\ rqChannels' = [rqChannels EXCEPT ![c] =
          IF Head(ch.out).n # 0 /\ ch.open
            THEN [ch EXCEPT !.out = Tail(@), !.server = @ \cup {Head(ch.out)}]
            ELSE [ch EXCEPT !.out = <<>>, !.writer = FALSE, !.active = FALSE, !.open = FALSE]]
     /\ UNCHANGED <<rqTable, rqCall, rqCursor, rqAsked, rqStored, rqReply>>

(* reader_loop: an answer goes to the waiter of its opaque, if one waits;  *)
(* when the connection has ended the waiters are dropped.                  *)
reader_loop(c) ==
  LET ch == rqChannels[c]
      n == Head(ch.in).n
  IN /\ ch.reader /\ ch.in # <<>>
     /\ rqChannels' = [rqChannels EXCEPT ![c].in = Tail(@), ![c].waiting = @ \ {n}]
     /\ IF rqCall.pc = "wait" /\ rqCall.ch = c /\ rqCall.opaque = n /\ n \in ch.waiting
          THEN RqAnswered(Head(ch.in).code)
          ELSE UNCHANGED <<rqCall, rqReply>>
     /\ UNCHANGED <<rqTable, rqCursor, rqAsked, rqStored>>

RqReaderEnds(c) ==
  /\ rqChannels[c].reader /\ rqChannels[c].in = <<>> /\ ~rqChannels[c].open
  /\ rqChannels' = [rqChannels EXCEPT ![c].reader = FALSE, ![c].active = FALSE, ![c].waiting = {}]
  /\ UNCHANGED <<rqTable, rqCall, rqCursor, rqAsked, rqStored, rqReply>>

(* The servers: a request is handled, and answered or not; a message is    *)
(* stored whether or not its sender still waits.  Connections break.       *)
RqServes(c, f, code, answers) ==
  LET ch == rqChannels[c]
      stores == ch.addr = RqBroker /\ code = "success" /\ f.msg = rqAsked /\ rqStored < 2
  IN /\ rqChannels' = [rqChannels EXCEPT ![c].server = @ \ {f},
                         ![c].in = IF answers /\ ch.open THEN Append(@, [n |-> f.n, code |-> code]) ELSE @]
     /\ rqStored' = IF stores THEN rqStored + 1 ELSE rqStored
     /\ UNCHANGED <<rqTable, rqCall, rqCursor, rqAsked, rqReply>>

RqBreaks(c) ==
  /\ rqChannels[c].open
  /\ rqChannels' = [rqChannels EXCEPT ![c].open = FALSE, ![c].in = <<>>]
  /\ UNCHANGED <<rqTable, rqCall, rqCursor, rqAsked, rqStored, rqReply>>

RqCaller == \/ get_or_connect \/ RqRegister \/ RqHandOver \/ RqTooLarge \/ RqWaiterDropped
            \/ RqTimeout \/ RqFailed \/ RqReturn

RqNext ==
  \/ \E w \in {"query", "sendV2"} : RqStart(w)
  \/ RqCaller
  \/ RqClose
  \/ \E c \in DOMAIN rqChannels :
       writer_loop(c) \/ reader_loop(c) \/ RqReaderEnds(c) \/ RqBreaks(c)
  \/ \E c \in DOMAIN rqChannels, code \in RqCodes, answers \in BOOLEAN :
       \E f \in rqChannels[c].server : RqServes(c, f, code, answers)

RqFairness == WF_rqVars(RqCaller)

RqSpec == RqInit /\ [][RqNext]_rqVars /\ RqFairness

-----------------------------------------------------------------------------
(* A query fails only after every name server was tried, each once.        *)
RqTriesEveryServer ==
  rqCall.work = "query" /\ rqCall.pc = "failed" /\ rqReply' = "error" /\ rqReply = "none" =>
    rqCall'.tried = Range(RqNameservers) /\ rqCall.addr \notin rqCall.tried

(* A send that reports success stored its message: an answer is never      *)
(* taken for another request's, on a channel that was timed out, dropped   *)
(* and connected again.                                                    *)
RqAckedIsStored == rqReply = "ok" /\ rqCall.work \in {"sendV2", "sendV1"} => rqStored > 0

(* No waiter is forgotten: when no request is under way the pending tables *)
(* hold only the waiters of frames that could not be encoded (which stay   *)
(* until the channel is dropped).                                          *)
RqNothingPending ==
  rqCall.pc = "idle" =>
    \A c \in DOMAIN rqChannels : Cardinality(rqChannels[c].waiting) <= rqChannels[c].lost

(* Every request of the host is answered, although a waiter registered     *)
(* after the reader has emptied the table is woken by nobody.              *)
RqEveryCallEnds == (rqCall.pc # "idle") ~> (rqCall.pc = "idle")
=============================================================================
