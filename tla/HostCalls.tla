------------------------------ MODULE HostCalls -------------------------------
(***************************************************************************)
(* The socket that a provider shares with the host.  The host sends        *)
(* requests and notifications; a provider that handles a request may ask   *)
(* the host back (a secret, a stored value) and then reads the same socket *)
(* for the answer.  Elasticsearch and RocketMQ take the next frame for the *)
(* answer; MQTT looks for the answer's id and defers every other frame.    *)
(***************************************************************************)
EXTENDS Naturals, Sequences, SequencesExt, FiniteSets

CONSTANTS
    HcProviders,    \* the providers of the instance: "es", "rocketmq", "mqtt"
    HcRequests,     \* number of requests the host sends in a session
    HcWindow,       \* provider -> requests the host may have outstanding
    HcNotices,      \* provider -> notifications ($/cancelRequest) the host may send
    HcMaxDeferred   \* MAX_DEFERRED_FRAMES

ASSUME HcAssumption ==
    /\ HcProviders \subseteq {"es", "rocketmq", "mqtt"}
    /\ HcRequests \in Nat /\ HcMaxDeferred \in Nat
    /\ \A p \in HcProviders : HcWindow[p] \in Nat /\ HcNotices[p] \in Nat

VARIABLES
    hcWho,      \* the provider of this behaviour
    hcSent,     \* requests sent so far; they are numbered
    hcNoted,    \* notifications sent so far
    hcWire,     \* frames on their way to the provider
    hcAsks,     \* ids of the provider's calls the host has not answered
    hcNextId,   \* next_reverse_request_id
    hcDeferred, \* frames put aside (MQTT)
    hcNow,      \* the request in hand: {} or {[req, calls, id]}; id 0: no call is out
    hcReplies,  \* the requests answered, in order
    hcMixed,    \* some call has returned the answer to another
    hcOrderly   \* the host never had more frames waiting than the provider has room for

hcVars == <<hcWho, hcSent, hcNoted, hcWire, hcAsks, hcNextId, hcDeferred, hcNow, hcReplies, hcMixed,
            hcOrderly>>

\* The calls back to the host a request may need.  An open resolves a secret; with MQTT it
\* also loads the stored profile, saves it and reads it back, as a change of the
\* subscriptions does.
HcCallsOf(who) ==
    IF who = "mqtt"
    THEN {<<>>, <<"set", "back">>, <<"get", "set", "back">>, <<"secret", "get", "set", "back">>}
    ELSE {<<>>, <<"secret">>}

HcRequest(n) == [t |-> "request", req |-> n, id |-> 0, ok |-> TRUE]
HcNotice == [t |-> "notice", req |-> 0, id |-> 0, ok |-> TRUE]
\* not ok: an error, neither a result nor an error, or a result of another shape.
HcAnswer(id, ok) == [t |-> "answer", req |-> 0, id |-> id, ok |-> ok]

\* Frames the host may have waiting behind one another: the one in hand, and those MQTT defers.
HcRoom(who) == IF who = "mqtt" THEN HcMaxDeferred + 1 ELSE 1

HcWaiting ==
    Cardinality(hcNow) + Len(hcDeferred) + Len(SelectSeq(hcWire, LAMBDA f : f.t # "answer"))

HcTypeOK ==
    /\ hcSent \in 0..HcRequests
    /\ Len(hcDeferred) <= HcMaxDeferred
    /\ Cardinality(hcNow) <= 1
    /\ \A now \in hcNow : now.req \in 1..hcSent /\ Len(now.calls) <= 4 /\ now.id \in 0..(hcNextId - 1)
    /\ \A id \in hcAsks : id < hcNextId

HcInit ==
    /\ hcWho \in HcProviders
    /\ hcSent = 0 /\ hcNoted = 0
    /\ hcWire = << >> /\ hcDeferred = << >>
    /\ hcAsks = {} /\ hcNextId = 1
    /\ hcNow = {}
    /\ hcReplies = << >>
    /\ hcMixed = FALSE
    /\ hcOrderly = TRUE
-------------------------------------------------------------------------------
(* The host *)

HcHostSends ==
    /\ hcSent < HcRequests
    /\ hcSent - Len(hcReplies) < HcWindow[hcWho]
    /\ hcSent' = hcSent + 1
    /\ hcWire' = Append(hcWire, HcRequest(hcSent + 1))
    /\ hcOrderly' = (hcOrderly /\ HcWaiting < HcRoom(hcWho))
    /\ UNCHANGED <<hcWho, hcNoted, hcAsks, hcNextId, hcDeferred, hcNow, hcReplies, hcMixed>>

HcHostNotifies ==
    /\ hcNoted < HcNotices[hcWho]
    /\ hcSent > Len(hcReplies)
    /\ hcNoted' = hcNoted + 1
    /\ hcWire' = Append(hcWire, HcNotice)
    /\ hcOrderly' = (hcOrderly /\ HcWaiting < HcRoom(hcWho))
    /\ UNCHANGED <<hcWho, hcSent, hcAsks, hcNextId, hcDeferred, hcNow, hcReplies, hcMixed>>

\* The host serves calls of the provider independently of its own requests.
HcHostAnswers(id) ==
    /\ id \in hcAsks
    /\ hcAsks' = hcAsks \ {id}
    /\ \E ok \in BOOLEAN : hcWire' = Append(hcWire, HcAnswer(id, ok))
    /\ UNCHANGED <<hcWho, hcSent, hcNoted, hcNextId, hcDeferred, hcNow, hcReplies, hcMixed, hcOrderly>>
-------------------------------------------------------------------------------
(* The provider *)

\* serve takes a request in hand; frames of any other kind are skipped.
HcTakes(frame) ==
    IF frame.t = "request"
    THEN \E calls \in HcCallsOf(hcWho) : hcNow' = {[req |-> frame.req, calls |-> calls, id |-> 0]}
    ELSE hcNow' = {}

HcServe ==
    /\ hcNow = {} /\ hcDeferred = << >> /\ hcWire # << >>
    /\ HcTakes(Head(hcWire))
    /\ hcWire' = Tail(hcWire)
    /\ UNCHANGED <<hcWho, hcSent, hcNoted, hcAsks, hcNextId, hcDeferred, hcReplies, hcMixed, hcOrderly>>

\* take_deferred comes before the socket (MQTT; the others defer nothing).
HcServeDeferred ==
    /\ hcNow = {} /\ hcDeferred # << >>
    /\ HcTakes(Head(hcDeferred))
    /\ hcDeferred' = Tail(hcDeferred)
    /\ UNCHANGED <<hcWho, hcSent, hcNoted, hcWire, hcAsks, hcNextId, hcReplies, hcMixed, hcOrderly>>

HcAsk ==
    \E now \in hcNow :
        /\ now.calls # <<>> /\ now.id = 0
        /\ hcAsks' = hcAsks \cup {hcNextId}
        /\ hcNow' = {[now EXCEPT !.id = hcNextId]}
        /\ hcNextId' = hcNextId + 1
        /\ UNCHANGED <<hcWho, hcSent, hcNoted, hcWire, hcDeferred, hcReplies, hcMixed, hcOrderly>>

\* The call gave the value of the answer with this id.
HcReturned(now, id) ==
    /\ hcNow' = {[now EXCEPT !.id = 0, !.calls = Tail(@)]}
    /\ hcMixed' = (hcMixed \/ now.id # id)
    /\ UNCHANGED <<hcReplies, hcDeferred>>

\* The call failed.  Without its secret the request fails; a profile that cannot be loaded
\* is an empty one, and one that cannot be saved is not read back.
HcFailed(now) ==
    /\ IF Head(now.calls) = "secret"
       THEN hcNow' = {} /\ hcReplies' = Append(hcReplies, now.req)
       ELSE /\ hcNow' = {[now EXCEPT !.id = 0, !.calls = IF Head(@) = "get" THEN Tail(@) ELSE <<>>]}
            /\ UNCHANGED hcReplies
    /\ UNCHANGED <<hcMixed, hcDeferred>>

\* resolve_secret of Elasticsearch and RocketMQ: the next frame is the answer, whatever its
\* id, or the call fails and the frame is gone.
resolve_secret ==
    \E now \in hcNow :
        /\ hcWho \in {"es", "rocketmq"}
        /\ now.id # 0 /\ hcWire # << >>
        /\ LET frame == Head(hcWire)
           IN  IF frame.t = "answer" /\ frame.ok THEN HcReturned(now, frame.id) ELSE HcFailed(now)
        /\ hcWire' = Tail(hcWire)
        /\ UNCHANGED <<hcWho, hcSent, hcNoted, hcAsks, hcNextId, hcOrderly>>

\* Fault: the next answer is taken whatever its id.
request_host_anyId ==
    \E now \in hcNow :
        /\ hcWho = "mqtt"
        /\ now.id # 0 /\ hcWire # << >>
        /\ LET frame == Head(hcWire)
               full == Len(hcDeferred) >= HcMaxDeferred
           IN  \/ frame.t = "answer" /\ frame.ok /\ HcReturned(now, frame.id)
               \/ frame.t = "answer" /\ ~frame.ok /\ HcFailed(now)
               \/ /\ frame.t # "answer" /\ ~full
                  /\ hcDeferred' = Append(hcDeferred, frame)
                  /\ UNCHANGED <<hcNow, hcReplies, hcMixed>>
               \/ frame.t # "answer" /\ full /\ HcFailed(now)
        /\ hcWire' = Tail(hcWire)
        /\ UNCHANGED <<hcWho, hcSent, hcNoted, hcAsks, hcNextId, hcOrderly>>

\* request_host of MQTT: an answer with another id is skipped, other frames are deferred
\* until there are too many, which fails the call and loses the frame at hand.
request_host ==
    \E now \in hcNow :
        /\ hcWho = "mqtt"
        /\ now.id # 0 /\ hcWire # << >>
        /\ LET frame == Head(hcWire)
               mine == frame.t = "answer" /\ frame.id = now.id
               full == Len(hcDeferred) >= HcMaxDeferred
           IN  \/ mine /\ frame.ok /\ HcReturned(now, frame.id)
               \/ mine /\ ~frame.ok /\ HcFailed(now)
               \/ /\ frame.t = "answer" /\ ~mine
                  /\ UNCHANGED <<hcNow, hcReplies, hcMixed, hcDeferred>>
               \/ /\ frame.t # "answer" /\ ~full
                  /\ hcDeferred' = Append(hcDeferred, frame)
                  /\ UNCHANGED <<hcNow, hcReplies, hcMixed>>
               \/ frame.t # "answer" /\ full /\ HcFailed(now)
        /\ hcWire' = Tail(hcWire)
        /\ UNCHANGED <<hcWho, hcSent, hcNoted, hcAsks, hcNextId, hcOrderly>>

\* The handler returns and serve sends its answer.  It may fail on its own account between
\* its calls, until it has begun to save a profile.
HcReply ==
    \E now \in hcNow, ok \in BOOLEAN :
        /\ now.id = 0
        /\ IF ok THEN now.calls = <<>> ELSE now.calls # <<"back">>
        /\ hcReplies' = Append(hcReplies, now.req)
        /\ hcNow' = {}
        /\ UNCHANGED <<hcWho, hcSent, hcNoted, hcWire, hcAsks, hcNextId, hcDeferred, hcMixed, hcOrderly>>

HcProvider == HcServe \/ HcServeDeferred \/ HcAsk \/ resolve_secret \/ request_host \/ HcReply

HcNext ==
    \/ HcHostSends
    \/ HcHostNotifies
    \/ \E id \in hcAsks : HcHostAnswers(id)
    \/ HcServe \/ HcServeDeferred \/ HcAsk \/ resolve_secret \/ request_host \/ HcReply

HcFairness ==
    /\ WF_hcVars(HcProvider)
    /\ WF_hcVars(\E id \in hcAsks : HcHostAnswers(id))

HcSpec == HcInit /\ [][HcNext]_hcVars /\ HcFairness
-------------------------------------------------------------------------------
(* Properties *)

HcHeld(n) ==
    \/ HcRequest(n) \in ToSet(hcWire) \cup ToSet(hcDeferred)
    \/ \E now \in hcNow : now.req = n

(* A call back to the host returns the answer to that very call: the       *)
(* secret of one connection is never used to open another.  With MQTT this *)
(* is so whatever else arrives, late answers to calls given up included;   *)
(* Elasticsearch and RocketMQ do not look at the id, so there it is so     *)
(* while the host sends nothing before a request is answered.              *)
HcOwnAnswer == hcWho = "mqtt" \/ hcOrderly => ~hcMixed

(* No request of the host is lost while the provider waits for the host:   *)
(* each one sent is still on its way, put aside, in hand, or answered.     *)
(* MQTT keeps as many as it may defer; Elasticsearch and RocketMQ keep     *)
(* none: a request that arrives during a call is taken for its answer.     *)
HcRequestsKept ==
    hcOrderly =>
        \A n \in 1..hcSent : HcHeld(n) \/ n \in ToSet(hcReplies)

(* Requests are answered once each and in the order in which the host sent *)
(* them, although some were put aside while older ones waited and others   *)
(* were lost.                                                              *)
HcAnsweredInOrder ==
    \A k \in 2..Len(hcReplies) : hcReplies[k - 1] < hcReplies[k]

(* Host and provider never wait for each other: no request stays where it  *)
(* is, on the socket, put aside or in hand, if the host answers the calls  *)
(* it gets, not even when frames or answers went astray before.            *)
HcEveryRequestAnswered == \A n \in 1..HcRequests : HcHeld(n) ~> ~HcHeld(n)
===============================================================================
