------------------------------- MODULE MCCalls --------------------------------
(***************************************************************************)
(* Calls that somebody waits for: a terminal in a container, a call from a *)
(* provider back to the host, a request to an MQTT connection, a RocketMQ  *)
(* request, an RDP input.  They share no state, so the run explores one of *)
(* them at a time: `part' says which, the others stay where they start.    *)
(***************************************************************************)
EXTENDS DockerExec, HostCalls, MqttSession, RocketmqRemoting, RdpInput

CONSTANT Parts

VARIABLE part

vars == <<part, exVars, hcVars, mqVars, rqVars, inVars>>

\* A terminal that could not be started.
ExecEnded ==
    /\ exPc = "done" /\ exResult = 1 /\ exHeld = <<>>
    /\ exRead = 0 /\ exReader = FALSE /\ exChan = <<>> /\ exShut = FALSE
    /\ exIn = <<>> /\ exOut = <<>> /\ exInEnd = "open"
    /\ exProgram = "echo" /\ exTook = 0 /\ exGot = <<>> /\ exCode = -1 /\ exFilled = FALSE
    /\ exStdout = <<>> /\ exTries = 0
    /\ exWindow = [local |-> 1, remote |-> 0, signal |-> FALSE, watched |-> FALSE, early |-> FALSE]

\* None of the parts that stay where they start has a fair action to take there.
Init ==
    /\ part \in Parts
    /\ HcInit /\ MqInit /\ RqInit /\ InInit
    /\ IF part = "exec" THEN ExInit ELSE ExecEnded
    /\ part # "socket" => hcWho = "es"

\* The other parts rest.
Resting ==
    /\ IF part = "exec" THEN TRUE ELSE UNCHANGED exVars
    /\ IF part = "socket" THEN TRUE ELSE UNCHANGED hcVars
    /\ IF part = "session" THEN TRUE ELSE UNCHANGED mqVars
    /\ IF part = "remoting" THEN TRUE ELSE UNCHANGED rqVars
    /\ IF part = "input" THEN TRUE ELSE UNCHANGED inVars

Next ==
    /\ UNCHANGED part /\ Resting
    /\ \/ part = "exec" /\ ExNext
       \/ part = "socket" /\ HcNext
       \/ part = "session" /\ MqNext
       \/ part = "remoting" /\ RqNext
       \/ part = "input" /\ InNext

Spec ==
    Init /\ [][Next]_vars /\ ExFairness /\ HcFairness /\ MqFairness /\ RqFairness /\ InFairness
-------------------------------------------------------------------------------
(* Properties *)

(* What the waiting calls hand over: the terminal's stream is in order and *)
(* its exit code true, a call back to the host gets the answer to that     *)
(* very call and no request is lost or overtaken meanwhile, a subscription *)
(* of the table reaches the broker through reconnects, a RocketMQ send     *)
(* that reports success stored its message and no waiter is forgotten, and *)
(* an RDP button lands where the pointer was.                              *)
CallsSafe ==
    /\ [](/\ ExTypeOK /\ ExStreamInOrder /\ ExEofAfterInput /\ ExExitCodeTrue /\ ExNoLostResize
          /\ HcTypeOK /\ HcOwnAnswer /\ HcRequestsKept /\ HcAnsweredInOrder
          /\ MqTypeOK /\ MqTableReachesBroker
          /\ RqTypeOK /\ RqAckedIsStored /\ RqNothingPending
          /\ RdpInputSafe)
    /\ [][RqTriesEveryServer]_vars

(* Nobody waits for ever: the terminal ends with its input, every request  *)
(* of the host is answered, a handler of an MQTT connection returns, every *)
(* RocketMQ call ends although some waiters are woken by nobody, and every *)
(* RDP input is taken.                                                     *)
EveryCallEnds ==
    /\ ExReturns
    /\ HcEveryRequestAnswered
    /\ MqHandlerReturns
    /\ RqEveryCallEnds
    /\ EveryInputIsTaken
-------------------------------------------------------------------------------
(* The instance *)

\* More than the providers have room for: one frame with es and rocketmq, three with mqtt.
MCWindow == [es |-> 2, rocketmq |-> 2, mqtt |-> 3]
MCNotices == [es |-> 1, rocketmq |-> 1, mqtt |-> 1]
MCNameservers == <<"n1", "n2">>
===============================================================================
