--------------------------- MODULE ReliableChannel ---------------------------
(***************************************************************************)
(* What the output mailboxes of the VNC and the RDP helper promise for the *)
(* outputs that must never be lost or reordered (Connected, Reconnecting,  *)
(* ConnectionFailure, Terminated, ...): a FIFO channel whose messages are  *)
(* all delivered, in the order they were sent, for as long as the receiver *)
(* lives.                                                                  *)
(***************************************************************************)
EXTENDS Sequences

CONSTANT Messages

VARIABLES
    queue,      \* sent and not yet received
    delivered,  \* received, in order
    open        \* the receiver is alive

channelVars == <<queue, delivered, open>>

Init == queue = <<>> /\ delivered = <<>> /\ open = TRUE

Send(m) ==
    /\ open
    /\ queue' = Append(queue, m)
    /\ UNCHANGED <<delivered, open>>

Receive ==
    /\ queue # <<>>
    /\ delivered' = Append(delivered, Head(queue))
    /\ queue' = Tail(queue)
    /\ UNCHANGED open

\* Whatever waits is lost with the receiver, and nothing is received any more.
Close ==
    /\ open
    /\ open' = FALSE
    /\ queue' = <<>>
    /\ UNCHANGED delivered

Next == (\E m \in Messages : Send(m)) \/ Receive \/ Close

Spec == Init /\ [][Next]_channelVars /\ WF_channelVars(Receive)
===============================================================================
