------------------------------ MODULE VncWriter -------------------------------
(***************************************************************************)
(* The mailbox between threads: any number of senders on one side, the     *)
(* writer thread of the helper on the other, and the condition variable    *)
(* that connects them.  A sender changes the mailbox under the mutex and   *)
(* notifies only after it has unlocked, so the two are separate steps; the *)
(* writer looks under the mutex and, when there is nothing, goes to sleep  *)
(* in the same atomic step (Condvar::wait).                                *)
(*                                                                         *)
(* The senders are the most general client of the mailbox: they send any   *)
(* output in any order.  VncSession restricts them to what the session     *)
(* thread really sends.                                                    *)
(***************************************************************************)
EXTENDS VncMailbox

CONSTANTS
    Senders,    \* threads that may own an OutputSender
    FirstSender,
    Outputs,    \* what they may send
    MaxSends    \* bound: how many outputs are sent in total

ASSUME FirstSenderAssumption == FirstSender \in Senders
ASSUME OutputsAssumption == Outputs \subseteq Frames \cup Deltas \cup Controls
ASSUME MaxSendsAssumption == MaxSends \in Nat

VARIABLES
    tx,         \* per sender: where it is
    rx,         \* where the writer thread is
    hand,       \* the output the writer took and has not yet written
    sends,      \* how many outputs have been sent
    delivered   \* history: the reliable controls taken out of the mailbox, in order

vars == <<mailboxVars, tx, rx, hand, sends, delivered>>

TxStates == {"unborn", "idle", "notify", "notify_last", "gone"}
RxStates == {"running", "waiting", "stopped", "failed"}

Init ==
    /\ output_mailbox
    /\ tx = [s \in Senders |-> IF s = FirstSender THEN "idle" ELSE "unborn"]
    /\ rx = "running"
    /\ hand = None
    /\ sends = 0
    /\ delivered = <<>>

-------------------------------------------------------------------------------
\* OutputSender::send, up to the unlock.
Send(s, output) ==
    /\ tx[s] = "idle"
    /\ sends < MaxSends
    /\ send(output)
    /\ sends' = sends + 1
    /\ tx' = [tx EXCEPT ![s] = IF receiver_alive THEN "notify" ELSE "idle"]
    /\ UNCHANGED <<rx, hand, delivered>>

\* OutputSender::begin_generation, up to the unlock.
BeginGeneration(s) ==
    /\ tx[s] = "idle"
    /\ begin_generation
    /\ tx' = [tx EXCEPT ![s] = "notify"]
    /\ UNCHANGED <<rx, hand, sends, delivered>>

Clone(s, r) ==
    /\ tx[s] = "idle"
    /\ tx[r] = "unborn"
    /\ clone_sender
    /\ tx' = [tx EXCEPT ![r] = "idle"]
    /\ UNCHANGED <<rx, hand, sends, delivered>>

\* Fault: the last sender leaves without notify_all.
Drop_silently(s) ==
    /\ tx[s] = "idle"
    /\ drop_sender
    /\ tx' = [tx EXCEPT ![s] = "gone"]
    /\ UNCHANGED <<rx, hand, sends, delivered>>

\* Drop for OutputSender, up to the unlock: only the last one notifies.
Drop(s) ==
    /\ tx[s] = "idle"
    /\ drop_sender
    /\ tx' = [tx EXCEPT ![s] = IF sender_count' = 0 THEN "notify_last" ELSE "gone"]
    /\ UNCHANGED <<rx, hand, sends, delivered>>

\* notify_one or notify_all after the unlock; the writer is the only waiter.
Notify(s) ==
    /\ tx[s] \in {"notify", "notify_last"}
    /\ tx' = [tx EXCEPT ![s] = IF tx[s] = "notify" THEN "idle" ELSE "gone"]
    /\ rx' = IF rx = "waiting" THEN "running" ELSE rx
    /\ UNCHANGED <<mailboxVars, hand, sends, delivered>>

-------------------------------------------------------------------------------
\* One pass of the loop in recv that finds something to return.
Recv ==
    /\ rx = "running"
    /\ hand = None
    /\ recv_output
    /\ hand' = NextOutput
    /\ delivered' = IF NextOutput \in Controls \ SessionScoped
                    THEN Append(delivered, NextOutput) ELSE delivered
    /\ UNCHANGED <<tx, rx, sends>>

\* One pass that finds nothing: release the mutex and sleep, atomically.
Wait ==
    /\ rx = "running"
    /\ hand = None
    /\ ~Deliverable
    /\ sender_count > 0
    /\ rx' = "waiting"
    /\ UNCHANGED <<mailboxVars, tx, hand, sends, delivered>>

\* Condvar::wait may return without a notification.
SpuriousWakeup ==
    /\ rx = "waiting"
    /\ rx' = "running"
    /\ UNCHANGED <<mailboxVars, tx, hand, sends, delivered>>

\* recv returns None: the writer thread returns and drops the receiver.
Stop ==
    /\ rx = "running"
    /\ hand = None
    /\ recv_closed
    /\ rx' = "stopped"
    /\ drop_receiver
    /\ UNCHANGED <<tx, hand, sends, delivered>>

\* write_event succeeds.
Write ==
    /\ rx = "running"
    /\ hand # None
    /\ hand' = None
    /\ UNCHANGED <<mailboxVars, tx, rx, sends, delivered>>

\* write_event fails: the thread returns its error and drops the receiver.
WriteFails ==
    /\ rx = "running"
    /\ hand # None
    /\ hand' = None
    /\ rx' = "failed"
    /\ drop_receiver
    /\ UNCHANGED <<tx, sends, delivered>>

SenderStep(s) ==
    \/ \E output \in Outputs : Send(s, output)
    \/ BeginGeneration(s)
    \/ \E r \in Senders : Clone(s, r)
    \/ Drop(s)
    \/ Notify(s)

WriterStep == Recv \/ Wait \/ SpuriousWakeup \/ Stop \/ Write \/ WriteFails

Next == (\E s \in Senders : SenderStep(s)) \/ WriterStep

\* A sender that has unlocked the mutex reaches its notify; the writer thread
\* runs, and a write to stdout returns.  Nothing obliges a sender to send.
Fairness ==
    /\ \A s \in Senders : WF_vars(Notify(s))
    /\ WF_vars(Recv)
    /\ WF_vars(Wait \/ Stop)
    /\ WF_vars(Write \/ WriteFails)

Spec == Init /\ [][Next]_vars /\ Fairness

-------------------------------------------------------------------------------
(* Properties *)

\* Every variable of the mailbox and of its threads has its type.
TypeOK ==
    /\ MailboxTypeOK
    /\ tx \in [Senders -> TxStates]
    /\ rx \in RxStates
    /\ hand \in Frames \cup Deltas \cup Controls \cup {None}
    /\ sends \in 0..MaxSends
    /\ delivered \in Seq(Controls \ SessionScoped)

\* A closed mailbox holds nothing of the session that ended: close_session_outputs
\* empties the frame slot, the delta slot and the queue's session-scoped controls,
\* and no later send puts one back until Connected reopens it.
ClosedMailboxIsEmpty ==
    ~accepting_session_outputs =>
        /\ latest_frame = None
        /\ latest_delta = None
        /\ \A i \in 1..Len(control) : control[i] \notin SessionScoped

\* No lost wakeup: the writer never sleeps in recv while an output, or the end of
\* the last sender, waits for it, unless a sender is on its way to the notify that
\* follows its unlock.
NoLostWakeup ==
    rx = "waiting" /\ (Deliverable \/ sender_count = 0) =>
        \E s \in Senders : tx[s] \in {"notify", "notify_last"}

\* sender_count is the number of senders that are alive, so it reaches 0 with the
\* last drop and not before; the writer stops only then, with nothing left to write.
StopsOnlyWhenDrained ==
    /\ sender_count = Cardinality({s \in Senders : tx[s] \in {"idle", "notify"}})
    /\ rx = "stopped" => sender_count = 0 /\ ~Deliverable

\* The mailbox and its condition variable: no wakeup is lost, the writer stops when
\* it should and not before, and a closed mailbox holds nothing of its session.
WriterSafe == TypeOK /\ ClosedMailboxIsEmpty /\ NoLostWakeup /\ StopsOnlyWhenDrained

\* Dropping the last sender lets the writer exit: it wakes, drains and returns.
WriterTerminates ==
    (\A s \in Senders : tx[s] \in {"unborn", "notify_last", "gone"})
        ~> rx \in {"stopped", "failed"}

\* Seen through its reliable controls only, the mailbox with its writer is a
\* reliable FIFO channel, whatever frames, cursors and barriers do around them.
Reliable == INSTANCE ReliableChannel WITH
    Messages <- Controls \ SessionScoped,
    queue <- Without(control, SessionScoped),
    delivered <- delivered,
    open <- receiver_alive

ControlsAreReliable == Reliable!Spec
===============================================================================
