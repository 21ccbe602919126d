--------------------------- MODULE VncMailboxProofs ---------------------------
(***************************************************************************)
(* What the operations of the VNC output mailbox keep and do, for every    *)
(* set of screens, texts and delays: the facts that the proofs about the   *)
(* writer thread and about the session share.                              *)
(***************************************************************************)
EXTENDS VncMailbox, RetainProofs

\* Whatever may be sent through the mailbox.
AnyOutput == Frames \cup Deltas \cup Controls

-------------------------------------------------------------------------------
(* The mailbox operations keep the mailbox well typed. *)

LEMMA EnqueueType ==
    ASSUME NEW queue \in Seq(Controls), NEW output \in Controls
    PROVE  enqueue_control(queue, output) \in Seq(Controls)
<1>1. Append(queue, output) \in Seq(Controls)
  BY AppendProperties
<1>2. ASSUME queue # <<>>
      PROVE  [queue EXCEPT ![Len(queue)] = output] \in Seq(Controls)
  <2>1. Len(queue) \in 1..Len(queue)
    BY <1>2, LenProperties, EmptySeq
  <2> QED
    BY <2>1, ExceptSeq
<1> QED
  BY <1>1, <1>2 DEF enqueue_control

LEMMA MergeType ==
    ASSUME NEW previous \in Deltas, NEW next \in Deltas
    PROVE  merge_deltas(previous, next) \in Deltas
<1>1. /\ previous.pix \in [Tiles -> Colors \cup {NoPixel}]
      /\ next.pix \in [Tiles -> Colors \cup {NoPixel}]
      /\ previous.bytes \in Nat
      /\ next.bytes \in Nat
  BY DEF Deltas
<1>2. Overlay(next.pix, previous.pix) \in [Tiles -> Colors \cup {NoPixel}]
  BY <1>1 DEF Overlay
<1>3. previous.bytes + next.bytes \in Nat
  BY <1>1
<1> QED
  BY <1>2, <1>3 DEF merge_deltas, Deltas

LEMMA DiscardType ==
    ASSUME control \in Seq(Controls)
    PROVE  discard_pending_session_controls \in Seq(Controls)
<1>1. Without(control, SessionScoped) \in Seq(Controls \ SessionScoped)
  BY WithoutProperties
<1>2. Controls \ SessionScoped \subseteq Controls
  OBVIOUS
<1>3. Seq(Controls \ SessionScoped) \subseteq Seq(Controls)
  BY <1>2, SeqMonotonic
<1> QED
  BY <1>1, <1>3 DEF discard_pending_session_controls

LEMMA SendType ==
    ASSUME MailboxTypeOK, NEW output \in AnyOutput, send(output)
    PROVE  MailboxTypeOK'
<1> USE DEF MailboxTypeOK
<1>1. CASE SendBarrier(output)
  <2>1. output \in Controls
    BY <1>1 DEF SendBarrier, AnyOutput, Frames, Deltas
  <2>2. Append(discard_pending_session_controls, output) \in Seq(Controls)
    BY <2>1, DiscardType, AppendProperties
  <2> QED
    BY <1>1, <2>2 DEF send, SendBarrier, close_session_outputs
<1>2. CASE SendConnected(output)
  <2>1. output \in Controls
    BY <1>2 DEF SendConnected, AnyOutput, Frames, Deltas
  <2> QED
    BY <1>2, <2>1, AppendProperties DEF send, SendConnected
<1>3. CASE SendFrame(output)
  <2>1. output \in Frames
    BY <1>3 DEF SendFrame, AnyOutput, Deltas, Controls, Connecteds, Reconnectings,
                Terminals, Statuses, SessionScoped
  <2> QED
    BY <1>3, <2>1 DEF send, SendFrame
<1>4. CASE SendDelta(output)
  <2>1. output \in Deltas
    BY <1>4 DEF SendDelta, AnyOutput, Frames, Controls, Connecteds, Reconnectings,
                Terminals, Statuses, SessionScoped
  <2> QED
    BY <1>4, <2>1, MergeType DEF send, SendDelta
<1>5. CASE SendDropped(output)
  BY <1>5 DEF send, SendDropped
<1>6. CASE SendControl(output)
  <2>1. output \in Controls
    BY <1>6 DEF SendControl, AnyOutput, Frames, Deltas, Controls
  <2> QED
    BY <1>6, <2>1, EnqueueType DEF send, SendControl
<1>7. CASE ~receiver_alive /\ UNCHANGED <<control, latest_frame, latest_delta,
                                          accepting_session_outputs>>
  BY <1>7 DEF send
<1> QED
  BY <1>1, <1>2, <1>3, <1>4, <1>5, <1>6, <1>7 DEF send

LEMMA OtherOperationsType ==
    ASSUME MailboxTypeOK,
           begin_generation \/ clone_sender \/ drop_sender \/ recv_output
               \/ drop_receiver \/ UNCHANGED mailboxVars
    PROVE  MailboxTypeOK'
<1> USE DEF MailboxTypeOK
<1>1. CASE begin_generation
  BY <1>1, DiscardType DEF begin_generation, close_session_outputs
<1>2. CASE drop_sender
  BY <1>2 DEF drop_sender
<1>3. CASE recv_output
  <2>1. control # <<>> => Tail(control) \in Seq(Controls)
    BY HeadTailProperties
  <2> QED
    BY <1>3, <2>1 DEF recv_output
<1>4. CASE drop_receiver
  BY <1>4, EmptySeq DEF drop_receiver
<1>5. CASE UNCHANGED mailboxVars
  BY <1>5 DEF mailboxVars
<1>6. CASE clone_sender
  BY <1>6 DEF clone_sender
<1> QED
  BY <1>1, <1>2, <1>3, <1>4, <1>5, <1>6

LEMMA NextOutputType ==
    ASSUME MailboxTypeOK, Deliverable
    PROVE  NextOutput \in AnyOutput
<1>1. control # <<>> => Head(control) \in Controls
  BY HeadTailProperties DEF MailboxTypeOK
<1> QED
  BY <1>1 DEF MailboxTypeOK, Deliverable, NextOutput, AnyOutput

-------------------------------------------------------------------------------
(* Some of the controls, seen alone: those outside D, where D has at least the   *)
(* session-scoped ones.  They go through the mailbox in the order they are sent. *)

LEMMA KindsOfControls ==
    /\ \A c \in Controls : c.kind \in {"CursorPosition", "CursorBitmap"} => c \in SessionScoped
    /\ \A c \in SessionScoped : c.kind \in {"ClipboardText", "CursorDefault", "CursorHidden",
                                            "CursorPosition", "CursorBitmap"}
    /\ \A c \in Frames \cup Deltas : c \notin Controls
<1>1. \A c \in Controls : c.kind \in {"CursorPosition", "CursorBitmap"} => c \in SessionScoped
  BY DEF Controls, Connecteds, Reconnectings, Terminals, Statuses, SessionScoped
<1>2. \A c \in SessionScoped : c.kind \in {"ClipboardText", "CursorDefault", "CursorHidden",
                                           "CursorPosition", "CursorBitmap"}
  BY DEF SessionScoped
<1>3. \A c \in Frames \cup Deltas : c \notin Controls
  BY DEF Frames, Deltas, Controls, Connecteds, Reconnectings, Terminals, Statuses,
         SessionScoped
<1> QED
  BY <1>1, <1>2, <1>3

\* enqueue_control adds a control outside D at the end, and one in D, collapsed with
\* the last entry or not, leaves those outside D as they are.
LEMMA EnqueueThrough ==
    ASSUME NEW queue \in Seq(Controls), NEW output \in Controls,
           NEW D, SessionScoped \subseteq D
    PROVE  Without(enqueue_control(queue, output), D)
             = IF output \in D THEN Without(queue, D) ELSE Append(Without(queue, D), output)
<1> DEFINE Collapse == /\ queue # <<>>
                       /\ output.kind \in {"CursorPosition", "CursorBitmap"}
                       /\ queue[Len(queue)].kind = output.kind
<1>1. CASE ~Collapse
  <2>1. enqueue_control(queue, output) = Append(queue, output)
    BY <1>1 DEF enqueue_control
  <2>2. CASE output \in D
    BY <2>1, <2>2, WithoutAppendDropped
  <2>3. CASE output \notin D
    BY <2>1, <2>3, WithoutAppendKept
  <2> QED
    BY <2>2, <2>3
<1>2. CASE Collapse
  <2> DEFINE n == Len(queue)
             r == [queue EXCEPT ![n] = output]
  <2>1. n \in Nat /\ n \in 1..n
    BY <1>2, LenProperties, EmptySeq
  <2>2. queue[n] \in D /\ output \in D
    <3>1. queue[n] \in Controls
      BY <2>1, ElementOfSeq
    <3>2. queue[n].kind \in {"CursorPosition", "CursorBitmap"}
      BY <1>2
    <3> QED
      BY <1>2, <3>1, <3>2, KindsOfControls
  <2>3. /\ r \in Seq(Controls) /\ Len(r) = n
        /\ \A i \in 1..n : r[i] = IF i = n THEN output ELSE queue[i]
    BY <2>1, ExceptSeq
  <2> HIDE DEF r
  <2>4. \A i \in 1..n : queue[i] = r[i] \/ (queue[i] \in D /\ r[i] \in D)
    BY <2>2, <2>3
  <2>5. Without(r, D) = Without(queue, D)
    BY <2>3, <2>4, WithoutSame
  <2>6. enqueue_control(queue, output) = r
    BY <1>2 DEF enqueue_control, r
  <2> QED
    BY <2>2, <2>5, <2>6
<1> QED
  BY <1>1, <1>2

\* A send puts its control at the end of those outside D, if it is one.
LEMMA SendThrough ==
    ASSUME MailboxTypeOK, NEW output \in AnyOutput, send(output),
           NEW D, SessionScoped \subseteq D
    PROVE  Without(control', D) = IF receiver_alive /\ output \in Controls \ D
                                  THEN Append(Without(control, D), output)
                                  ELSE Without(control, D)
<1>t. control \in Seq(Controls)
  BY DEF MailboxTypeOK
<1>1. CASE receiver_alive /\ SendBarrier(output)
  <2>1. output \in Controls
    BY <1>1 DEF SendBarrier, AnyOutput, Frames, Deltas
  <2>2. discard_pending_session_controls \in Seq(Controls)
    BY <1>t, DiscardType
  <2>3. Without(discard_pending_session_controls, D) = Without(control, D)
    BY <1>t, WithoutPart DEF discard_pending_session_controls
  <2>4. control' = Append(discard_pending_session_controls, output)
    BY <1>1 DEF SendBarrier, close_session_outputs
  <2>5. CASE output \in D
    <3>1. Without(control', D) = Without(control, D)
      BY <2>1, <2>2, <2>3, <2>4, <2>5, WithoutAppendDropped
    <3> QED
      BY <2>5, <3>1
  <2>6. CASE output \notin D
    <3>1. Without(control', D) = Append(Without(control, D), output)
      BY <2>1, <2>2, <2>3, <2>4, <2>6, WithoutAppendKept
    <3> QED
      BY <1>1, <2>1, <2>6, <3>1
  <2> QED
    BY <2>5, <2>6
<1>2. CASE receiver_alive /\ SendConnected(output)
  <2>1. output \in Controls
    BY <1>2 DEF SendConnected, AnyOutput, Frames, Deltas
  <2>2. control' = Append(control, output)
    BY <1>2 DEF SendConnected
  <2>3. CASE output \in D
    <3>1. Without(control', D) = Without(control, D)
      BY <1>t, <2>1, <2>2, <2>3, WithoutAppendDropped
    <3> QED
      BY <2>3, <3>1
  <2>4. CASE output \notin D
    <3>1. Without(control', D) = Append(Without(control, D), output)
      BY <1>t, <2>1, <2>2, <2>4, WithoutAppendKept
    <3> QED
      BY <1>2, <2>1, <2>4, <3>1
  <2> QED
    BY <2>3, <2>4
<1>3. CASE receiver_alive /\ SendControl(output)
  <2>1. output \in Controls
    BY <1>3 DEF SendControl, AnyOutput, Frames, Deltas, Controls
  <2>2. control' = enqueue_control(control, output)
    BY <1>3 DEF SendControl
  <2>3. Without(control', D) = IF output \in D THEN Without(control, D)
                               ELSE Append(Without(control, D), output)
    BY <1>t, <2>1, <2>2, EnqueueThrough
  <2> QED
    BY <1>3, <2>1, <2>3
<1>4. CASE receiver_alive /\ (SendFrame(output) \/ SendDelta(output) \/ SendDropped(output))
  <2>1. control' = control
    BY <1>4 DEF SendFrame, SendDelta, SendDropped
  <2>2. output \notin Controls \ D
    <3>1. output.kind \in {"Frame", "FrameBgraRects"} => output \notin Controls
      BY DEF Controls, Connecteds, Reconnectings, Terminals, Statuses, SessionScoped
    <3> QED
      BY <1>4, <3>1 DEF SendFrame, SendDelta, SendDropped
  <2> QED
    BY <2>1, <2>2
<1>5. CASE ~receiver_alive /\ control' = control
  BY <1>5
<1> QED
  BY <1>1, <1>2, <1>3, <1>4, <1>5 DEF send

\* The other operations of the senders leave the controls outside D alone.
LEMMA SendersThrough ==
    ASSUME MailboxTypeOK,
           begin_generation \/ clone_sender \/ drop_sender \/ UNCHANGED mailboxVars,
           NEW D, SessionScoped \subseteq D
    PROVE  Without(control', D) = Without(control, D)
<1>1. CASE begin_generation
  <2>1. control' = Without(control, SessionScoped)
    BY <1>1 DEF begin_generation, close_session_outputs, discard_pending_session_controls
  <2>2. control \in Seq(Controls)
    BY DEF MailboxTypeOK
  <2> QED
    BY <2>1, <2>2, WithoutPart
<1>2. CASE control' = control
  BY <1>2
<1> QED
  BY <1>1, <1>2 DEF clone_sender, drop_sender, mailboxVars

\* recv takes the first control outside D, or something that is none.
LEMMA RecvThrough ==
    ASSUME MailboxTypeOK, recv_output, NEW D
    PROVE  IF NextOutput \in Controls \ D
           THEN /\ Without(control, D) # <<>>
                /\ Head(Without(control, D)) = NextOutput
                /\ Without(control', D) = Tail(Without(control, D))
           ELSE Without(control', D) = Without(control, D)
<1>t. control \in Seq(Controls)
  BY DEF MailboxTypeOK
<1>1. CASE control = <<>>
  <2>1. control' = control
    BY <1>1 DEF recv_output
  <2>2. NextOutput \in Frames \cup Deltas
    BY <1>1 DEF MailboxTypeOK, recv_output, Deliverable, NextOutput
  <2>3. NextOutput \notin Controls
    BY <2>2, KindsOfControls
  <2> QED
    BY <2>1, <2>3
<1>2. CASE control # <<>>
  <2>1. control' = Tail(control) /\ NextOutput = Head(control) /\ Head(control) \in Controls
    BY <1>2, <1>t, HeadTailProperties DEF recv_output, NextOutput
  <2>2. CASE Head(control) \in D
    <3>1. Without(control', D) = Without(control, D)
      BY <1>2, <1>t, <2>1, <2>2, WithoutTailDropped
    <3> QED
      BY <2>1, <2>2, <3>1
  <2>3. CASE Head(control) \notin D
    <3>1. /\ Without(control, D) # <<>>
          /\ Head(Without(control, D)) = Head(control)
          /\ Without(control', D) = Tail(Without(control, D))
      BY <1>2, <1>t, <2>1, <2>3, WithoutTailKept
    <3> QED
      BY <2>1, <2>3, <3>1
  <2> QED
    BY <2>2, <2>3
<1> QED
  BY <1>1, <1>2

-------------------------------------------------------------------------------
(* What a barrier leaves. *)

\* After close_session_outputs the queue holds no session-scoped control.
LEMMA DiscardedQueue ==
    ASSUME control \in Seq(Controls)
    PROVE  \A i \in 1..Len(discard_pending_session_controls) :
              discard_pending_session_controls[i] \notin SessionScoped
<1>1. discard_pending_session_controls \in Seq(Controls \ SessionScoped)
  BY WithoutProperties DEF discard_pending_session_controls
<1> QED
  BY <1>1, ElementOfSeq

\* A control that is not session scoped keeps a queue free of session-scoped ones.
LEMMA AppendKeepsFree ==
    ASSUME NEW q \in Seq(Controls), NEW output \in Controls, output \notin SessionScoped,
           \A i \in 1..Len(q) : q[i] \notin SessionScoped
    PROVE  \A i \in 1..Len(Append(q, output)) : Append(q, output)[i] \notin SessionScoped
<1>1. /\ Len(q) \in Nat
      /\ Len(Append(q, output)) = Len(q) + 1
      /\ \A i \in 1..Len(q) : Append(q, output)[i] = q[i]
      /\ Append(q, output)[Len(q) + 1] = output
  BY AppendProperties, LenProperties
<1> QED
  BY <1>1
===============================================================================
