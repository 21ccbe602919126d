---------------------------- MODULE VncWriterProofs ----------------------------
(***************************************************************************)
(* The mailbox between any number of senders and the writer thread, for    *)
(* every set of senders and outputs: no wakeup is lost, the writer stops   *)
(* only when it is done, and the reliable controls go through as through a *)
(* FIFO channel.  The inductive invariant is WriterInv below.              *)
(***************************************************************************)
EXTENDS VncWriter, VncMailboxProofs

\* The senders that have not been dropped.
Alive == {s \in Senders : tx[s] \in {"idle", "notify"}}

\* The safety properties, and what makes them inductive: the senders that are alive
\* are finitely many, and the receiver lives exactly as long as the writer runs.
WriterInv ==
    /\ WriterSafe
    /\ IsFiniteSet(Alive)
    /\ rx \in {"stopped", "failed"} <=> ~receiver_alive

-------------------------------------------------------------------------------
(* Initially. *)

LEMMA WriterInit == Init => WriterInv
<1> SUFFICES ASSUME Init PROVE WriterInv
  OBVIOUS
<1>1. TypeOK
  <2>1. MailboxTypeOK
    BY EmptySeq DEF Init, output_mailbox, MailboxTypeOK
  <2>2. tx \in [Senders -> TxStates]
    BY DEF Init, TxStates
  <2>3. sends \in 0..MaxSends
    BY MaxSendsAssumption DEF Init
  <2>4. delivered \in Seq(Controls \ SessionScoped)
    BY EmptySeq DEF Init
  <2> QED
    BY <2>1, <2>2, <2>3, <2>4 DEF TypeOK, Init, RxStates
<1>2. Alive = {FirstSender}
  BY FirstSenderAssumption DEF Alive, Init
<1>3. IsFiniteSet(Alive) /\ Cardinality(Alive) = 1
  BY <1>2, FS_Singleton
<1>4. ClosedMailboxIsEmpty /\ NoLostWakeup
  BY DEF ClosedMailboxIsEmpty, NoLostWakeup, Init, output_mailbox
<1>5. StopsOnlyWhenDrained
  BY <1>3 DEF StopsOnlyWhenDrained, Init, output_mailbox, Alive
<1> QED
  BY <1>1, <1>3, <1>4, <1>5 DEF WriterInv, WriterSafe, Init, output_mailbox

-------------------------------------------------------------------------------
(* Type correctness. *)

LEMMA WriterType == TypeOK /\ [Next]_vars => TypeOK'
<1> SUFFICES ASSUME TypeOK, [Next]_vars PROVE TypeOK'
  OBVIOUS
<1>m. MailboxTypeOK /\ tx \in [Senders -> TxStates] /\ rx \in RxStates /\ sends \in 0..MaxSends
  BY DEF TypeOK
<1>1. ASSUME NEW s \in Senders, NEW output \in Outputs, Send(s, output)
      PROVE  TypeOK'
  <2>1. output \in AnyOutput
    BY OutputsAssumption DEF AnyOutput
  <2>2. MailboxTypeOK'
    BY <1>1, <1>m, <2>1, SendType DEF Send
  <2>3. sends' \in 0..MaxSends
    BY <1>1, <1>m, MaxSendsAssumption DEF Send
  <2>4. tx' \in [Senders -> TxStates]
    BY <1>1, <1>m DEF Send, TxStates
  <2> QED
    BY <1>1, <2>2, <2>3, <2>4 DEF TypeOK, Send
<1>2. ASSUME NEW s \in Senders, BeginGeneration(s)
      PROVE  TypeOK'
  <2>1. MailboxTypeOK'
    BY <1>2, <1>m, OtherOperationsType DEF BeginGeneration
  <2>2. tx' \in [Senders -> TxStates]
    BY <1>2, <1>m DEF BeginGeneration, TxStates
  <2> QED
    BY <1>2, <2>1, <2>2 DEF TypeOK, BeginGeneration
<1>3. ASSUME NEW s \in Senders, NEW r \in Senders, Clone(s, r)
      PROVE  TypeOK'
  <2>1. MailboxTypeOK'
    BY <1>3, <1>m, OtherOperationsType DEF Clone
  <2>2. tx' \in [Senders -> TxStates]
    BY <1>3, <1>m DEF Clone, TxStates
  <2> QED
    BY <1>3, <2>1, <2>2 DEF TypeOK, Clone
<1>4. ASSUME NEW s \in Senders, Drop(s)
      PROVE  TypeOK'
  <2>1. MailboxTypeOK'
    BY <1>4, <1>m, OtherOperationsType DEF Drop
  <2>2. tx' \in [Senders -> TxStates]
    BY <1>4, <1>m DEF Drop, TxStates
  <2> QED
    BY <1>4, <2>1, <2>2 DEF TypeOK, Drop
<1>5. ASSUME NEW s \in Senders, Notify(s)
      PROVE  TypeOK'
  <2>1. MailboxTypeOK'
    BY <1>5, <1>m, OtherOperationsType DEF Notify
  <2>2. tx' \in [Senders -> TxStates]
    BY <1>5, <1>m DEF Notify, TxStates
  <2>3. rx' \in RxStates
    BY <1>5, <1>m DEF Notify, RxStates
  <2> QED
    BY <1>5, <2>1, <2>2, <2>3 DEF TypeOK, Notify
<1>6. CASE Recv
  <2>1. MailboxTypeOK'
    BY <1>6, <1>m, OtherOperationsType DEF Recv
  <2>2. hand' \in Frames \cup Deltas \cup Controls
    BY <1>6, <1>m, NextOutputType DEF Recv, recv_output, AnyOutput
  <2>3. delivered' \in Seq(Controls \ SessionScoped)
    <3>1. delivered \in Seq(Controls \ SessionScoped)
      BY DEF TypeOK
    <3>2. CASE NextOutput \in Controls \ SessionScoped
      BY <1>6, <3>1, <3>2, AppendProperties DEF Recv
    <3>3. CASE NextOutput \notin Controls \ SessionScoped
      BY <1>6, <3>1, <3>3 DEF Recv
    <3> QED
      BY <3>2, <3>3
  <2> QED
    BY <1>6, <2>1, <2>2, <2>3 DEF TypeOK, Recv
<1>7. CASE Wait \/ SpuriousWakeup \/ Stop \/ Write \/ WriteFails
  <2>1. MailboxTypeOK'
    BY <1>7, <1>m, OtherOperationsType DEF Wait, SpuriousWakeup, Stop, Write, WriteFails
  <2>2. rx' \in RxStates
    BY <1>7, <1>m DEF Wait, SpuriousWakeup, Stop, Write, WriteFails, RxStates
  <2>3. hand' \in {hand, None}
    BY <1>7 DEF Wait, SpuriousWakeup, Stop, Write, WriteFails
  <2> QED
    BY <1>7, <2>1, <2>2, <2>3 DEF TypeOK, Wait, SpuriousWakeup, Stop, Write, WriteFails
<1>8. CASE UNCHANGED vars
  <2>1. MailboxTypeOK'
    BY <1>8, <1>m, OtherOperationsType DEF vars
  <2> QED
    BY <1>8, <2>1 DEF TypeOK, vars
<1> QED
  BY <1>1, <1>2, <1>3, <1>4, <1>5, <1>6, <1>7, <1>8 DEF Next, SenderStep, WriterStep

-------------------------------------------------------------------------------
(* A closed mailbox holds nothing of its session. *)

LEMMA SendKeepsClosed ==
    ASSUME MailboxTypeOK, ClosedMailboxIsEmpty, NEW output \in AnyOutput, send(output)
    PROVE  ClosedMailboxIsEmpty'
<1>t. control \in Seq(Controls) /\ accepting_session_outputs \in BOOLEAN
  BY DEF MailboxTypeOK
<1>1. CASE receiver_alive /\ SendBarrier(output)
  <2>1. output \in Controls /\ output \notin SessionScoped
    BY <1>1, KindsOfControls DEF SendBarrier, AnyOutput, Frames, Deltas
  <2>2. \A i \in 1..Len(control') : control'[i] \notin SessionScoped
    <3>1. discard_pending_session_controls \in Seq(Controls)
      BY <1>t, DiscardType
    <3>2. control' = Append(discard_pending_session_controls, output)
      BY <1>1 DEF SendBarrier, close_session_outputs
    <3> QED
      BY <1>t, <2>1, <3>1, <3>2, DiscardedQueue, AppendKeepsFree
  <2> QED
    BY <1>1, <2>2 DEF SendBarrier, close_session_outputs, ClosedMailboxIsEmpty
<1>2. CASE receiver_alive /\ SendConnected(output)
  BY <1>2 DEF SendConnected, ClosedMailboxIsEmpty
<1>3. CASE receiver_alive /\ SendControl(output)
  <2>1. CASE accepting_session_outputs
    BY <1>3, <2>1 DEF SendControl, ClosedMailboxIsEmpty
  <2>2. CASE ~accepting_session_outputs
    <3>1. output.kind = "Status"
      BY <1>3, <2>2 DEF SendControl
    <3>2. output \in Controls /\ output \notin SessionScoped
      BY <3>1, KindsOfControls DEF AnyOutput, Frames, Deltas
    <3>3. control' = Append(control, output)
      BY <1>3, <3>1 DEF SendControl, enqueue_control
    <3>4. \A i \in 1..Len(control) : control[i] \notin SessionScoped
      BY <2>2 DEF ClosedMailboxIsEmpty
    <3>5. \A i \in 1..Len(control') : control'[i] \notin SessionScoped
      BY <1>t, <3>2, <3>3, <3>4, AppendKeepsFree
    <3> QED
      BY <1>3, <2>2, <3>5 DEF SendControl, ClosedMailboxIsEmpty
  <2> QED
    BY <2>1, <2>2
<1>4. CASE SendFrame(output) \/ SendDelta(output)
  BY <1>4 DEF SendFrame, SendDelta, ClosedMailboxIsEmpty
<1>5. CASE UNCHANGED <<control, latest_frame, latest_delta, accepting_session_outputs>>
  BY <1>5 DEF ClosedMailboxIsEmpty
<1> QED
  BY <1>1, <1>2, <1>3, <1>4, <1>5 DEF send, SendDropped

LEMMA OthersKeepClosed ==
    ASSUME MailboxTypeOK, ClosedMailboxIsEmpty,
           begin_generation \/ clone_sender \/ drop_sender \/ recv_output
               \/ drop_receiver \/ UNCHANGED mailboxVars
    PROVE  ClosedMailboxIsEmpty'
<1>t. control \in Seq(Controls)
  BY DEF MailboxTypeOK
<1>1. CASE begin_generation
  <2>1. \A i \in 1..Len(control') : control'[i] \notin SessionScoped
    BY <1>1, <1>t, DiscardedQueue DEF begin_generation, close_session_outputs
  <2> QED
    BY <1>1, <2>1 DEF begin_generation, close_session_outputs, ClosedMailboxIsEmpty
<1>2. CASE recv_output
  <2> SUFFICES ASSUME ~accepting_session_outputs'
               PROVE  /\ latest_frame' = None /\ latest_delta' = None
                      /\ \A i \in 1..Len(control') : control'[i] \notin SessionScoped
    BY DEF ClosedMailboxIsEmpty
  <2>1. /\ latest_frame = None /\ latest_delta = None
        /\ \A i \in 1..Len(control) : control[i] \notin SessionScoped
    BY <1>2 DEF recv_output, ClosedMailboxIsEmpty
  <2>2. control # <<>>
    BY <1>2, <2>1 DEF recv_output, Deliverable
  <2>3. /\ control' = Tail(control) /\ latest_frame' = None /\ latest_delta' = None
    BY <1>2, <2>1, <2>2 DEF recv_output
  <2>4. /\ Len(control) \in Nat /\ Len(control) # 0
        /\ Len(Tail(control)) = Len(control) - 1
        /\ \A i \in 1..Len(Tail(control)) : Tail(control)[i] = control[i + 1]
    BY <1>t, <2>2, HeadTailProperties, LenProperties, EmptySeq
  <2>5. \A i \in 1..Len(Tail(control)) : i + 1 \in 1..Len(control)
    BY <2>4
  <2> QED
    BY <2>1, <2>3, <2>4, <2>5
<1>3. CASE drop_receiver
  BY <1>3, EmptySeq DEF drop_receiver, ClosedMailboxIsEmpty
<1>4. CASE UNCHANGED <<control, latest_frame, latest_delta, accepting_session_outputs>>
  BY <1>4 DEF ClosedMailboxIsEmpty
<1> QED
  BY <1>1, <1>2, <1>3, <1>4 DEF clone_sender, drop_sender, mailboxVars

-------------------------------------------------------------------------------
(* The senders that are alive. *)

\* A step of a sender that stays alive leaves Alive as it is.
LEMMA SameAlive ==
    ASSUME TypeOK, NEW s \in Senders, NEW state \in TxStates,
           tx' = [tx EXCEPT ![s] = state],
           tx[s] \in {"idle", "notify"} <=> state \in {"idle", "notify"}
    PROVE  Alive' = Alive
  BY DEF Alive, TypeOK

LEMMA AliveNext ==
    ASSUME WriterInv, [Next]_vars
    PROVE  IsFiniteSet(Alive') /\ sender_count' = Cardinality(Alive')
<1>t. /\ TypeOK /\ tx \in [Senders -> TxStates] /\ sender_count \in Nat
      /\ IsFiniteSet(Alive) /\ sender_count = Cardinality(Alive)
  BY DEF WriterInv, WriterSafe, TypeOK, MailboxTypeOK, StopsOnlyWhenDrained, Alive
<1>1. ASSUME NEW s \in Senders, NEW output \in Outputs, Send(s, output)
      PROVE  Alive' = Alive /\ sender_count' = sender_count
  <2>1. Alive' = Alive
    BY <1>1, <1>t, SameAlive DEF Send, TxStates
  <2> QED
    BY <1>1, <2>1 DEF Send, send
<1>2. ASSUME NEW s \in Senders, BeginGeneration(s)
      PROVE  Alive' = Alive /\ sender_count' = sender_count
  <2>1. Alive' = Alive
    BY <1>2, <1>t, SameAlive DEF BeginGeneration, TxStates
  <2> QED
    BY <1>2, <2>1 DEF BeginGeneration, begin_generation
<1>3. ASSUME NEW s \in Senders, NEW r \in Senders, Clone(s, r)
      PROVE  IsFiniteSet(Alive') /\ sender_count' = Cardinality(Alive')
  <2>1. Alive' = Alive \cup {r} /\ r \notin Alive
    BY <1>3, <1>t DEF Clone, Alive
  <2>2. IsFiniteSet(Alive \cup {r}) /\ Cardinality(Alive \cup {r}) = Cardinality(Alive) + 1
    BY <1>t, <2>1, FS_AddElement
  <2> QED
    BY <1>3, <1>t, <2>1, <2>2 DEF Clone, clone_sender
<1>4. ASSUME NEW s \in Senders, Drop(s)
      PROVE  IsFiniteSet(Alive') /\ sender_count' = Cardinality(Alive')
  <2>1. Alive' = Alive \ {s} /\ s \in Alive
    BY <1>4, <1>t DEF Drop, Alive
  <2>2. IsFiniteSet(Alive \ {s}) /\ Cardinality(Alive \ {s}) = Cardinality(Alive) - 1
    BY <1>t, <2>1, FS_RemoveElement
  <2>3. Cardinality(Alive) # 0
    BY <1>t, <2>1, FS_EmptySet
  <2> QED
    BY <1>4, <1>t, <2>1, <2>2, <2>3 DEF Drop, drop_sender
<1>5. ASSUME NEW s \in Senders, Notify(s)
      PROVE  Alive' = Alive /\ sender_count' = sender_count
  <2>1. Alive' = Alive
    BY <1>5, <1>t, SameAlive DEF Notify, TxStates
  <2> QED
    BY <1>5, <2>1 DEF Notify, mailboxVars
<1>6. CASE WriterStep \/ UNCHANGED vars
  <2>1. tx' = tx /\ sender_count' = sender_count
    BY <1>6 DEF WriterStep, Recv, Wait, SpuriousWakeup, Stop, Write, WriteFails, recv_output,
                drop_receiver, mailboxVars, vars
  <2>2. Alive' = Alive
    BY <2>1 DEF Alive
  <2> QED
    BY <1>t, <2>1, <2>2
<1> QED
  BY <1>1, <1>2, <1>3, <1>4, <1>5, <1>6, <1>t DEF Next, SenderStep

\* A sender that is idle counts.
LEMMA IdleCounts ==
    ASSUME WriterInv, NEW s \in Senders, tx[s] = "idle"
    PROVE  sender_count # 0 /\ rx # "stopped"
<1>1. s \in Alive
  BY DEF Alive
<1>2. Cardinality(Alive) # 0
  BY <1>1, FS_EmptySet DEF WriterInv
<1> QED
  BY <1>2 DEF WriterInv, WriterSafe, StopsOnlyWhenDrained, Alive

-------------------------------------------------------------------------------
(* The step. *)

\* The writer stops only when no sender is left and nothing is pending, and the
\* receiver lives as long as the writer.
LEMMA StopNext ==
    ASSUME WriterInv, [Next]_vars
    PROVE  /\ rx' = "stopped" => sender_count' = 0 /\ ~Deliverable'
           /\ rx' \in {"stopped", "failed"} <=> ~receiver_alive'
<1>t. /\ rx = "stopped" => sender_count = 0 /\ ~Deliverable
      /\ rx \in {"stopped", "failed"} <=> ~receiver_alive
      /\ receiver_alive \in BOOLEAN
  BY DEF WriterInv, WriterSafe, StopsOnlyWhenDrained, TypeOK, MailboxTypeOK
<1>1. ASSUME NEW s \in Senders, tx[s] = "idle", rx' = rx, receiver_alive' = receiver_alive
      PROVE  /\ rx' = "stopped" => sender_count' = 0 /\ ~Deliverable'
             /\ rx' \in {"stopped", "failed"} <=> ~receiver_alive'
  <2>1. rx # "stopped"
    BY <1>1, IdleCounts
  <2> QED
    BY <1>1, <1>t, <2>1
<1>2. ASSUME NEW s \in Senders, \E output \in Outputs : Send(s, output)
      PROVE  tx[s] = "idle" /\ rx' = rx /\ receiver_alive' = receiver_alive
  BY <1>2 DEF Send, send
<1>3. ASSUME NEW s \in Senders, BeginGeneration(s) \/ Drop(s) \/ \E r \in Senders : Clone(s, r)
      PROVE  tx[s] = "idle" /\ rx' = rx /\ receiver_alive' = receiver_alive
  BY <1>3 DEF BeginGeneration, begin_generation, Drop, drop_sender, Clone, clone_sender
<1>4. ASSUME NEW s \in Senders, Notify(s)
      PROVE  /\ rx' = "stopped" => sender_count' = 0 /\ ~Deliverable'
             /\ rx' \in {"stopped", "failed"} <=> ~receiver_alive'
  <2>1. UNCHANGED mailboxVars /\ rx' = IF rx = "waiting" THEN "running" ELSE rx
    BY <1>4 DEF Notify
  <2>2. sender_count' = sender_count /\ receiver_alive' = receiver_alive
        /\ Deliverable' = Deliverable
    BY <2>1 DEF mailboxVars, Deliverable
  <2>3. rx' \in {"stopped", "failed"} <=> rx \in {"stopped", "failed"}
    BY <2>1
  <2>4. rx' = "stopped" => rx = "stopped"
    BY <2>1
  <2> QED
    BY <1>t, <2>2, <2>3, <2>4
<1>5. CASE Recv \/ Wait \/ SpuriousWakeup \/ Write
  <2>1. /\ rx \in {"running", "waiting"} /\ rx' \in {"running", "waiting"}
        /\ receiver_alive' = receiver_alive
    BY <1>5 DEF Recv, Wait, SpuriousWakeup, Write, recv_output, mailboxVars
  <2> QED
    BY <1>t, <2>1
<1>6. CASE Stop \/ WriteFails
  <2>1. ~receiver_alive' /\ rx' \in {"stopped", "failed"}
    BY <1>6 DEF Stop, WriteFails, drop_receiver
  <2>2. ~Deliverable'
    BY <1>6 DEF Stop, WriteFails, drop_receiver, Deliverable
  <2>3. rx' = "stopped" => sender_count' = 0
    BY <1>6 DEF Stop, WriteFails, drop_receiver, recv_closed
  <2> QED
    BY <2>1, <2>2, <2>3
<1>7. CASE UNCHANGED vars
  <2>1. rx' = rx /\ sender_count' = sender_count /\ receiver_alive' = receiver_alive
        /\ Deliverable' = Deliverable
    BY <1>7 DEF vars, mailboxVars, Deliverable
  <2> QED
    BY <1>t, <2>1
<1> QED
  BY <1>1, <1>2, <1>3, <1>4, <1>5, <1>6, <1>7 DEF Next, SenderStep, WriterStep

\* No wakeup is lost: whoever makes something deliverable is about to notify.
LEMMA WakeupNext ==
    ASSUME WriterInv, [Next]_vars
    PROVE  NoLostWakeup'
<1> SUFFICES ASSUME rx' = "waiting", Deliverable' \/ sender_count' = 0
             PROVE  \E r \in Senders : tx'[r] \in {"notify", "notify_last"}
  BY DEF NoLostWakeup
<1>t. /\ tx \in [Senders -> TxStates] /\ sender_count \in Nat
      /\ rx \in {"stopped", "failed"} <=> ~receiver_alive
      /\ NoLostWakeup
  BY DEF WriterInv, WriterSafe, TypeOK, MailboxTypeOK
<1>1. ASSUME NEW s \in Senders, \E output \in Outputs : Send(s, output)
      PROVE  tx'[s] \in {"notify", "notify_last"}
  <2>1. rx = "waiting" /\ receiver_alive
    BY <1>1, <1>t DEF Send
  <2> QED
    BY <1>1, <1>t, <2>1 DEF Send
<1>2. ASSUME NEW s \in Senders, BeginGeneration(s)
      PROVE  tx'[s] \in {"notify", "notify_last"}
  BY <1>2, <1>t DEF BeginGeneration
<1>3. ASSUME NEW s \in Senders, NEW q \in Senders, Clone(s, q)
      PROVE  \E r \in Senders : tx'[r] \in {"notify", "notify_last"}
  <2>1. rx = "waiting" /\ Deliverable' = Deliverable /\ sender_count' = sender_count + 1
    BY <1>3 DEF Clone, clone_sender, Deliverable
  <2>2. Deliverable
    BY <1>t, <2>1
  <2>3. PICK r \in Senders : tx[r] \in {"notify", "notify_last"}
    BY <1>t, <2>1, <2>2 DEF NoLostWakeup
  <2>4. tx'[r] = tx[r]
    BY <1>3, <1>t, <2>3 DEF Clone
  <2> QED
    BY <2>3, <2>4
<1>4. ASSUME NEW s \in Senders, Drop(s)
      PROVE  \E r \in Senders : tx'[r] \in {"notify", "notify_last"}
  <2>1. CASE sender_count' = 0
    BY <1>4, <1>t, <2>1 DEF Drop
  <2>2. CASE sender_count' # 0
    <3>1. rx = "waiting" /\ Deliverable
      BY <1>4, <2>2 DEF Drop, drop_sender, Deliverable
    <3>2. PICK r \in Senders : tx[r] \in {"notify", "notify_last"}
      BY <1>t, <3>1 DEF NoLostWakeup
    <3>3. tx'[r] = tx[r]
      BY <1>4, <1>t, <3>2 DEF Drop
    <3> QED
      BY <3>2, <3>3
  <2> QED
    BY <2>1, <2>2
<1>5. ASSUME NEW s \in Senders, Notify(s)
      PROVE  FALSE
  BY <1>5 DEF Notify
<1>6. CASE WriterStep
  <2>1. CASE Wait
    <3>1. Deliverable' = Deliverable /\ sender_count' = sender_count
      BY <2>1 DEF Wait, mailboxVars, Deliverable
    <3> QED
      BY <1>t, <2>1, <3>1 DEF Wait
  <2> QED
    BY <1>6, <2>1 DEF WriterStep, Recv, SpuriousWakeup, Stop, Write, WriteFails
<1>7. CASE UNCHANGED vars
  <2>1. rx = "waiting" /\ tx' = tx /\ Deliverable' = Deliverable /\ sender_count' = sender_count
    BY <1>7 DEF vars, mailboxVars, Deliverable
  <2> QED
    BY <1>t, <2>1 DEF NoLostWakeup
<1> QED
  BY <1>1, <1>2, <1>3, <1>4, <1>5, <1>6, <1>7 DEF Next, SenderStep

LEMMA WriterNext == WriterInv /\ [Next]_vars => WriterInv'
<1> SUFFICES ASSUME WriterInv, [Next]_vars PROVE WriterInv'
  OBVIOUS
<1>t. TypeOK /\ MailboxTypeOK /\ ClosedMailboxIsEmpty
  BY DEF WriterInv, WriterSafe, TypeOK
<1>1. TypeOK'
  BY <1>t, WriterType
<1>2. ClosedMailboxIsEmpty'
  <2>1. ASSUME NEW s \in Senders, NEW output \in Outputs, Send(s, output)
        PROVE  ClosedMailboxIsEmpty'
    <3>1. output \in AnyOutput
      BY OutputsAssumption DEF AnyOutput
    <3> QED
      BY <1>t, <2>1, <3>1, SendKeepsClosed DEF Send
  <2>2. ASSUME \/ begin_generation \/ clone_sender \/ drop_sender \/ recv_output
               \/ drop_receiver \/ UNCHANGED mailboxVars
        PROVE  ClosedMailboxIsEmpty'
    BY <1>t, <2>2, OthersKeepClosed
  <2> QED
    BY <2>1, <2>2 DEF Next, SenderStep, WriterStep, BeginGeneration, Clone, Drop, Notify, Recv,
                      Wait, SpuriousWakeup, Stop, Write, WriteFails, vars
<1>3. StopsOnlyWhenDrained'
  BY AliveNext, StopNext DEF StopsOnlyWhenDrained, Alive
<1> QED
  BY <1>1, <1>2, <1>3, AliveNext, StopNext, WakeupNext DEF WriterInv, WriterSafe

\* No wakeup is lost, sender_count counts the senders, the writer stops only when
\* the last one is gone and everything is written, and a closed mailbox holds
\* nothing of its session: for any number of senders and any outputs.
THEOREM WriterIsSafe == Spec => []WriterSafe
<1>1. WriterInv => WriterSafe
  BY DEF WriterInv
<1> QED
  BY <1>1, WriterInit, WriterNext, PTL DEF Spec

-------------------------------------------------------------------------------
(* The reliable controls see a FIFO channel. *)

\* The controls that a barrier does not discard.
ReliableControls == Controls \ SessionScoped

\* The reliable controls that are waiting, in their order.
ReliableQueue == Without(control, SessionScoped)

\* Every step is a step of ReliableChannel on the reliable controls, or leaves them
\* alone.
LEMMA ReliableStep ==
    ASSUME WriterInv, [Next]_vars
    PROVE  [Reliable!Next]_(Reliable!channelVars)
<1>t. /\ MailboxTypeOK
      /\ rx \in {"stopped", "failed"} <=> ~receiver_alive
  BY DEF WriterInv, WriterSafe, TypeOK
<1>s. ASSUME ReliableQueue' = ReliableQueue, delivered' = delivered,
             receiver_alive' = receiver_alive
      PROVE  [Reliable!Next]_(Reliable!channelVars)
  BY <1>s DEF Reliable!channelVars, ReliableQueue
<1>1. ASSUME NEW s \in Senders, NEW output \in Outputs, Send(s, output)
      PROVE  [Reliable!Next]_(Reliable!channelVars)
  <2>1. output \in AnyOutput
    BY OutputsAssumption DEF AnyOutput
  <2>2. send(output) /\ delivered' = delivered /\ receiver_alive' = receiver_alive
    BY <1>1 DEF Send, send
  <2>3. CASE ReliableQueue' = ReliableQueue
    BY <1>s, <2>2, <2>3
  <2>4. CASE /\ receiver_alive
             /\ output \in ReliableControls
             /\ ReliableQueue' = Append(ReliableQueue, output)
    <3>1. Reliable!Send(output)
      BY <2>2, <2>4 DEF Reliable!Send, ReliableQueue
    <3>2. output \in Controls \ SessionScoped
      BY <2>4 DEF ReliableControls
    <3> QED
      BY <3>1, <3>2 DEF Reliable!Next
  <2>5. ReliableQueue' = IF receiver_alive /\ output \in ReliableControls
                         THEN Append(ReliableQueue, output) ELSE ReliableQueue
    BY <1>t, <2>1, <2>2, SendThrough DEF ReliableQueue, ReliableControls
  <2> QED
    BY <2>3, <2>4, <2>5
<1>2. ASSUME NEW s \in Senders,
             BeginGeneration(s) \/ Drop(s) \/ Notify(s) \/ \E r \in Senders : Clone(s, r)
      PROVE  [Reliable!Next]_(Reliable!channelVars)
  <2>1. \/ begin_generation \/ clone_sender \/ drop_sender \/ UNCHANGED mailboxVars
    BY <1>2 DEF BeginGeneration, Drop, Notify, Clone
  <2>2. delivered' = delivered
    BY <1>2 DEF BeginGeneration, Drop, Notify, Clone
  <2>3. receiver_alive' = receiver_alive
    BY <2>1 DEF begin_generation, clone_sender, drop_sender, mailboxVars
  <2>4. ReliableQueue' = ReliableQueue
    BY <1>t, <2>1, SendersThrough DEF ReliableQueue
  <2> QED
    BY <1>s, <2>2, <2>3, <2>4
<1>3. CASE Recv
  <2>1. recv_output /\ receiver_alive' = receiver_alive
    BY <1>3 DEF Recv, recv_output
  <2>2. CASE NextOutput \in ReliableControls
    <3>1. delivered' = Append(delivered, NextOutput)
      BY <1>3, <2>2 DEF Recv, ReliableControls
    <3>2. /\ ReliableQueue # <<>> /\ Head(ReliableQueue) = NextOutput
          /\ ReliableQueue' = Tail(ReliableQueue)
      BY <1>t, <2>1, <2>2, RecvThrough DEF ReliableQueue, ReliableControls
    <3>3. Reliable!Receive
      BY <2>1, <3>1, <3>2 DEF Reliable!Receive, ReliableQueue
    <3> QED
      BY <3>3 DEF Reliable!Next
  <2>3. CASE NextOutput \notin ReliableControls
    <3>1. delivered' = delivered
      BY <1>3, <2>3 DEF Recv, ReliableControls
    <3>2. ReliableQueue' = ReliableQueue
      BY <1>t, <2>1, <2>3, RecvThrough DEF ReliableQueue, ReliableControls
    <3> QED
      BY <1>s, <2>1, <3>1, <3>2
  <2> QED
    BY <2>2, <2>3
<1>4. CASE Stop \/ WriteFails
  <2>1. rx = "running" /\ drop_receiver /\ delivered' = delivered
    BY <1>4 DEF Stop, WriteFails
  <2>2. receiver_alive /\ receiver_alive' = FALSE /\ control' = <<>>
    BY <1>t, <2>1 DEF drop_receiver
  <2>3. ReliableQueue' = <<>>
    BY <2>2, WithoutEmpty DEF ReliableQueue
  <2>4. Reliable!Close
    BY <2>1, <2>2, <2>3 DEF Reliable!Close, ReliableQueue
  <2> QED
    BY <2>4 DEF Reliable!Next
<1>5. CASE Wait \/ SpuriousWakeup \/ Write \/ UNCHANGED vars
  <2>1. UNCHANGED mailboxVars /\ delivered' = delivered
    BY <1>5 DEF Wait, SpuriousWakeup, Write, vars
  <2>2. ReliableQueue' = ReliableQueue /\ receiver_alive' = receiver_alive
    BY <1>t, <2>1, SendersThrough DEF mailboxVars, ReliableQueue
  <2> QED
    BY <1>s, <2>1, <2>2
<1> QED
  BY <1>1, <1>2, <1>3, <1>4, <1>5 DEF Next, SenderStep, WriterStep

LEMMA ReliableInit == Init => Reliable!Init
<1> SUFFICES ASSUME Init PROVE Reliable!Init
  OBVIOUS
<1>1. control = <<>> /\ delivered = <<>> /\ receiver_alive = TRUE
  BY DEF Init, output_mailbox
<1>2. Without(control, SessionScoped) = <<>>
  BY <1>1, WithoutEmpty
<1> QED
  BY <1>1, <1>2 DEF Reliable!Init

\* The safety half of ControlsAreReliable: whatever frames, cursors, clipboard texts,
\* barriers and generations do around them, the controls that are not session scoped
\* are delivered in the order they were sent, each once, until the receiver is dropped.
THEOREM ControlsAreDeliveredInOrder ==
    Spec => Reliable!Init /\ [][Reliable!Next]_(Reliable!channelVars)
<1>1. WriterInv /\ [Next]_vars => [Reliable!Next]_(Reliable!channelVars)
  BY ReliableStep
<1>2. Spec => []WriterInv
  BY WriterInit, WriterNext, PTL DEF Spec
<1> QED
  BY <1>1, <1>2, ReliableInit, PTL DEF Spec
===============================================================================
