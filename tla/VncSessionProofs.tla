--------------------------- MODULE VncSessionProofs ---------------------------
(***************************************************************************)
(* Every value of the constants: any number of tiles, colours, sizes and   *)
(* texts, any budgets and bounds.  The inductive invariant is IInv below.  *)
(***************************************************************************)
EXTENDS VncSession, VncMailboxProofs

-------------------------------------------------------------------------------
(* Type correctness. *)

LEMMA ShownType ==
    ASSUME NEW image \in Images \cup {None}, NEW output \in AnyOutput \cup {None}
    PROVE  Shown(image, output) \in Images \cup {None}
<1>1. CASE output = None
  BY <1>1 DEF Shown
<1>2. CASE output # None /\ output.kind = "Frame"
  <2>1. output \in Frames
    BY <1>2 DEF AnyOutput, Deltas, Controls, Connecteds, Reconnectings, Terminals,
                Statuses, SessionScoped
  <2> QED
    BY <1>2, <2>1 DEF Shown, Frames, Images
<1>3. CASE /\ output # None
           /\ output.kind = "FrameBgraRects"
           /\ image # None
           /\ image.size = output.size
  <2>1. output \in Deltas
    BY <1>3 DEF AnyOutput, Frames, Controls, Connecteds, Reconnectings, Terminals,
                Statuses, SessionScoped
  <2>2. output.pix \in [Tiles -> Colors \cup {NoPixel}] /\ image.pix \in [Tiles -> Colors]
    BY <1>3, <2>1 DEF Deltas, Images
  <2>3. Overlay(output.pix, image.pix) \in [Tiles -> Colors]
    BY <2>2 DEF Overlay
  <2> QED
    BY <1>3, <2>3 DEF Shown, Images
<1>4. CASE /\ output # None
           /\ output.kind # "Frame"
           /\ ~(/\ output.kind = "FrameBgraRects"
                /\ image # None
                /\ image.size = output.size)
  BY <1>4 DEF Shown
<1> QED
  BY <1>1, <1>2, <1>3, <1>4

LEMMA InitType == Init => TypeOK
<1> SUFFICES ASSUME Init
             PROVE  TypeOK
  OBVIOUS
<1>1. MailboxTypeOK
  BY EmptySeq DEF Init, output_mailbox, MailboxTypeOK
<1>2. dirty_rects \in Seq(Tiles) /\ batch \in Seq(Inputs) /\ input_queue \in Seq(Inputs)
  BY EmptySeq DEF Init
<1>3. /\ keyframe \in BOOLEAN /\ was_connected \in BOOLEAN /\ reconnect_now \in BOOLEAN
      /\ input_open \in BOOLEAN /\ request_error \in BOOLEAN /\ worker_error \in BOOLEAN
  BY DEF Init
<1>4. /\ pc \in PcStates /\ framebuffer = None /\ processed = 0 /\ result = None
      /\ reconnect_attempt = 0 /\ latest_clipboard = None /\ server_clip = None
      /\ main_pc = "reading" /\ writer = "running" /\ hand = None
      /\ host_session = "none" /\ host_image = None /\ host_delay = None
      /\ events = 0 /\ connects = 0 /\ requests = 0
  BY DEF Init, PcStates
<1> QED
  BY <1>1, <1>2, <1>3, <1>4 DEF TypeOK

\* The outputs that the session thread sends.
LEMMA SentOutputs ==
    /\ [kind |-> "ConnectionFailure"] \in AnyOutput
    /\ [kind |-> "Status"] \in AnyOutput
    /\ \A size \in Sizes : [kind |-> "Connected", size |-> size] \in AnyOutput
    /\ \A text \in Texts : [kind |-> "ClipboardText", text |-> text] \in AnyOutput
    /\ \A delay \in Delays \cup {None} : [kind |-> "Reconnecting", delay |-> delay] \in AnyOutput
  BY DEF AnyOutput, Controls, Terminals, Statuses, Connecteds, SessionScoped, Reconnectings

\* flush_frame sends a full frame or a delta.
LEMMA FlushedOutputs ==
    ASSUME TypeOK, framebuffer # None
    PROVE  /\ [kind |-> "Frame", size |-> framebuffer.size, pix |-> framebuffer.pix] \in Frames
           /\ DirtyDelta \in Deltas
<1>1. framebuffer.size \in Sizes /\ framebuffer.pix \in [Tiles -> Colors]
  BY DEF TypeOK, Images
<1>2. Len(dirty_rects) \in Nat
  BY LenProperties DEF TypeOK
<1> QED
  BY <1>1, <1>2 DEF Frames, Deltas, DirtyDelta

LEMMA NextType == TypeOK /\ [Next]_vars => TypeOK'
<1> SUFFICES ASSUME TypeOK, [Next]_vars
             PROVE  TypeOK'
  OBVIOUS
<1> USE DEF OthersUnchanged, SessionUnchanged, displayVars, inputVars, loopVars, clipVars,
            mainVars, writerVars, hostVars, bounds
<1>m. MailboxTypeOK
  BY DEF TypeOK
<1>1. CASE run_vnc_thread
  <2>1. MailboxTypeOK'
    BY <1>1, <1>m, SendType, SentOutputs, OtherOperationsType DEF run_vnc_thread
  <2>2. CASE pc' = "start" /\ UNCHANGED <<mailboxVars, worker_error>>
    BY <1>1, <2>1, <2>2 DEF TypeOK, run_vnc_thread, PcStates
  <2>3. CASE worker_error' = TRUE /\ pc' = "finished"
    BY <1>1, <2>1, <2>3 DEF TypeOK, run_vnc_thread, PcStates
  <2> QED
    BY <1>1, <2>2, <2>3 DEF run_vnc_thread
<1>2. CASE run_vnc_session
  <2>1. MailboxTypeOK'
    BY <1>2, <1>m, SendType, SentOutputs DEF run_vnc_session
  <2> QED
    BY <1>2, <2>1 DEF TypeOK, run_vnc_session, PcStates
<1>3. CASE connect_error_result
  <2>1. MailboxTypeOK'
    BY <1>3, <1>m, SendType, SentOutputs, OtherOperationsType DEF connect_error_result
  <2>2. CASE result' = [kind |-> "Closed"] /\ pc' = "finished" /\ UNCHANGED connects
    BY <1>3, <2>1, <2>2 DEF TypeOK, connect_error_result, PcStates, Results
  <2>3. CASE /\ connects' = connects + 1
             /\ result' = Reconnect("SessionError", FALSE, FALSE)
             /\ pc' = "backend"
    BY <1>3, <2>1, <2>3 DEF TypeOK, connect_error_result, PcStates, Results, Reconnect, Reasons
  <2> QED
    BY <1>3, <2>2, <2>3 DEF connect_error_result
<1>4. CASE connect_vnc
  <2>1. MailboxTypeOK'
    BY <1>4, <1>m, OtherOperationsType DEF connect_vnc
  <2>2. dirty_rects' \in Seq(Tiles)
    BY <1>4, EmptySeq DEF connect_vnc
  <2>3. keyframe' \in BOOLEAN /\ was_connected' \in BOOLEAN
    BY <1>4 DEF connect_vnc
  <2>4. /\ pc' \in PcStates /\ framebuffer' = None /\ server_clip' = None
        /\ connects' = connects + 1
        /\ UNCHANGED <<loopVars, latest_clipboard, inputVars, worker_error, events>>
        /\ OthersUnchanged
    BY <1>4 DEF connect_vnc, PcStates
  <2> QED
    BY <2>1, <2>2, <2>3, <2>4 DEF TypeOK
<1>5. CASE request_initial_refresh
  <2>1. MailboxTypeOK'
    BY <1>5, <1>m, OtherOperationsType DEF request_initial_refresh
  <2>2. CASE pc' = "replay" /\ UNCHANGED result
    BY <1>5, <2>1, <2>2 DEF TypeOK, request_initial_refresh, PcStates
  <2>3. CASE EndWith(Reconnect("DisplayUpdate", FALSE, was_connected))
    BY <1>5, <2>1, <2>3 DEF TypeOK, request_initial_refresh, PcStates, EndWith, Results,
                            Reconnect, Reasons
  <2> QED
    BY <1>5, <2>2, <2>3 DEF request_initial_refresh
<1>6. CASE replay_clipboard
  <2>1. MailboxTypeOK'
    BY <1>6, <1>m, OtherOperationsType DEF replay_clipboard
  <2>2. CASE server_clip' = latest_clipboard /\ processed' = 0 /\ pc' = "poll" /\ UNCHANGED result
    BY <1>6, <2>1, <2>2 DEF TypeOK, replay_clipboard, PcStates
  <2>3. CASE /\ EndWith(Reconnect(reconnect_reason, FALSE, was_connected))
             /\ UNCHANGED <<server_clip, processed>>
    BY <1>6, <2>1, <2>3 DEF TypeOK, replay_clipboard, PcStates, EndWith, Results, Reconnect,
                            Reasons, reconnect_reason
  <2> QED
    BY <1>6, <2>2, <2>3 DEF replay_clipboard
<1>7. CASE poll_event
  <2>1. CASE \E size \in Sizes : set_resolution(size)
    <3>1. PICK size \in Sizes : set_resolution(size)
      BY <2>1
    <3>2. MailboxTypeOK'
      BY <1>m, <3>1, SendType, SentOutputs DEF set_resolution
    <3>3. NewScreen(size) \in Images
      BY BlankIsAColor DEF NewScreen, Images
    <3> QED
      BY <1>7, <3>1, <3>2, <3>3, EmptySeq DEF TypeOK, poll_event, set_resolution
  <2>2. ASSUME NEW tile \in Tiles, NEW color \in Colors,
               IF framebuffer = None THEN UNCHANGED <<framebuffer, dirty_rects>>
               ELSE Painted(tile, color),
               UNCHANGED <<mailboxVars, keyframe, was_connected>>
        PROVE  TypeOK'
    <3>1. MailboxTypeOK'
      BY <1>m, <2>2, OtherOperationsType
    <3>2. framebuffer' \in Images \cup {None} /\ dirty_rects' \in Seq(Tiles)
      <4>1. framebuffer \in Images \cup {None} /\ dirty_rects \in Seq(Tiles)
        BY DEF TypeOK
      <4>2. CASE framebuffer = None
        BY <2>2, <4>1, <4>2
      <4>3. CASE framebuffer # None
        <5>1. [framebuffer EXCEPT !.pix[tile] = color] \in Images
          BY <4>1, <4>3 DEF Images
        <5>2. Append(dirty_rects, tile) \in Seq(Tiles)
          BY <4>1, AppendProperties
        <5> QED
          BY <2>2, <4>3, <5>1, <5>2 DEF Painted
      <4> QED
        BY <4>2, <4>3
    <3> QED
      BY <1>7, <2>2, <3>1, <3>2 DEF TypeOK, poll_event
  <2>3. CASE \E tile \in Tiles, color \in Colors : patch_rect(tile, color)
    BY <2>2, <2>3 DEF patch_rect
  <2>4. CASE \E dst, src \in Tiles : dst # src /\ copy_rect(dst, src)
    <3>1. PICK dst \in Tiles, src \in Tiles : copy_rect(dst, src)
      BY <2>4
    <3>2. CASE framebuffer = None
      <4>1. MailboxTypeOK'
        BY <1>m, <3>1, OtherOperationsType DEF copy_rect
      <4> QED
        BY <1>7, <3>1, <3>2, <4>1 DEF TypeOK, poll_event, copy_rect
    <3>3. CASE framebuffer # None
      <4>1. framebuffer.pix[src] \in Colors
        BY <3>3 DEF TypeOK, Images
      <4> QED
        BY <2>2, <3>1, <4>1 DEF copy_rect
    <3> QED
      BY <3>2, <3>3
  <2>5. CASE \/ \E text \in Texts : report([kind |-> "ClipboardText", text |-> text])
             \/ report([kind |-> "Status"])
    <3>1. MailboxTypeOK'
      BY <1>m, <2>5, SendType, SentOutputs DEF report
    <3>2. UNCHANGED displayVars
      BY <2>5 DEF report
    <3> QED
      BY <1>7, <3>1, <3>2 DEF TypeOK, poll_event
  <2> QED
    BY <1>7, <2>1, <2>3, <2>4, <2>5 DEF poll_event, handle_event
<1>8. CASE poll_error
  <2>1. MailboxTypeOK'
    BY <1>8, <1>m, OtherOperationsType DEF poll_error
  <2> QED
    BY <1>8, <2>1 DEF TypeOK, poll_error, PcStates, EndWith, Results, Reconnect, Reasons,
                      reconnect_reason
<1>9. CASE flush_frame
  <2>1. MailboxTypeOK'
    BY <1>9, <1>m, SendType, FlushedOutputs, OtherOperationsType DEF flush_frame, AnyOutput
  <2>2. CASE UNCHANGED <<keyframe, dirty_rects>>
    BY <1>9, <2>1, <2>2 DEF TypeOK, flush_frame, PcStates
  <2>3. CASE keyframe' = FALSE /\ dirty_rects' = <<>>
    <3>1. dirty_rects' \in Seq(Tiles)
      BY <2>3, EmptySeq
    <3>2. keyframe' \in BOOLEAN
      BY <2>3
    <3>3. /\ pc' = "drain"
          /\ processed' = 0
          /\ UNCHANGED <<framebuffer, was_connected, batch, result, reconnect_attempt,
                         reconnect_now, clipVars, inputVars, worker_error, events, connects>>
          /\ OthersUnchanged
      BY <1>9 DEF flush_frame
    <3> QED
      BY <2>1, <3>1, <3>2, <3>3 DEF TypeOK, PcStates
  <2> QED
    BY <1>9, <2>2, <2>3 DEF flush_frame
<1>10. CASE drain_remote_inputs
  <2>1. MailboxTypeOK'
    BY <1>10, <1>m, OtherOperationsType DEF drain_remote_inputs
  <2>2. input_queue # <<>> => /\ Append(batch, Head(input_queue)) \in Seq(Inputs)
                              /\ Tail(input_queue) \in Seq(Inputs)
    BY HeadTailProperties, AppendProperties DEF TypeOK
  <2>3. /\ pc' \in PcStates
        /\ batch' \in Seq(Inputs)
        /\ input_queue' \in Seq(Inputs)
        /\ processed' \in Nat
        /\ result' \in Results \cup {None}
    <3>1. /\ pc \in PcStates
          /\ batch \in Seq(Inputs)
          /\ input_queue \in Seq(Inputs)
          /\ processed \in Nat
          /\ result \in Results \cup {None}
      BY DEF TypeOK
    <3>2. CASE /\ input_queue # <<>>
               /\ batch' = Append(batch, Head(input_queue))
               /\ input_queue' = Tail(input_queue)
               /\ processed' = processed + 1
               /\ UNCHANGED <<pc, result>>
      BY <2>2, <3>1, <3>2
    <3>3. CASE pc' = "handle" /\ UNCHANGED <<batch, input_queue, processed, result>>
      BY <3>1, <3>3 DEF PcStates
    <3>4. CASE /\ EndWith([kind |-> "InputClosed"])
               /\ batch' = <<>>
               /\ UNCHANGED <<input_queue, processed>>
      BY <3>1, <3>4, EmptySeq DEF EndWith, PcStates, Results
    <3> QED
      BY <1>10, <3>2, <3>3, <3>4 DEF drain_remote_inputs
  <2>4. /\ UNCHANGED <<displayVars, reconnect_attempt, reconnect_now, clipVars,
                       input_open, worker_error, events, connects>>
        /\ OthersUnchanged
    BY <1>10 DEF drain_remote_inputs
  <2> QED
    BY <2>1, <2>3, <2>4 DEF TypeOK
<1>11. CASE handle_vnc_input
  <2>1. MailboxTypeOK'
    BY <1>11, <1>m, OtherOperationsType DEF handle_vnc_input
  <2>2. Head(batch) \in Inputs /\ Tail(batch) \in Seq(Inputs)
    BY <1>11, HeadTailProperties DEF TypeOK, handle_vnc_input
  <2>3. Head(batch).kind = "Text" =>
            /\ Head(batch).text \in Texts
            /\ Wire[Head(batch).text] # None => Wire[Head(batch).text] \in Texts
    BY <2>2, NoneIsNoWire DEF Inputs
  <2>4. /\ batch' \in Seq(Inputs)
        /\ pc' \in PcStates
        /\ result' \in Results \cup {None}
        /\ latest_clipboard' \in Texts \cup {None}
        /\ server_clip' \in Texts \cup {None}
    <3>1. /\ pc \in PcStates
          /\ result \in Results \cup {None}
          /\ latest_clipboard \in Texts \cup {None}
          /\ server_clip \in Texts \cup {None}
          /\ was_connected \in BOOLEAN
      BY DEF TypeOK
    <3>2. ASSUME NEW r \in Results, EndWith(r)
          PROVE  pc' \in PcStates /\ result' \in Results \cup {None}
      BY <3>2 DEF EndWith, PcStates
    <3>3. /\ [kind |-> "Closed"] \in Results
          /\ Reconnect("Manual", TRUE, was_connected) \in Results
          /\ Reconnect(reconnect_reason, FALSE, was_connected) \in Results
      BY <3>1 DEF Results, Reconnect, Reasons, reconnect_reason
    <3>4. InputFailed => /\ batch' \in Seq(Inputs)
                         /\ pc' \in PcStates
                         /\ result' \in Results \cup {None}
      BY <3>2, <3>3, EmptySeq DEF InputFailed
    <3>5. CASE Head(batch).kind \in {"Close", "Reconnect"}
      BY <1>11, <3>1, <3>2, <3>3, <3>5, EmptySeq DEF handle_vnc_input
    <3>6. CASE Head(batch).kind = "Text"
      BY <1>11, <2>2, <2>3, <3>1, <3>4, <3>6 DEF handle_vnc_input, send_clipboard_text
    <3>7. CASE Head(batch).kind = "Pointer"
      BY <1>11, <2>2, <3>1, <3>4, <3>7 DEF handle_vnc_input
    <3> QED
      BY <1>11, <3>5, <3>6, <3>7 DEF handle_vnc_input
  <2>5. /\ UNCHANGED <<displayVars, processed, reconnect_attempt, reconnect_now,
                       inputVars, worker_error, events, connects>>
        /\ OthersUnchanged
    BY <1>11 DEF handle_vnc_input
  <2> QED
    BY <2>1, <2>4, <2>5 DEF TypeOK
<1>12. CASE refresh_if_needed
  <2>1. MailboxTypeOK'
    BY <1>12, <1>m, OtherOperationsType DEF refresh_if_needed
  <2>2. CASE pc' = "poll" /\ processed' = 0 /\ UNCHANGED result
    BY <1>12, <2>1, <2>2 DEF TypeOK, refresh_if_needed, PcStates
  <2>3. CASE EndWith(Reconnect("DisplayUpdate", FALSE, was_connected)) /\ UNCHANGED processed
    BY <1>12, <2>1, <2>3 DEF TypeOK, refresh_if_needed, PcStates, EndWith, Results, Reconnect,
                             Reasons
  <2> QED
    BY <1>12, <2>2, <2>3 DEF refresh_if_needed
<1>13. CASE shutdown_session
  <2>1. MailboxTypeOK'
    BY <1>13, <1>m, OtherOperationsType DEF shutdown_session
  <2>2. dirty_rects' \in Seq(Tiles)
    BY <1>13, EmptySeq DEF shutdown_session
  <2>3. pc' \in PcStates
    BY <1>13 DEF shutdown_session, PcStates
  <2>4. keyframe' \in BOOLEAN /\ was_connected' \in BOOLEAN
    BY <1>13 DEF shutdown_session
  <2>5. /\ framebuffer' = None /\ server_clip' = None
        /\ UNCHANGED <<loopVars, latest_clipboard, inputVars, worker_error, events, connects>>
        /\ OthersUnchanged
    BY <1>13 DEF shutdown_session
  <2> QED
    BY <2>1, <2>2, <2>3, <2>4, <2>5 DEF TypeOK
<1>14. CASE run_vnc_backend
  <2>1. \A attempt : reconnect_delay(attempt) \in Delays
    BY DelayAssumption DEF reconnect_delay
  <2>2. MailboxTypeOK'
    BY <1>14, <1>m, <2>1, SendType, SentOutputs DEF run_vnc_backend
  <2>3. pc' \in PcStates /\ reconnect_attempt' \in 0..3
    <3>1. reconnect_attempt \in 0..3
      BY DEF TypeOK
    <3> QED
      BY <1>14, <3>1 DEF run_vnc_backend, NextAttempt, PcStates
  <2>5. reconnect_now' \in BOOLEAN
    BY <1>14 DEF run_vnc_backend
  <2>4. /\ result' = None /\ processed' = 0
        /\ UNCHANGED <<displayVars, batch, clipVars, inputVars, worker_error, events, connects>>
        /\ OthersUnchanged
    BY <1>14 DEF run_vnc_backend
  <2> QED
    BY <2>2, <2>3, <2>4, <2>5 DEF TypeOK
<1>15. CASE handle_wait_input
  <2>1. MailboxTypeOK'
    BY <1>15, <1>m, OtherOperationsType DEF handle_wait_input
  <2>2. Head(input_queue) \in Inputs /\ Tail(input_queue) \in Seq(Inputs)
    BY <1>15, HeadTailProperties DEF TypeOK, handle_wait_input
  <2>3. Head(input_queue).kind = "Text" =>
            /\ Head(input_queue).text \in Texts
            /\ Wire[Head(input_queue).text] # None => Wire[Head(input_queue).text] \in Texts
    BY <2>2, NoneIsNoWire DEF Inputs
  <2> QED
    BY <1>15, <2>1, <2>2, <2>3 DEF TypeOK, handle_wait_input, PcStates
<1>16. CASE wait_before_reconnect
  <2>1. MailboxTypeOK'
    BY <1>16, <1>m, OtherOperationsType DEF wait_before_reconnect
  <2> QED
    BY <1>16, <2>1 DEF TypeOK, wait_before_reconnect, PcStates
<1>17. CASE session_thread_ends
  <2>1. MailboxTypeOK'
    BY <1>17, <1>m, OtherOperationsType DEF session_thread_ends
  <2> QED
    BY <1>17, <2>1, EmptySeq DEF TypeOK, session_thread_ends, PcStates
<1>18. CASE writer_recv
  <2>1. MailboxTypeOK'
    BY <1>18, <1>m, OtherOperationsType DEF writer_recv
  <2>2. hand' \in AnyOutput
    BY <1>18, <1>m, NextOutputType DEF writer_recv, recv_output
  <2> QED
    BY <1>18, <2>1, <2>2 DEF TypeOK, writer_recv, AnyOutput
<1>19. CASE writer_stops
  <2>1. MailboxTypeOK'
    BY <1>19, <1>m, OtherOperationsType DEF writer_stops
  <2> QED
    BY <1>19, <2>1 DEF TypeOK, writer_stops
<1>20. CASE write_event
  <2>1. MailboxTypeOK'
    BY <1>20, <1>m, OtherOperationsType DEF write_event
  <2>2. host_image' \in Images \cup {None}
    BY <1>20, ShownType DEF TypeOK, write_event, AnyOutput
  <2>3. hand.kind = "Reconnecting" => hand.delay \in Delays \cup {None}
    BY <1>20 DEF TypeOK, write_event, Frames, Deltas, Controls, Connecteds, Reconnectings,
                 Terminals, Statuses, SessionScoped
  <2> QED
    BY <1>20, <2>1, <2>2, <2>3 DEF TypeOK, write_event
<1>21. CASE write_event_fails
  <2>1. MailboxTypeOK'
    BY <1>21, <1>m, OtherOperationsType DEF write_event_fails
  <2> QED
    BY <1>21, <2>1 DEF TypeOK, write_event_fails
<1>22. CASE \E input \in Requests : host_request(input)
  <2>1. PICK input \in Requests : host_request(input)
    BY <1>22
  <2>2. MailboxTypeOK'
    BY <1>m, <2>1, OtherOperationsType DEF host_request
  <2>3. Append(input_queue, input) \in Seq(Inputs)
    BY RequestsAssumption, AppendProperties DEF TypeOK
  <2>4. /\ main_pc' \in {"reading", "joining", "exit_ok", "exit_error"}
        /\ request_error' \in BOOLEAN
        /\ input_open' \in BOOLEAN
        /\ input_queue' \in Seq(Inputs)
    <3>1. /\ main_pc \in {"reading", "joining", "exit_ok", "exit_error"}
          /\ request_error \in BOOLEAN
          /\ input_open \in BOOLEAN
          /\ input_queue \in Seq(Inputs)
      BY DEF TypeOK
    <3>2. CASE pc = "ended"
      BY <2>1, <3>1, <3>2 DEF host_request, stop_reading
    <3>3. CASE pc # "ended" /\ input.kind = "Close"
      BY <2>1, <2>3, <3>1, <3>3 DEF host_request, stop_reading
    <3>4. CASE pc # "ended" /\ input.kind # "Close"
      BY <2>1, <2>3, <3>1, <3>4 DEF host_request
    <3> QED
      BY <3>2, <3>3, <3>4
  <2>5. /\ requests' = requests + 1
        /\ UNCHANGED <<writerVars, hostVars, worker_error>>
        /\ SessionUnchanged
    BY <2>1 DEF host_request
  <2> QED
    BY <2>2, <2>4, <2>5 DEF TypeOK
<1>23. CASE stdin_ends
  <2>1. MailboxTypeOK'
    BY <1>23, <1>m, OtherOperationsType DEF stdin_ends
  <2>2. request_error' \in BOOLEAN /\ input_open' \in BOOLEAN
    BY <1>23 DEF stdin_ends, stop_reading
  <2>3. /\ main_pc' = "joining"
        /\ UNCHANGED <<input_queue, writerVars, hostVars, worker_error, requests>>
        /\ SessionUnchanged
    BY <1>23 DEF stdin_ends, stop_reading
  <2> QED
    BY <2>1, <2>2, <2>3 DEF TypeOK
<1>24. CASE join_workers
  <2>1. MailboxTypeOK'
    BY <1>24, <1>m, OtherOperationsType DEF join_workers
  <2> QED
    BY <1>24, <2>1 DEF TypeOK, join_workers
<1>25. CASE UNCHANGED vars
  <2>1. MailboxTypeOK'
    BY <1>25, <1>m, OtherOperationsType DEF vars
  <2> QED
    BY <1>25, <2>1 DEF TypeOK, vars
<1> QED
  BY <1>1, <1>2, <1>3, <1>4, <1>5, <1>6, <1>7, <1>8, <1>9, <1>10, <1>11, <1>12, <1>13, <1>14,
     <1>15, <1>16, <1>17, <1>18, <1>19, <1>20, <1>21, <1>22, <1>23, <1>24, <1>25
  DEF Next, SessionStep, WriterStep

\* The helper's threads keep every variable in its type, for every instance.
THEOREM TypeCorrect == Spec => []TypeOK
  BY InitType, NextType, PTL DEF Spec

-------------------------------------------------------------------------------
(* The clipboard. *)

LEMMA ClipboardNext ==
    ASSUME ServerHasLatestClipboard, [Next]_vars
    PROVE  ServerHasLatestClipboard'
<1> USE DEF ServerHasLatestClipboard
<1>1. CASE run_vnc_thread \/ run_vnc_session \/ connect_error_result \/ connect_vnc
             \/ request_initial_refresh
  BY <1>1 DEF run_vnc_thread, run_vnc_session, connect_error_result, connect_vnc,
              request_initial_refresh, EndWith
<1>2. CASE replay_clipboard
  BY <1>2 DEF replay_clipboard, EndWith
<1>3. CASE poll_event \/ poll_error \/ flush_frame \/ drain_remote_inputs \/ refresh_if_needed
  BY <1>3 DEF poll_event, poll_error, flush_frame, drain_remote_inputs, refresh_if_needed,
              EndWith, clipVars
<1>4. CASE handle_vnc_input
  BY <1>4 DEF handle_vnc_input, send_clipboard_text, InputFailed, EndWith, clipVars
<1>5. CASE shutdown_session \/ run_vnc_backend \/ wait_before_reconnect \/ session_thread_ends
  BY <1>5 DEF shutdown_session, run_vnc_backend, wait_before_reconnect, session_thread_ends
<1>6. CASE handle_wait_input
  BY <1>6 DEF handle_wait_input
<1>7. CASE WriterStep \/ stdin_ends \/ join_workers \/ \E input \in Requests : host_request(input)
  BY <1>7 DEF WriterStep, writer_recv, writer_stops, write_event, write_event_fails,
              stdin_ends, join_workers, host_request, SessionUnchanged, clipVars
<1>8. CASE UNCHANGED vars
  BY <1>8 DEF vars, clipVars
<1> QED
  BY <1>1, <1>2, <1>3, <1>4, <1>5, <1>6, <1>7, <1>8 DEF Next, SessionStep

\* In the connected loop the server always has the host's latest clipboard text.
THEOREM ClipboardIsLatest == Spec => []ServerHasLatestClipboard
<1>1. Init => ServerHasLatestClipboard
  BY DEF Init, ServerHasLatestClipboard
<1> QED
  BY <1>1, ClipboardNext, PTL DEF Spec

-------------------------------------------------------------------------------
(* Outside a connection there is no framebuffer, and run_vnc_backend goes on only  *)
(* after a session that asks to reconnect.                                         *)

\* The session thread has no ConnectedVncSession.
Outside == {"boot", "start", "connecting", "backend", "waiting", "finished", "ended"}

NoSession ==
    /\ pc \in Outside => framebuffer = None /\ was_connected = FALSE
    /\ pc = "backend" => result.kind = "Reconnect"

LEMMA NoSessionNext ==
    ASSUME NoSession, [Next]_vars
    PROVE  NoSession'
<1> USE DEF NoSession, Outside
<1>1. CASE run_vnc_thread \/ run_vnc_session \/ connect_error_result \/ connect_vnc
             \/ request_initial_refresh \/ replay_clipboard
  BY <1>1 DEF run_vnc_thread, run_vnc_session, connect_error_result, connect_vnc,
              request_initial_refresh, replay_clipboard, EndWith, displayVars, Reconnect
<1>2. CASE poll_event
  BY <1>2 DEF poll_event
<1>3. CASE poll_error \/ flush_frame \/ drain_remote_inputs \/ refresh_if_needed
  BY <1>3 DEF poll_error, flush_frame, drain_remote_inputs, refresh_if_needed, EndWith,
              displayVars
<1>4. CASE handle_vnc_input
  BY <1>4 DEF handle_vnc_input, send_clipboard_text, InputFailed, EndWith
<1>5. CASE shutdown_session
  BY <1>5 DEF shutdown_session, loopVars
<1>6. CASE run_vnc_backend \/ wait_before_reconnect \/ session_thread_ends \/ handle_wait_input
  <2>1. pc \in {"backend", "waiting", "finished"}
    BY <1>6 DEF run_vnc_backend, wait_before_reconnect, session_thread_ends, handle_wait_input
  <2>2. framebuffer' = framebuffer /\ was_connected' = was_connected
    BY <1>6 DEF run_vnc_backend, wait_before_reconnect, session_thread_ends, handle_wait_input,
                displayVars
  <2>3. pc' # "backend"
    BY <1>6 DEF run_vnc_backend, wait_before_reconnect, session_thread_ends, handle_wait_input
  <2> QED
    BY <2>1, <2>2, <2>3
<1>7. CASE WriterStep \/ stdin_ends \/ join_workers \/ \E input \in Requests : host_request(input)
  BY <1>7 DEF WriterStep, writer_recv, writer_stops, write_event, write_event_fails,
              stdin_ends, join_workers, host_request, SessionUnchanged, displayVars, loopVars
<1>8. CASE UNCHANGED vars
  BY <1>8 DEF vars, displayVars, loopVars
<1> QED
  BY <1>1, <1>2, <1>3, <1>4, <1>5, <1>6, <1>7, <1>8 DEF Next, SessionStep

-------------------------------------------------------------------------------
(* The announced delays.  The controls that announce a connection or a delay are *)
(* seen alone; the delays along host, hand and mailbox form a chain.             *)

Announcing == Connecteds \cup Reconnectings

\* The announcements that wait in the mailbox, in their order.
Announced == Without(control, Controls \ Announcing)

\* The delay that the host remembers after an announcement.
DelayOf(c) == IF c.kind = "Reconnecting" THEN c.delay ELSE None

NotAbove(d, e) == d # None /\ e # None => d =< e

\* From delay h on, the announcements of A never announce a smaller one.
Chain(h, A) ==
    /\ A # <<>> => NotAbove(h, DelayOf(A[1]))
    /\ \A i \in 1..(Len(A) - 1) : NotAbove(DelayOf(A[i]), DelayOf(A[i + 1]))

\* The delay that the host remembers after h and all of A.
ChainEnd(h, A) == IF A = <<>> THEN h ELSE DelayOf(A[Len(A)])

\* The delay that the host remembers after what the writer holds.
Held == IF hand \in Announcing THEN DelayOf(hand) ELSE host_delay

\* The session thread takes the current connection for one that has been up.
Claimed ==
    \/ was_connected
    \/ pc \in {"shutdown", "backend"} /\ result.kind = "Reconnect" /\ result.was_connected

\* The delays never shrink along the pipeline; the next one to be announced is not
\* below the last one announced, which a connection that was up has reset.
BackoffInv ==
    /\ hand \in Announcing => NotAbove(host_delay, DelayOf(hand))
    /\ Chain(Held, Announced)
    /\ receiver_alive => NotAbove(ChainEnd(Held, Announced), reconnect_delay(reconnect_attempt))
    /\ receiver_alive /\ Claimed => ChainEnd(Held, Announced) = None

LEMMA ChainAppend ==
    ASSUME NEW S, NEW A \in Seq(S), NEW h, NEW c \in S, Chain(h, A),
           NotAbove(ChainEnd(h, A), DelayOf(c))
    PROVE  Chain(h, Append(A, c)) /\ ChainEnd(h, Append(A, c)) = DelayOf(c)
<1> DEFINE B == Append(A, c)
           n == Len(A)
<1>1. /\ B \in Seq(S) /\ n \in Nat /\ Len(B) = n + 1
      /\ \A i \in 1..n : B[i] = A[i]
      /\ B[n + 1] = c
  BY AppendProperties, LenProperties
<1>2. B # <<>> /\ (A = <<>> <=> n = 0)
  BY <1>1, EmptySeq
<1> HIDE DEF B
<1>3. ChainEnd(h, B) = DelayOf(c)
  BY <1>1, <1>2 DEF ChainEnd
<1>4. NotAbove(h, DelayOf(B[1]))
  <2>1. CASE n = 0
    BY <1>1, <1>2, <2>1 DEF ChainEnd
  <2>2. CASE n # 0
    <3>1. B[1] = A[1]
      BY <1>1, <2>2
    <3> QED
      BY <1>2, <2>2, <3>1 DEF Chain
  <2> QED
    BY <2>1, <2>2
<1>5. ASSUME NEW i \in 1..(Len(B) - 1)
      PROVE  NotAbove(DelayOf(B[i]), DelayOf(B[i + 1]))
  <2>1. i \in 1..n /\ B[i] = A[i]
    BY <1>1
  <2>2. CASE i = n
    <3>1. ChainEnd(h, A) = DelayOf(A[n])
      BY <1>1, <1>2, <2>1 DEF ChainEnd
    <3> QED
      BY <1>1, <2>1, <2>2, <3>1
  <2>3. CASE i # n
    <3>1. i \in 1..(n - 1) /\ i + 1 \in 1..n
      BY <1>1, <2>1, <2>3
    <3>2. B[i + 1] = A[i + 1]
      BY <1>1, <3>1
    <3> QED
      BY <2>1, <3>1, <3>2 DEF Chain
  <2> QED
    BY <2>2, <2>3
<1>6. Chain(h, B)
  BY <1>4, <1>5 DEF Chain
<1> QED
  BY <1>3, <1>6 DEF B

LEMMA ChainTail ==
    ASSUME NEW S, NEW A \in Seq(S), NEW h, A # <<>>, Chain(h, A)
    PROVE  /\ NotAbove(h, DelayOf(Head(A)))
           /\ Chain(DelayOf(Head(A)), Tail(A))
           /\ ChainEnd(DelayOf(Head(A)), Tail(A)) = ChainEnd(h, A)
<1> DEFINE B == Tail(A)
           n == Len(A)
<1>1. /\ B \in Seq(S) /\ n \in Nat /\ n # 0 /\ Len(B) = n - 1 /\ Head(A) = A[1]
      /\ \A i \in 1..Len(B) : B[i] = A[i + 1]
  BY HeadTailProperties, LenProperties, EmptySeq
<1> HIDE DEF B
<1>2. B = <<>> <=> n = 1
  <2>1. B = <<>> <=> Len(B) = 0
    BY <1>1, EmptySeq
  <2> QED
    BY <1>1, <2>1
<1>3. NotAbove(h, DelayOf(Head(A)))
  BY <1>1 DEF Chain
<1>4. B # <<>> => NotAbove(DelayOf(Head(A)), DelayOf(B[1]))
  <2>1. CASE n # 1
    <3>1. 1 \in 1..(n - 1) /\ B[1] = A[1 + 1]
      BY <1>1, <2>1
    <3> QED
      BY <1>1, <3>1 DEF Chain
  <2> QED
    BY <1>2, <2>1
<1>5. ASSUME NEW i \in 1..(Len(B) - 1)
      PROVE  NotAbove(DelayOf(B[i]), DelayOf(B[i + 1]))
  <2>1. i + 1 \in 1..(n - 1) /\ i \in 1..Len(B) /\ i + 1 \in 1..Len(B)
    BY <1>1
  <2>2. B[i] = A[i + 1] /\ B[i + 1] = A[(i + 1) + 1]
    BY <1>1, <2>1
  <2> QED
    BY <2>1, <2>2 DEF Chain
<1>6. ChainEnd(DelayOf(Head(A)), B) = ChainEnd(h, A)
  <2>1. CASE n = 1
    BY <1>1, <1>2, <2>1 DEF ChainEnd
  <2>2. CASE n # 1
    <3>1. Len(B) \in 1..Len(B) /\ Len(B) + 1 = n
      BY <1>1, <2>2
    <3>2. B[Len(B)] = A[n]
      BY <1>1, <3>1
    <3> QED
      BY <1>2, <2>2, <3>2 DEF ChainEnd
  <2> QED
    BY <2>1, <2>2
<1> QED
  BY <1>3, <1>4, <1>5, <1>6 DEF Chain, B

LEMMA AnnouncingControls ==
    /\ SessionScoped \subseteq Controls \ Announcing
    /\ Controls \ (Controls \ Announcing) = Announcing
    /\ \A c \in Announcing : DelayOf(c) \in Delays \cup {None}
    /\ None \notin Announcing
<1>1. SessionScoped \subseteq Controls \ Announcing
  BY KindsOfControls DEF Controls, Announcing, Connecteds, Reconnectings
<1>2. Controls \ (Controls \ Announcing) = Announcing
  BY DEF Controls, Announcing
<1>3. \A c \in Announcing : DelayOf(c) \in Delays \cup {None}
  BY DEF Announcing, Connecteds, Reconnectings, DelayOf
<1>4. None \notin Announcing
  BY NoneIsNoOutput DEF Controls, Announcing
<1> QED
  BY <1>1, <1>2, <1>3, <1>4

LEMMA AnnouncedType ==
    ASSUME TypeOK
    PROVE  Announced \in Seq(Announcing)
<1>1. control \in Seq(Controls)
  BY DEF TypeOK, MailboxTypeOK
<1>2. Without(control, Controls \ Announcing) \in Seq(Controls \ (Controls \ Announcing))
  BY <1>1, WithoutProperties
<1> QED
  BY <1>2, AnnouncingControls DEF Announced

\* An output that announces nothing leaves the announcements alone; one that does
\* joins them, if somebody is there to receive it.
LEMMA SendAnnounced ==
    ASSUME TypeOK, NEW output \in AnyOutput, send(output)
    PROVE  /\ Announced' = IF receiver_alive /\ output \in Announcing
                           THEN Append(Announced, output) ELSE Announced
           /\ receiver_alive' = receiver_alive
<1>1. MailboxTypeOK
  BY DEF TypeOK
<1>2. output \in Controls \ (Controls \ Announcing) <=> output \in Announcing
  BY AnnouncingControls
<1>3. Without(control', Controls \ Announcing)
        = IF receiver_alive /\ output \in Controls \ (Controls \ Announcing)
          THEN Append(Without(control, Controls \ Announcing), output)
          ELSE Without(control, Controls \ Announcing)
  BY <1>1, AnnouncingControls, SendThrough
<1>4. receiver_alive' = receiver_alive
  BY DEF send
<1> QED
  BY <1>2, <1>3, <1>4 DEF Announced

LEMMA OthersAnnounced ==
    ASSUME TypeOK, begin_generation \/ drop_sender \/ UNCHANGED mailboxVars
    PROVE  Announced' = Announced /\ receiver_alive' = receiver_alive
<1>1. MailboxTypeOK
  BY DEF TypeOK
<1>2. Without(control', Controls \ Announcing) = Without(control, Controls \ Announcing)
  BY <1>1, AnnouncingControls, SendersThrough
<1>3. receiver_alive' = receiver_alive
  BY DEF begin_generation, drop_sender, mailboxVars
<1> QED
  BY <1>2, <1>3 DEF Announced

\* Only SetResolution makes a connection one that has been up.
LEMMA ClaimStep ==
    ASSUME TypeOK, NoSession, [Next]_vars, ~\E size \in Sizes : poll_event /\ set_resolution(size)
    PROVE  Claimed' => Claimed
<1> USE DEF Claimed
<1>1. CASE run_vnc_thread \/ run_vnc_session \/ handle_wait_input \/ wait_before_reconnect
             \/ session_thread_ends \/ flush_frame \/ WriterStep \/ stdin_ends \/ join_workers
             \/ \E input \in Requests : host_request(input)
  <2>1. /\ was_connected' = was_connected /\ result' = result
        /\ pc' = pc \/ pc' \notin {"shutdown", "backend"}
    BY <1>1 DEF run_vnc_thread, run_vnc_session, handle_wait_input, wait_before_reconnect,
                session_thread_ends, flush_frame, WriterStep, writer_recv, writer_stops,
                write_event, write_event_fails, stdin_ends, join_workers, host_request,
                SessionUnchanged, displayVars, loopVars
  <2> QED
    BY <2>1
<1>2. CASE connect_error_result
  <2>1. was_connected' = was_connected
    BY <1>2 DEF connect_error_result, displayVars
  <2>2. ~(pc' \in {"shutdown", "backend"} /\ result'.was_connected)
    BY <1>2 DEF connect_error_result, Reconnect
  <2> QED
    BY <2>1, <2>2
<1>3. CASE connect_vnc
  BY <1>3 DEF connect_vnc, loopVars
<1>4. CASE request_initial_refresh \/ replay_clipboard \/ poll_error \/ drain_remote_inputs
             \/ refresh_if_needed
  <2>1. was_connected' = was_connected
    BY <1>4 DEF request_initial_refresh, replay_clipboard, poll_error, drain_remote_inputs,
                refresh_if_needed, displayVars
  <2>2. \/ result' = result /\ pc' \notin {"shutdown", "backend"}
        \/ result' = [kind |-> "InputClosed"]
        \/ \E reason : result' = Reconnect(reason, FALSE, was_connected)
    BY <1>4 DEF request_initial_refresh, replay_clipboard, poll_error, drain_remote_inputs,
                refresh_if_needed, EndWith
  <2>3. pc' \in {"shutdown", "backend"} /\ result'.kind = "Reconnect"
          => result'.was_connected = was_connected
    BY <2>2 DEF Reconnect
  <2> QED
    BY <2>1, <2>3
<1>5. CASE handle_vnc_input
  <2>1. was_connected' = was_connected
    BY <1>5 DEF handle_vnc_input, displayVars
  <2>2. \/ result' = result /\ pc' \notin {"shutdown", "backend"}
        \/ result' = [kind |-> "Closed"]
        \/ result' = Reconnect("Manual", TRUE, was_connected)
        \/ result' = Reconnect(reconnect_reason, FALSE, was_connected)
    BY <1>5 DEF handle_vnc_input, send_clipboard_text, InputFailed, EndWith
  <2>3. pc' \in {"shutdown", "backend"} /\ result'.kind = "Reconnect"
          => result'.was_connected = was_connected
    BY <2>2 DEF Reconnect
  <2> QED
    BY <2>1, <2>3
<1>6. CASE poll_event
  <2>1. result' = result /\ pc' = pc
    BY <1>6 DEF poll_event
  <2>2. was_connected' = was_connected
    BY <1>6 DEF poll_event, handle_event, patch_rect, copy_rect, report, displayVars
  <2> QED
    BY <2>1, <2>2
<1>7. CASE shutdown_session
  BY <1>7 DEF shutdown_session, loopVars
<1>8. CASE run_vnc_backend
  BY <1>8 DEF run_vnc_backend, displayVars
<1>9. CASE UNCHANGED vars
  BY <1>9 DEF vars, displayVars, loopVars
<1> QED
  BY <1>1, <1>2, <1>3, <1>4, <1>5, <1>6, <1>7, <1>8, <1>9 DEF Next, SessionStep

\* A step that touches neither the announcements nor the attempts.
LEMMA BackoffSame ==
    ASSUME BackoffInv, Announced' = Announced, Claimed' => Claimed,
           UNCHANGED <<hand, host_delay, receiver_alive, reconnect_attempt>>
    PROVE  BackoffInv'
<1>1. Held' = Held
  BY DEF Held
<1> QED
  BY <1>1 DEF BackoffInv

LEMMA DelaysGrow ==
    /\ \A a \in 0..3 : NotAbove(reconnect_delay(a), reconnect_delay(NextAttempt(a)))
    /\ \A a \in 0..3 : reconnect_delay(a) \in Delays /\ NextAttempt(a) \in 0..3
    /\ NotAbove(None, reconnect_delay(0))
<1>1. /\ reconnect_delay(0) = 1 /\ reconnect_delay(1) = 2 /\ reconnect_delay(2) = 5
      /\ reconnect_delay(3) = 10
  BY DEF reconnect_delay
<1>2. /\ NextAttempt(0) = 1 /\ NextAttempt(1) = 2 /\ NextAttempt(2) = 3 /\ NextAttempt(3) = 3
  BY DEF NextAttempt
<1>3. 0..3 = {0, 1, 2, 3}
  OBVIOUS
<1> QED
  BY <1>1, <1>2, <1>3, DelayAssumption DEF NotAbove

LEMMA BackoffNext ==
    ASSUME TypeOK, NoSession, BackoffInv, [Next]_vars
    PROVE  BackoffInv'
<1>a. Announced \in Seq(Announcing)
  BY AnnouncedType
<1>c. CASE ~\E size \in Sizes : poll_event /\ set_resolution(size)
  <2>c. Claimed' => Claimed
    BY <1>c, ClaimStep
  <2>s. ASSUME NEW output \in AnyOutput, output \notin Announcing, send(output),
               UNCHANGED <<hand, host_delay, reconnect_attempt>>
        PROVE  BackoffInv'
    <3>1. Announced' = Announced /\ receiver_alive' = receiver_alive
      BY <2>s, SendAnnounced
    <3> QED
      BY <2>c, <2>s, <3>1, BackoffSame
  <2>o. ASSUME begin_generation \/ drop_sender \/ UNCHANGED mailboxVars,
               UNCHANGED <<hand, host_delay, reconnect_attempt>>
        PROVE  BackoffInv'
    <3>1. Announced' = Announced /\ receiver_alive' = receiver_alive
      BY <2>o, OthersAnnounced
    <3> QED
      BY <2>c, <2>o, <3>1, BackoffSame
  <2>k. \A output : output \in Announcing => output.kind \in {"Connected", "Reconnecting"}
    BY DEF Announcing, Connecteds, Reconnectings
  <2>1. CASE run_vnc_thread
    BY <2>1, <2>k, <2>s, <2>o, SentOutputs
    DEF run_vnc_thread, OthersUnchanged, writerVars, hostVars, loopVars
  <2>2. CASE run_vnc_session
    BY <2>2, <2>k, <2>s, SentOutputs
    DEF run_vnc_session, OthersUnchanged, writerVars, hostVars, loopVars
  <2>3. CASE connect_error_result
    <3>1. UNCHANGED <<hand, host_delay, reconnect_attempt>>
      BY <2>3 DEF connect_error_result, OthersUnchanged, writerVars, hostVars
    <3>2. send([kind |-> "ConnectionFailure"]) \/ UNCHANGED mailboxVars
      BY <2>3 DEF connect_error_result
    <3>3. [kind |-> "ConnectionFailure"] \notin Announcing
      BY <2>k
    <3> QED
      BY <2>s, <2>o, <3>1, <3>2, <3>3, SentOutputs
  <2>4. CASE connect_vnc
    BY <2>4, <2>o DEF connect_vnc, OthersUnchanged, writerVars, hostVars, loopVars
  <2>5. CASE request_initial_refresh \/ replay_clipboard \/ poll_error \/ drain_remote_inputs
               \/ handle_vnc_input \/ refresh_if_needed \/ shutdown_session
               \/ handle_wait_input \/ wait_before_reconnect
    <3>1. UNCHANGED mailboxVars /\ UNCHANGED <<hand, host_delay, reconnect_attempt>>
      BY <2>5 DEF request_initial_refresh, replay_clipboard, poll_error, drain_remote_inputs,
                  handle_vnc_input, refresh_if_needed, shutdown_session, handle_wait_input,
                  wait_before_reconnect, OthersUnchanged, writerVars, hostVars, loopVars
    <3> QED
      BY <2>o, <3>1
  <2>6. CASE poll_event
    <3>1. UNCHANGED <<hand, host_delay, reconnect_attempt>>
      BY <2>6 DEF poll_event, OthersUnchanged, writerVars, hostVars
    <3>2. CASE UNCHANGED mailboxVars
      BY <2>o, <3>1, <3>2
    <3>3. ASSUME NEW text \in Texts, send([kind |-> "ClipboardText", text |-> text])
          PROVE  BackoffInv'
      BY <2>k, <2>s, <3>1, <3>3, SentOutputs
    <3>4. CASE send([kind |-> "Status"])
      BY <2>k, <2>s, <3>1, <3>4, SentOutputs
    <3> QED
      BY <1>c, <2>6, <3>2, <3>3, <3>4 DEF poll_event, handle_event, patch_rect, copy_rect, report
  <2>7. CASE flush_frame
    <3>1. UNCHANGED <<hand, host_delay, reconnect_attempt>>
      BY <2>7 DEF flush_frame, OthersUnchanged, writerVars, hostVars
    <3>2. CASE UNCHANGED mailboxVars
      BY <2>o, <3>1, <3>2
    <3>3. ASSUME framebuffer # None, NEW output \in Frames \cup Deltas, send(output)
          PROVE  BackoffInv'
      <4>1. output \in AnyOutput /\ output \notin Announcing
        BY <3>3, KindsOfControls DEF AnyOutput, Announcing, Controls
      <4> QED
        BY <2>s, <3>1, <3>3, <4>1
    <3> QED
      BY <2>7, <3>2, <3>3, FlushedOutputs DEF flush_frame
  <2>8. CASE run_vnc_backend
    <3> DEFINE attempt == IF result.was_connected \/ result.manual THEN 0 ELSE reconnect_attempt
               output == IF result.manual THEN [kind |-> "Reconnecting", delay |-> None]
                         ELSE [kind |-> "Reconnecting", delay |-> reconnect_delay(attempt)]
    <3>1. reconnect_attempt \in 0..3 /\ attempt \in 0..3
      BY DEF TypeOK
    <3>2. /\ send(output) /\ UNCHANGED <<hand, host_delay>>
          /\ reconnect_attempt' = IF result.manual THEN attempt ELSE NextAttempt(attempt)
      BY <2>8 DEF run_vnc_backend, OthersUnchanged, writerVars, hostVars
    <3>3. ~Claimed'
      BY <2>8 DEF run_vnc_backend, NoSession, Outside, Claimed, displayVars
    <3>4. /\ output \in Announcing /\ output \in AnyOutput
          /\ DelayOf(output) = IF result.manual THEN None ELSE reconnect_delay(attempt)
      <4> HIDE DEF attempt
      <4>1. reconnect_delay(attempt) \in Delays
        BY <3>1, DelaysGrow
      <4> QED
        BY <4>1 DEF Announcing, Reconnectings, AnyOutput, Controls, DelayOf
    <3>5. Held' = Held
      BY <3>2 DEF Held
    <3>6. CASE ~receiver_alive
      <4>1. Announced' = Announced /\ ~receiver_alive'
        BY <3>2, <3>4, <3>6, SendAnnounced
      <4> QED
        BY <3>2, <3>5, <4>1 DEF BackoffInv
    <3>7. CASE receiver_alive
      <4>1. Announced' = Append(Announced, output) /\ receiver_alive'
        BY <3>2, <3>4, <3>7, SendAnnounced
      <4>2. NotAbove(ChainEnd(Held, Announced), DelayOf(output))
        <5>1. CASE result.manual
          BY <3>4, <5>1 DEF NotAbove
        <5>2. CASE ~result.manual /\ result.was_connected
          <6>1. pc = "backend" /\ result.kind = "Reconnect"
            BY <2>8 DEF run_vnc_backend, NoSession
          <6>2. Claimed
            BY <5>2, <6>1 DEF Claimed
          <6> QED
            BY <3>7, <6>2 DEF BackoffInv, NotAbove
        <5>3. CASE ~result.manual /\ ~result.was_connected
          <6>1. DelayOf(output) = reconnect_delay(reconnect_attempt)
            BY <3>4, <5>3
          <6> QED
            BY <3>7, <6>1 DEF BackoffInv
        <5> QED
          BY <5>1, <5>2, <5>3
      <4>3. Chain(Held, Announced') /\ ChainEnd(Held, Announced') = DelayOf(output)
        BY <1>a, <3>4, <4>1, <4>2, ChainAppend DEF BackoffInv
      <4>4. NotAbove(DelayOf(output), reconnect_delay(reconnect_attempt'))
        <5> HIDE DEF attempt, output
        <5>1. CASE result.manual
          BY <3>4, <5>1 DEF NotAbove
        <5>2. CASE ~result.manual
          BY <3>1, <3>2, <3>4, <5>2, DelaysGrow
        <5> QED
          BY <5>1, <5>2
      <4>5. hand' \in Announcing => NotAbove(host_delay', DelayOf(hand'))
        BY <3>2 DEF BackoffInv
      <4> HIDE DEF output, attempt
      <4> QED
        BY <3>3, <3>5, <4>3, <4>4, <4>5 DEF BackoffInv
    <3> QED
      BY <3>6, <3>7 DEF TypeOK, MailboxTypeOK
  <2>9. CASE session_thread_ends
    BY <2>9, <2>o DEF session_thread_ends, OthersUnchanged, writerVars, hostVars, loopVars
  <2>10. CASE stdin_ends \/ join_workers \/ \E input \in Requests : host_request(input)
    BY <2>10, <2>o DEF stdin_ends, join_workers, host_request, SessionUnchanged, writerVars,
                       hostVars, loopVars
  <2>11. CASE UNCHANGED vars
    BY <2>11, <2>o DEF vars, writerVars, hostVars, loopVars
  <2>12. CASE writer_recv
    <3>1. /\ hand = None /\ recv_output /\ hand' = NextOutput
          /\ UNCHANGED <<host_delay, reconnect_attempt, receiver_alive>>
      BY <2>12 DEF writer_recv, recv_output, hostVars, SessionUnchanged, loopVars
    <3>2. Held = host_delay
      BY <3>1, AnnouncingControls DEF Held
    <3>3. IF NextOutput \in Announcing
          THEN /\ Announced # <<>> /\ Head(Announced) = NextOutput
               /\ Announced' = Tail(Announced)
          ELSE Announced' = Announced
      <4>1. MailboxTypeOK
        BY DEF TypeOK
      <4> QED
        BY <3>1, <4>1, RecvThrough, AnnouncingControls DEF Announced
    <3>4. CASE NextOutput \in Announcing
      <4>1. /\ NotAbove(Held, DelayOf(NextOutput))
            /\ Chain(DelayOf(NextOutput), Announced')
            /\ ChainEnd(DelayOf(NextOutput), Announced') = ChainEnd(Held, Announced)
        BY <1>a, <3>3, <3>4, ChainTail DEF BackoffInv
      <4>2. Held' = DelayOf(NextOutput)
        BY <3>1, <3>4 DEF Held
      <4>3. hand' \in Announcing => NotAbove(host_delay', DelayOf(hand'))
        BY <3>1, <3>2, <4>1
      <4> QED
        BY <2>c, <3>1, <4>1, <4>2, <4>3 DEF BackoffInv
    <3>5. CASE NextOutput \notin Announcing
      <4>1. Held' = Held /\ hand' \notin Announcing /\ Announced' = Announced
        BY <3>1, <3>2, <3>3, <3>5 DEF Held
      <4> QED
        BY <2>c, <3>1, <4>1 DEF BackoffInv
    <3> QED
      BY <3>4, <3>5
  <2>13. CASE writer_stops \/ write_event_fails
    <3>1. hand' = None /\ control' = <<>> /\ receiver_alive' = FALSE
      BY <2>13 DEF writer_stops, write_event_fails, drop_receiver
    <3>2. Announced' = <<>>
      BY <3>1, WithoutEmpty DEF Announced
    <3>3. Chain(Held', Announced')
      BY <3>2, EmptySeq DEF Chain
    <3> QED
      BY <3>1, <3>3, AnnouncingControls DEF BackoffInv
  <2>14. CASE write_event
    <3>1. /\ hand # None /\ hand' = None /\ UNCHANGED <<mailboxVars, reconnect_attempt>>
          /\ host_delay' = CASE hand.kind = "Connected" -> None
                             [] hand.kind = "Reconnecting" -> hand.delay
                             [] OTHER -> host_delay
      BY <2>14 DEF write_event, SessionUnchanged, loopVars
    <3>2. Announced' = Announced /\ receiver_alive' = receiver_alive
      BY <3>1, OthersAnnounced
    <3>3. hand.kind \in {"Connected", "Reconnecting"} <=> hand \in Announcing
      BY <3>1 DEF TypeOK, Announcing, Frames, Deltas, Controls, Connecteds, Reconnectings,
                  Terminals, Statuses, SessionScoped
    <3>4. host_delay' = Held
      BY <3>1, <3>3 DEF Held, DelayOf
    <3>5. Held' = Held /\ hand' \notin Announcing
      BY <3>1, <3>4, AnnouncingControls DEF Held
    <3> QED
      BY <2>c, <3>1, <3>2, <3>5 DEF BackoffInv
  <2> QED
    BY <2>1, <2>2, <2>3, <2>4, <2>5, <2>6, <2>7, <2>8, <2>9, <2>10, <2>11, <2>12, <2>13, <2>14
    DEF Next, SessionStep, WriterStep
<1>d. CASE \E size \in Sizes : poll_event /\ set_resolution(size)
  <2>1. PICK size \in Sizes : poll_event /\ set_resolution(size)
    BY <1>d
  <2> DEFINE output == [kind |-> "Connected", size |-> size]
  <2>2. /\ send(output) /\ UNCHANGED <<hand, host_delay, reconnect_attempt>>
    BY <2>1 DEF poll_event, set_resolution, OthersUnchanged, writerVars, hostVars
  <2>3. output \in Announcing /\ output \in AnyOutput /\ DelayOf(output) = None
    BY DEF Announcing, Connecteds, AnyOutput, Controls, DelayOf
  <2>4. Held' = Held
    BY <2>2 DEF Held
  <2> HIDE DEF output
  <2>5. CASE ~receiver_alive
    <3>1. Announced' = Announced /\ ~receiver_alive'
      BY <2>2, <2>3, <2>5, SendAnnounced
    <3> QED
      BY <2>2, <2>4, <3>1 DEF BackoffInv
  <2>6. CASE receiver_alive
    <3>1. Announced' = Append(Announced, output)
      BY <2>2, <2>3, <2>6, SendAnnounced
    <3>2. NotAbove(ChainEnd(Held, Announced), DelayOf(output))
      BY <2>3 DEF NotAbove
    <3>3. Chain(Held, Announced') /\ ChainEnd(Held, Announced') = None
      BY <1>a, <2>3, <3>1, <3>2, ChainAppend DEF BackoffInv
    <3> QED
      BY <2>2, <2>4, <3>3 DEF BackoffInv, NotAbove
  <2> QED
    BY <2>5, <2>6
<1> QED
  BY <1>c, <1>d

LEMMA BackoffInit == Init => NoSession /\ BackoffInv
<1> SUFFICES ASSUME Init PROVE NoSession /\ BackoffInv
  OBVIOUS
<1>1. NoSession
  BY DEF Init, NoSession, Outside
<1>2. control = <<>> /\ hand = None /\ host_delay = None /\ ~was_connected /\ pc = "boot"
      /\ reconnect_attempt = 0
  BY DEF Init, output_mailbox
<1>3. Announced = <<>>
  BY <1>2, WithoutEmpty DEF Announced
<1>4. Held = None /\ hand \notin Announcing
  BY <1>2, AnnouncingControls DEF Held
<1>5. Chain(Held, Announced) /\ ChainEnd(Held, Announced) = None
  BY <1>3, <1>4, EmptySeq DEF Chain, ChainEnd
<1> QED
  BY <1>1, <1>4, <1>5 DEF BackoffInv, NotAbove

\* Until a connection has been up, or the user reconnects, the delays that the host is
\* told never shrink, however far the writer lags behind the session thread.
THEOREM BackoffIsMonotone == Spec => []BackoffNeverShrinks
<1> DEFINE Inv == TypeOK /\ NoSession /\ BackoffInv
<1>1. Init => Inv
  BY InitType, BackoffInit
<1>2. Inv /\ [Next]_vars => Inv'
  BY NextType, NoSessionNext, BackoffNext
<1>3. Inv => BackoffNeverShrinks
  <2> SUFFICES ASSUME Inv, hand # None, hand.kind = "Reconnecting", hand.delay # None,
                      host_delay # None
               PROVE  hand.delay >= host_delay
    BY DEF BackoffNeverShrinks
  <2>1. hand \in Reconnectings /\ host_delay \in Delays
    BY DEF TypeOK, Frames, Deltas, Controls, Connecteds, Reconnectings, Terminals, Statuses,
           SessionScoped
  <2>2. hand \in Announcing /\ DelayOf(hand) = hand.delay /\ hand.delay \in Delays
    BY <2>1 DEF Announcing, DelayOf, Reconnectings
  <2>3. host_delay =< hand.delay
    BY <2>2 DEF BackoffInv, NotAbove
  <2>4. host_delay \in Nat /\ hand.delay \in Nat
    BY <2>1, <2>2, DelayAssumption
  <2> QED
    BY <2>3, <2>4
<1> QED
  BY <1>1, <1>2, <1>3, PTL DEF Spec

-------------------------------------------------------------------------------
(* The picture that is on its way to the host. *)

\* What the host shows once the pending full frame is written.
Base == Shown(Shown(host_image, hand), latest_frame)

\* A pending delta paints on a frame of its size that is written before it, and the
\* mailbox takes what is painted on a framebuffer.
PictureInv ==
    /\ PictureIsComplete
    /\ DeltaHasItsFrame
    /\ latest_delta # None => Base # None /\ Base.size = latest_delta.size
    /\ receiver_alive /\ framebuffer # None => accepting_session_outputs

LEMMA ShownControl ==
    ASSUME NEW image, NEW output \in Controls \cup {None}
    PROVE  Shown(image, output) = image
<1>1. output # None => output.kind \notin {"Frame", "FrameBgraRects"}
  BY DEF Controls, Connecteds, Reconnectings, Terminals, Statuses, SessionScoped
<1> QED
  BY <1>1 DEF Shown

LEMMA ShownDelta ==
    ASSUME NEW image \in Images \cup {None}, NEW delta \in Deltas
    PROVE  /\ Shown(image, delta) # None <=> image # None
           /\ image # None => Shown(image, delta).size = image.size
           /\ image # None /\ image.size = delta.size =>
                 Shown(image, delta).pix = Overlay(delta.pix, image.pix)
           /\ image # None /\ image.size # delta.size => Shown(image, delta) = image
<1>1. delta # None /\ delta.kind = "FrameBgraRects"
  BY NoneIsNoOutput DEF Deltas
<1>2. CASE image = None
  BY <1>1, <1>2 DEF Shown
<1>3. CASE image # None /\ image.size # delta.size
  BY <1>1, <1>3 DEF Shown
<1>4. CASE image # None /\ image.size = delta.size
  <2>1. Shown(image, delta) = [image EXCEPT !.pix = Overlay(delta.pix, image.pix)]
    BY <1>1, <1>4 DEF Shown
  <2>2. image \in Images
    BY <1>4
  <2>3. /\ Shown(image, delta).size = image.size
        /\ Shown(image, delta).pix = Overlay(delta.pix, image.pix)
    BY <2>1, <2>2 DEF Images
  <2>4. Shown(image, delta) \in Images
    <3>1. Overlay(delta.pix, image.pix) \in [Tiles -> Colors]
      BY <2>2 DEF Images, Deltas, Overlay
    <3> QED
      BY <2>1, <2>2, <3>1 DEF Images
  <2> QED
    BY <1>4, <2>3, <2>4, NoneIsNoImage
<1> QED
  BY <1>2, <1>3, <1>4

LEMMA ShownFrame ==
    ASSUME NEW image, NEW frame \in Frames
    PROVE  Shown(image, frame) = [size |-> frame.size, pix |-> frame.pix]
<1>1. frame # None /\ frame.kind = "Frame"
  BY NoneIsNoOutput DEF Frames
<1> QED
  BY <1>1 DEF Shown

\* Painting a merged delta is painting its parts one after the other.
LEMMA ShownMerged ==
    ASSUME NEW image \in Images, NEW previous \in Deltas, NEW next \in Deltas,
           image.size = next.size
    PROVE  /\ Shown(image, merge_deltas(previous, next)).size = image.size
           /\ Shown(image, merge_deltas(previous, next)).pix
                = Overlay(next.pix, Shown(image, previous).pix)
<1>1. merge_deltas(previous, next) \in Deltas
  BY MergeType
<1>2. image # None
  BY NoneIsNoImage
<1>3. CASE previous.size = next.size
  <2>1. /\ merge_deltas(previous, next).pix = Overlay(next.pix, previous.pix)
        /\ merge_deltas(previous, next).size = next.size
    BY <1>3 DEF merge_deltas, Deltas
  <2>2. /\ Shown(image, merge_deltas(previous, next)).size = image.size
        /\ Shown(image, merge_deltas(previous, next)).pix
             = Overlay(Overlay(next.pix, previous.pix), image.pix)
    BY <1>1, <1>2, <2>1, ShownDelta
  <2>3. Shown(image, previous).pix = Overlay(previous.pix, image.pix)
    BY <1>2, <1>3, ShownDelta
  <2>4. Overlay(Overlay(next.pix, previous.pix), image.pix)
          = Overlay(next.pix, Overlay(previous.pix, image.pix))
    BY DEF Overlay
  <2> QED
    BY <2>2, <2>3, <2>4
<1>4. CASE previous.size # next.size
  <2>1. merge_deltas(previous, next) = next
    BY <1>4 DEF merge_deltas
  <2>2. Shown(image, previous) = image
    BY <1>2, <1>4, ShownDelta
  <2> QED
    BY <1>2, <2>1, <2>2, ShownDelta
<1> QED
  BY <1>3, <1>4

LEMMA BaseType ==
    ASSUME TypeOK
    PROVE  /\ Base \in Images \cup {None}
           /\ PendingPicture \in Images \cup {None}
           /\ PendingPicture = Shown(Base, latest_delta)
<1>1. /\ host_image \in Images \cup {None}
      /\ hand \in AnyOutput \cup {None}
      /\ latest_frame \in AnyOutput \cup {None}
      /\ latest_delta \in AnyOutput \cup {None}
  BY DEF TypeOK, MailboxTypeOK, AnyOutput
<1>2. Shown(host_image, hand) \in Images \cup {None}
  BY <1>1, ShownType
<1>3. Base \in Images \cup {None}
  BY <1>1, <1>2, ShownType DEF Base
<1>4. PendingPicture = Shown(Base, latest_delta)
  BY DEF Base, PendingPicture
<1> QED
  BY <1>1, <1>3, <1>4, ShownType

\* What sending a control does to the two slots.
LEMMA ControlSlots ==
    ASSUME NEW output \in Controls, send(output)
    PROVE  /\ receiver_alive' = receiver_alive
           /\ latest_delta' = None \/ UNCHANGED <<latest_frame, latest_delta>>
           /\ output.kind \notin {"Reconnecting", "ConnectionFailure", "Terminated"} =>
                 /\ UNCHANGED <<latest_frame, latest_delta>>
                 /\ accepting_session_outputs => accepting_session_outputs'
           /\ output.kind = "Connected" /\ receiver_alive => accepting_session_outputs'
<1>1. output.kind \notin {"Frame", "FrameBgraRects"}
  BY DEF Controls, Connecteds, Reconnectings, Terminals, Statuses, SessionScoped
<1>2. output.kind = "Connected" => output \notin SessionScoped
  BY KindsOfControls
<1>3. CASE receiver_alive /\ SendBarrier(output)
  BY <1>3 DEF send, SendBarrier, close_session_outputs
<1>4. CASE receiver_alive /\ SendConnected(output)
  BY <1>4 DEF send, SendConnected
<1>5. CASE receiver_alive /\ (SendControl(output) \/ SendDropped(output))
  BY <1>1, <1>2, <1>5 DEF send, SendControl, SendDropped
<1>6. CASE ~receiver_alive
  BY <1>6 DEF send
<1> QED
  BY <1>1, <1>3, <1>4, <1>5, <1>6 DEF send, SendFrame, SendDelta

LEMMA PictureSame ==
    ASSUME PictureInv,
           UNCHANGED <<latest_frame, latest_delta, hand, host_image, framebuffer, keyframe,
                       dirty_rects, receiver_alive>>,
           accepting_session_outputs => accepting_session_outputs'
    PROVE  PictureInv'
<1>1. Base' = Base /\ PendingPicture' = PendingPicture /\ Dirty' = Dirty
  BY DEF Base, PendingPicture, Dirty
<1> QED
  BY <1>1 DEF PictureInv, PictureIsComplete, DeltaHasItsFrame

LEMMA PictureOutside ==
    ASSUME PictureInv, framebuffer' = None, UNCHANGED <<hand, host_image>>,
           latest_delta' = None \/ UNCHANGED <<latest_frame, latest_delta>>
    PROVE  PictureInv'
<1>1. latest_delta' # None => Base' = Base /\ latest_delta' = latest_delta
  BY DEF Base
<1> QED
  BY <1>1 DEF PictureInv, PictureIsComplete, DeltaHasItsFrame

\* flush_frame: the frame or the delta brings the host's picture up to date.
LEMMA PictureFlush ==
    ASSUME TypeOK, PictureInv, flush_frame
    PROVE  PictureInv'
<1> USE DEF OthersUnchanged, writerVars, hostVars
<1>1. CASE UNCHANGED <<mailboxVars, keyframe, dirty_rects>>
  BY <1>1, PictureSame DEF flush_frame, mailboxVars
<1>2. CASE framebuffer # None /\ dirty_rects # <<>> /\ ~UNCHANGED <<mailboxVars, keyframe, dirty_rects>>
  <2> DEFINE frame == [kind |-> "Frame", size |-> framebuffer.size, pix |-> framebuffer.pix]
             output == IF keyframe THEN frame ELSE DirtyDelta
  <2>1. /\ send(output) /\ keyframe' = FALSE /\ dirty_rects' = <<>>
        /\ UNCHANGED <<framebuffer, hand, host_image>>
    BY <1>2 DEF flush_frame
  <2>2. frame \in Frames /\ DirtyDelta \in Deltas /\ framebuffer \in Images
    BY <1>2, FlushedOutputs DEF TypeOK
  <2>3. frame.kind = "Frame" /\ DirtyDelta.kind = "FrameBgraRects"
        /\ DirtyDelta.size = framebuffer.size
        /\ DirtyDelta.pix = [t \in Tiles |-> IF t \in Dirty THEN framebuffer.pix[t] ELSE NoPixel]
    BY DEF DirtyDelta
  <2>4. frame.size = framebuffer.size /\ frame.pix = framebuffer.pix
    OBVIOUS
  <2>5. receiver_alive' = receiver_alive
    BY <2>1 DEF send
  <2>6. CASE ~receiver_alive
    <3>1. UNCHANGED <<latest_frame, latest_delta, accepting_session_outputs>>
      BY <2>1, <2>6 DEF send
    <3>2. Base' = Base
      BY <2>1, <3>1 DEF Base
    <3> QED
      BY <2>1, <2>5, <2>6, <3>1, <3>2 DEF PictureInv, PictureIsComplete, DeltaHasItsFrame
  <2>7. CASE receiver_alive
    <3>1. accepting_session_outputs
      BY <1>2, <2>7 DEF PictureInv
    <3>2. output \notin Controls
      <4>1. frame \notin Controls /\ DirtyDelta \notin Controls
        BY <2>2, KindsOfControls
      <4> QED
        BY <4>1
    <3>3. output \notin SessionScoped /\ output.kind \in {"Frame", "FrameBgraRects"}
      BY <2>3, <3>2 DEF Controls
    <3> HIDE DEF output
    <3>4. SendFrame(output) \/ SendDelta(output)
      BY <2>1, <2>7, <3>1, <3>3
      DEF send, SendBarrier, SendConnected, SendDropped, SendControl
    <3>5. accepting_session_outputs'
      BY <3>1, <3>4 DEF SendFrame, SendDelta
    <3>6. CASE keyframe
      <4>1. output = frame
        BY <3>6 DEF output
      <4>2. latest_frame' = frame /\ latest_delta' = None
        BY <2>3, <3>4, <4>1 DEF SendFrame, SendDelta
      <4> HIDE DEF frame
      <4>3. PendingPicture' = Shown(Shown(Shown(host_image, hand), frame), None)
        BY <2>1, <4>2 DEF PendingPicture
      <4>4. PendingPicture' = [size |-> frame.size, pix |-> frame.pix]
        BY <2>2, <4>3, ShownFrame, ShownControl
      <4>5. [size |-> frame.size, pix |-> frame.pix] \in Images
        BY <2>2 DEF Frames, Images
      <4>6. /\ PendingPicture' # None
            /\ PendingPicture'.size = framebuffer'.size
            /\ PendingPicture'.pix = framebuffer'.pix
        BY <2>1, <2>4, <4>4, <4>5, NoneIsNoImage
      <4> QED
        BY <2>1, <3>5, <4>2, <4>6 DEF PictureInv, PictureIsComplete, DeltaHasItsFrame
    <3>7. CASE ~keyframe
      <4>1. output = DirtyDelta
        BY <3>7 DEF output
      <4>2. latest_frame' = latest_frame
            /\ latest_delta' = IF latest_delta = None THEN DirtyDelta
                               ELSE merge_deltas(latest_delta, DirtyDelta)
        BY <2>3, <3>4, <4>1 DEF SendFrame, SendDelta
      <4>3. /\ PendingPicture # None /\ PendingPicture.size = framebuffer.size
            /\ \A t \in Tiles \ Dirty : PendingPicture.pix[t] = framebuffer.pix[t]
        BY <1>2, <2>7, <3>7 DEF PictureInv, PictureIsComplete
      <4>4. /\ Base \in Images \cup {None} /\ PendingPicture = Shown(Base, latest_delta)
            /\ latest_delta \in Deltas \cup {None} /\ Base' = Base
        BY <2>1, <4>2, BaseType DEF TypeOK, MailboxTypeOK, Base
      <4>5. Base \in Images /\ Base.size = framebuffer.size
        <5>1. CASE latest_delta = None
          BY <4>3, <4>4, <5>1, ShownControl
        <5>2. CASE latest_delta # None
          BY <4>3, <4>4, <5>2, ShownDelta
        <5> QED
          BY <5>1, <5>2
      <4>6. PendingPicture' = Shown(Base, latest_delta')
        BY <4>4 DEF Base, PendingPicture
      <4>7. /\ PendingPicture'.size = Base.size
            /\ PendingPicture'.pix = Overlay(DirtyDelta.pix, PendingPicture.pix)
        <5>1. CASE latest_delta = None
          <6>1. PendingPicture = Base /\ latest_delta' = DirtyDelta
            BY <4>2, <4>4, <5>1, ShownControl
          <6> QED
            BY <2>2, <2>3, <4>5, <4>6, <6>1, ShownDelta, NoneIsNoImage
        <5>2. CASE latest_delta # None
          <6>1. latest_delta \in Deltas /\ latest_delta' = merge_deltas(latest_delta, DirtyDelta)
            BY <4>2, <4>4, <5>2
          <6> QED
            BY <2>2, <2>3, <4>4, <4>5, <4>6, <6>1, ShownMerged
        <5> QED
          BY <5>1, <5>2
      <4>8. \A t \in Tiles : PendingPicture'.pix[t] = framebuffer'.pix[t]
        <5> SUFFICES ASSUME NEW t \in Tiles PROVE PendingPicture'.pix[t] = framebuffer'.pix[t]
          OBVIOUS
        <5>1. framebuffer.pix[t] # NoPixel
          BY <2>2, NoPixelIsNoColor DEF Images
        <5>2. Overlay(DirtyDelta.pix, PendingPicture.pix)[t] = framebuffer.pix[t]
          <6>1. CASE t \in Dirty
            BY <2>3, <5>1, <6>1 DEF Overlay
          <6>2. CASE t \notin Dirty
            BY <2>3, <4>3, <6>2 DEF Overlay
          <6> QED
            BY <6>1, <6>2
        <5> QED
          BY <2>1, <4>7, <5>2
      <4>9. latest_delta' \in Deltas /\ latest_delta'.size = framebuffer.size
        <5>1. CASE latest_delta = None
          BY <2>2, <2>3, <4>2, <5>1
        <5>2. CASE latest_delta # None
          <6>1. merge_deltas(latest_delta, DirtyDelta) \in Deltas
            BY <2>2, <4>4, <5>2, MergeType
          <6>2. merge_deltas(latest_delta, DirtyDelta).size = DirtyDelta.size
            BY <2>2 DEF merge_deltas, Deltas
          <6> QED
            BY <2>3, <4>2, <5>2, <6>1, <6>2
        <5> QED
          BY <5>1, <5>2
      <4>10. PendingPicture' # None
        BY <4>5, <4>6, <4>9, ShownDelta, NoneIsNoImage
      <4>11. Base' # None /\ Base'.size = latest_delta'.size
        BY <4>4, <4>5, <4>9, NoneIsNoImage
      <4>12. PictureIsComplete'
        BY <2>1, <4>5, <4>7, <4>8, <4>10 DEF PictureIsComplete
      <4> QED
        BY <2>1, <3>5, <4>11, <4>12 DEF PictureInv, DeltaHasItsFrame
    <3> QED
      BY <3>6, <3>7
  <2> QED
    BY <2>6, <2>7
<1> QED
  BY <1>1, <1>2 DEF flush_frame

\* The writer only moves outputs towards the host.
LEMMA PictureWriter ==
    ASSUME TypeOK, PictureInv, WriterStep
    PROVE  PictureInv'
<1>d. UNCHANGED <<framebuffer, keyframe, dirty_rects>>
  BY DEF WriterStep, writer_recv, writer_stops, write_event, write_event_fails,
         SessionUnchanged, displayVars
<1>t. /\ latest_frame \in Frames \cup {None} /\ latest_delta \in Deltas \cup {None}
      /\ control \in Seq(Controls)
  BY DEF TypeOK, MailboxTypeOK
<1>s. ASSUME Base' = Base, latest_delta' = latest_delta, DeltaHasItsFrame',
             UNCHANGED <<receiver_alive, accepting_session_outputs>>
      PROVE  PictureInv'
  <2>1. PendingPicture' = PendingPicture /\ Dirty' = Dirty
    BY <1>d, <1>s DEF PendingPicture, Base, Dirty
  <2> QED
    BY <1>d, <1>s, <2>1 DEF PictureInv, PictureIsComplete
<1>1. CASE writer_recv
  <2>1. /\ hand = None /\ recv_output /\ hand' = NextOutput /\ host_image' = host_image
        /\ UNCHANGED <<receiver_alive, accepting_session_outputs>>
    BY <1>1 DEF writer_recv, recv_output, hostVars
  <2>2. Shown(host_image, hand) = host_image
    BY <2>1, ShownControl
  <2>3. CASE control # <<>>
    <3>1. /\ hand' = Head(control) /\ Head(control) \in Controls
          /\ UNCHANGED <<latest_frame, latest_delta>>
      BY <1>t, <2>1, <2>3, HeadTailProperties DEF recv_output, NextOutput
    <3>2. Shown(host_image, Head(control)) = host_image
      BY <3>1, ShownControl
    <3>3. Base' = Base
      BY <2>1, <2>2, <3>1, <3>2 DEF Base
    <3>4. DeltaHasItsFrame'
      <4>1. hand'.kind # "FrameBgraRects"
        BY <3>1 DEF Controls, Connecteds, Reconnectings, Terminals, Statuses, SessionScoped
      <4> QED
        BY <4>1 DEF DeltaHasItsFrame
    <3> QED
      BY <1>s, <2>1, <3>1, <3>3, <3>4
  <2>4. CASE control = <<>> /\ latest_frame # None
    <3>1. hand' = latest_frame /\ latest_frame' = None /\ latest_delta' = latest_delta
      BY <2>1, <2>4 DEF recv_output, NextOutput
    <3>2. Base = Shown(host_image, latest_frame)
      BY <2>2 DEF Base
    <3>3. Base' = Shown(Shown(host_image, latest_frame), None)
      BY <2>1, <3>1 DEF Base
    <3>4. Base' = Base
      BY <3>2, <3>3, ShownControl
    <3>5. DeltaHasItsFrame'
      <4>1. hand'.kind = "Frame"
        BY <1>t, <2>4, <3>1 DEF Frames
      <4> QED
        BY <4>1 DEF DeltaHasItsFrame
    <3> QED
      BY <1>s, <2>1, <3>1, <3>4, <3>5
  <2>5. CASE control = <<>> /\ latest_frame = None
    <3>1. /\ latest_delta # None /\ hand' = latest_delta /\ latest_frame' = None
          /\ latest_delta' = None
      BY <2>1, <2>5 DEF recv_output, NextOutput, Deliverable
    <3>2. Base = host_image
      BY <2>2, <2>5, ShownControl DEF Base
    <3>3. host_image # None /\ host_image.size = latest_delta.size
      BY <3>1, <3>2 DEF PictureInv
    <3>4. DeltaHasItsFrame'
      BY <2>1, <3>1, <3>3 DEF DeltaHasItsFrame
    <3>5. PendingPicture = Shown(host_image, latest_delta)
      BY <3>2 DEF PendingPicture, Base
    <3>6. PendingPicture' = Shown(Shown(Shown(host_image, latest_delta), None), None)
      BY <2>1, <3>1 DEF PendingPicture
    <3>7. PendingPicture' = PendingPicture
      BY <3>5, <3>6, ShownControl
    <3>8. Dirty' = Dirty
      BY <1>d DEF Dirty
    <3> QED
      BY <1>d, <2>1, <3>1, <3>4, <3>7, <3>8 DEF PictureInv, PictureIsComplete
  <2> QED
    BY <2>3, <2>4, <2>5
<1>2. CASE write_event
  <2>1. /\ hand' = None /\ host_image' = Shown(host_image, hand)
        /\ UNCHANGED <<latest_frame, latest_delta, receiver_alive, accepting_session_outputs>>
    BY <1>2 DEF write_event, mailboxVars
  <2>2. Base' = Shown(Shown(Shown(host_image, hand), None), latest_frame)
    BY <2>1 DEF Base
  <2>3. Base' = Base
    BY <2>2, ShownControl DEF Base
  <2>4. DeltaHasItsFrame'
    BY <2>1 DEF DeltaHasItsFrame
  <2> QED
    BY <1>s, <2>1, <2>3, <2>4
<1>3. CASE writer_stops \/ write_event_fails
  <2>1. /\ hand' = None /\ latest_delta' = None /\ receiver_alive' = FALSE
    BY <1>3 DEF writer_stops, write_event_fails, drop_receiver
  <2> QED
    BY <2>1 DEF PictureInv, PictureIsComplete, DeltaHasItsFrame
<1> QED
  BY <1>1, <1>2, <1>3 DEF WriterStep

LEMMA PictureNext ==
    ASSUME TypeOK, NoSession, PictureInv, [Next]_vars
    PROVE  PictureInv'
<1> USE DEF OthersUnchanged, writerVars, hostVars, displayVars
<1>c. /\ [kind |-> "ConnectionFailure"] \in Controls /\ [kind |-> "Status"] \in Controls
      /\ \A size \in Sizes : [kind |-> "Connected", size |-> size] \in Controls
      /\ \A text \in Texts : [kind |-> "ClipboardText", text |-> text] \in Controls
      /\ \A delay \in Delays \cup {None} : [kind |-> "Reconnecting", delay |-> delay] \in Controls
  BY DEF Controls, Terminals, Statuses, Connecteds, SessionScoped, Reconnectings
<1>u. ASSUME UNCHANGED <<mailboxVars, displayVars, hand, host_image>>
      PROVE  PictureInv'
  BY <1>u, PictureSame DEF mailboxVars
<1>o. ASSUME framebuffer' = None, UNCHANGED <<hand, host_image>>,
             \/ \E output \in Controls : send(output)
             \/ UNCHANGED mailboxVars
             \/ begin_generation
             \/ drop_sender
      PROVE  PictureInv'
  <2>1. latest_delta' = None \/ UNCHANGED <<latest_frame, latest_delta>>
    BY <1>o, ControlSlots DEF mailboxVars, begin_generation, close_session_outputs, drop_sender
  <2> QED
    BY <1>o, <2>1, PictureOutside
<1>1. CASE run_vnc_thread
  <2>1. framebuffer' = None
    BY <1>1 DEF run_vnc_thread, NoSession, Outside
  <2> QED
    BY <1>1, <1>c, <1>o, <2>1 DEF run_vnc_thread
<1>2. CASE run_vnc_session
  <2>1. framebuffer' = None
    BY <1>2 DEF run_vnc_session, NoSession, Outside
  <2> QED
    BY <1>2, <1>c, <1>o, <2>1 DEF run_vnc_session
<1>3. CASE connect_error_result
  <2>1. framebuffer' = None
    BY <1>3 DEF connect_error_result, NoSession, Outside
  <2>2. send([kind |-> "ConnectionFailure"]) \/ UNCHANGED mailboxVars
    BY <1>3 DEF connect_error_result
  <2> QED
    BY <1>3, <1>c, <1>o, <2>1, <2>2 DEF connect_error_result
<1>4. CASE connect_vnc
  BY <1>4, <1>o DEF connect_vnc
<1>5. CASE request_initial_refresh \/ replay_clipboard \/ poll_error \/ drain_remote_inputs
             \/ handle_vnc_input \/ refresh_if_needed \/ handle_wait_input
             \/ wait_before_reconnect
  <2>1. UNCHANGED <<mailboxVars, displayVars, hand, host_image>>
    BY <1>5 DEF request_initial_refresh, replay_clipboard, poll_error, drain_remote_inputs,
                handle_vnc_input, refresh_if_needed, handle_wait_input, wait_before_reconnect
  <2> QED
    BY <1>u, <2>1
<1>6. CASE poll_event
  <2>1. UNCHANGED <<hand, host_image>>
    BY <1>6 DEF poll_event
  <2>2. ASSUME NEW size \in Sizes, set_resolution(size)
        PROVE  PictureInv'
    <3>1. /\ send([kind |-> "Connected", size |-> size]) /\ keyframe' = TRUE
      BY <2>2 DEF set_resolution
    <3>2. /\ UNCHANGED <<latest_frame, latest_delta, receiver_alive>>
          /\ receiver_alive => accepting_session_outputs'
      BY <1>c, <3>1, ControlSlots
    <3>3. Base' = Base
      BY <2>1, <3>2 DEF Base
    <3> QED
      BY <2>1, <3>1, <3>2, <3>3 DEF PictureInv, PictureIsComplete, DeltaHasItsFrame
  <2>3. ASSUME NEW tile \in Tiles, NEW color, framebuffer # None, Painted(tile, color),
               UNCHANGED <<mailboxVars, keyframe, was_connected>>
        PROVE  PictureInv'
    <3>1. /\ framebuffer \in Images /\ dirty_rects \in Seq(Tiles)
      BY <2>3 DEF TypeOK
    <3>2. /\ framebuffer'.size = framebuffer.size
          /\ \A t \in Tiles : t # tile => framebuffer'.pix[t] = framebuffer.pix[t]
          /\ dirty_rects' = Append(dirty_rects, tile)
      BY <2>3, <3>1 DEF Painted, Images
    <3>3. Dirty \cup {tile} \subseteq Dirty'
      <4>1. /\ Len(dirty_rects) \in Nat /\ Len(dirty_rects') = Len(dirty_rects) + 1
            /\ \A i \in 1..Len(dirty_rects) : dirty_rects'[i] = dirty_rects[i]
            /\ dirty_rects'[Len(dirty_rects) + 1] = tile
        BY <3>1, <3>2, AppendProperties, LenProperties
      <4>2. /\ 1..Len(dirty_rects) \subseteq 1..Len(dirty_rects')
            /\ Len(dirty_rects) + 1 \in 1..Len(dirty_rects')
        BY <4>1
      <4> QED
        BY <4>1, <4>2 DEF Dirty
    <3>4. Base' = Base /\ PendingPicture' = PendingPicture
          /\ UNCHANGED <<latest_delta, receiver_alive, accepting_session_outputs>>
      BY <2>1, <2>3 DEF Base, PendingPicture, mailboxVars
    <3>5. PictureIsComplete'
      BY <2>3, <3>2, <3>3, <3>4 DEF PictureInv, PictureIsComplete
    <3> QED
      BY <2>1, <2>3, <3>4, <3>5 DEF PictureInv, DeltaHasItsFrame
  <2>4. CASE \E tile \in Tiles, color \in Colors : patch_rect(tile, color)
    <3>1. PICK tile \in Tiles, color \in Colors : patch_rect(tile, color)
      BY <2>4
    <3>2. CASE framebuffer = None
      BY <1>u, <2>1, <3>1, <3>2 DEF patch_rect
    <3>3. CASE framebuffer # None
      BY <2>3, <3>1, <3>3 DEF patch_rect
    <3> QED
      BY <3>2, <3>3
  <2>5. CASE \E dst, src \in Tiles : dst # src /\ copy_rect(dst, src)
    <3>1. PICK dst \in Tiles, src \in Tiles : copy_rect(dst, src)
      BY <2>5
    <3>2. CASE framebuffer = None
      BY <1>u, <2>1, <3>1, <3>2 DEF copy_rect
    <3>3. CASE framebuffer # None
      BY <2>3, <3>1, <3>3 DEF copy_rect
    <3> QED
      BY <3>2, <3>3
  <2>6. ASSUME NEW output \in Controls, report(output),
               output.kind \notin {"Reconnecting", "ConnectionFailure", "Terminated"}
        PROVE  PictureInv'
    <3>1. /\ UNCHANGED <<latest_frame, latest_delta, receiver_alive>>
          /\ accepting_session_outputs => accepting_session_outputs'
      BY <2>6, ControlSlots DEF report
    <3> QED
      BY <2>1, <2>6, <3>1, PictureSame DEF report
  <2>7. CASE \E text \in Texts : report([kind |-> "ClipboardText", text |-> text])
    BY <1>c, <2>6, <2>7
  <2>8. CASE report([kind |-> "Status"])
    BY <1>c, <2>6, <2>8
  <2> QED
    BY <1>6, <2>2, <2>4, <2>5, <2>7, <2>8 DEF poll_event, handle_event
<1>7. CASE flush_frame
  BY <1>7, PictureFlush
<1>8. CASE shutdown_session
  BY <1>8, <1>o DEF shutdown_session
<1>9. CASE run_vnc_backend
  <2>1. framebuffer' = None /\ UNCHANGED <<hand, host_image>>
    BY <1>9 DEF run_vnc_backend, NoSession, Outside
  <2>2. \E delay \in Delays \cup {None} : send([kind |-> "Reconnecting", delay |-> delay])
    <3>1. \A attempt : reconnect_delay(attempt) \in Delays
      BY DelayAssumption DEF reconnect_delay
    <3> QED
      BY <1>9, <3>1 DEF run_vnc_backend
  <2> QED
    BY <1>c, <1>o, <2>1, <2>2
<1>10. CASE session_thread_ends
  <2>1. framebuffer' = None
    BY <1>10 DEF session_thread_ends, NoSession, Outside
  <2> QED
    BY <1>10, <1>o, <2>1 DEF session_thread_ends
<1>11. CASE stdin_ends \/ join_workers \/ \E input \in Requests : host_request(input)
  BY <1>11, <1>u DEF stdin_ends, join_workers, host_request, SessionUnchanged
<1>12. CASE WriterStep
  BY <1>12, PictureWriter
<1>13. CASE UNCHANGED vars
  BY <1>13, <1>u DEF vars
<1> QED
  BY <1>1, <1>2, <1>3, <1>4, <1>5, <1>6, <1>7, <1>8, <1>9, <1>10, <1>11, <1>12, <1>13
  DEF Next, SessionStep

-------------------------------------------------------------------------------
(* Outputs stay inside their connection. *)

Barriers == Reconnectings \cup Terminals

\* The host is connected once it has what the writer holds.
Up ==
    \/ hand \in Connecteds
    \/ hand \notin Connecteds \cup Barriers /\ host_session = "connected"

\* An output at position i of queue q, or behind it, reaches a host that is connected:
\* a Connected follows every barrier before i, and there is one if the host is not up.
Inside(q, up, i) ==
    /\ \A b \in 1..(i - 1) : q[b] \in Barriers => \E k \in (b + 1)..(i - 1) : q[k] \in Connecteds
    /\ up \/ \E k \in 1..(i - 1) : q[k] \in Connecteds

\* Before its first connection the mailbox is open, and nothing visual is sent.
Early == pc \in {"boot", "start", "connecting", "backend"}

\* Whatever belongs to a session waits behind its Connected; an open mailbox has one.
InsideInv ==
    /\ SessionOutputsStayInside
    /\ \A i \in 1..Len(control) : control[i] \in SessionScoped => Inside(control, Up, i)
    /\ latest_frame # None \/ latest_delta # None => Inside(control, Up, Len(control) + 1)
    /\ receiver_alive /\ accepting_session_outputs =>
          Inside(control, Up, Len(control) + 1) \/ Early
    /\ receiver_alive <=> writer = "running"
    /\ ~receiver_alive => /\ control = <<>> /\ hand = None
                          /\ latest_frame = None /\ latest_delta = None

LEMMA KindsApart ==
    /\ \A c \in SessionScoped : c \notin Barriers /\ c \notin Connecteds
    /\ \A c \in Statuses : c \notin Barriers /\ c \notin Connecteds /\ c \notin SessionScoped
    /\ \A c \in Connecteds : c \notin Barriers /\ c \notin SessionScoped
    /\ \A c \in Barriers : c \notin SessionScoped
    /\ \A c \in Frames \cup Deltas : c \notin Barriers /\ c \notin Connecteds
    /\ Barriers \cup Connecteds \cup SessionScoped \cup Statuses = Controls
    /\ None \notin Frames \cup Deltas \cup Barriers \cup Connecteds \cup SessionScoped
<1>1. \A c \in SessionScoped : c \notin Barriers /\ c \notin Connecteds
  BY DEF SessionScoped, Barriers, Reconnectings, Terminals, Connecteds
<1>2. \A c \in Statuses : c \notin Barriers /\ c \notin Connecteds /\ c \notin SessionScoped
  BY DEF SessionScoped, Barriers, Reconnectings, Terminals, Connecteds, Statuses
<1>3. \A c \in Connecteds : c \notin Barriers
  BY DEF Barriers, Reconnectings, Terminals, Connecteds
<1>4. Barriers \cup Connecteds \cup SessionScoped \cup Statuses = Controls
  BY DEF Controls, Barriers
<1>5. \A c \in Frames \cup Deltas : c \notin Controls
  BY KindsOfControls
<1> QED
  BY <1>1, <1>2, <1>3, <1>4, <1>5, NoneIsNoOutput

\* An entry at the end changes nothing for those before it.
LEMMA InsideAppend ==
    ASSUME NEW q \in Seq(Controls), NEW c \in Controls, NEW up
    PROVE  /\ \A i \in 1..(Len(q) + 1) : Inside(q, up, i) => Inside(Append(q, c), up, i)
           /\ c \notin Barriers /\ Inside(q, up, Len(q) + 1) =>
                 Inside(Append(q, c), up, Len(Append(q, c)) + 1)
           /\ c \in Connecteds => Inside(Append(q, c), up, Len(Append(q, c)) + 1)
<1> DEFINE r == Append(q, c)
           n == Len(q)
<1>1. /\ n \in Nat /\ Len(r) = n + 1 /\ r[n + 1] = c
      /\ \A i \in 1..n : r[i] = q[i]
  BY AppendProperties, LenProperties
<1> HIDE DEF r, n
<1>2. ASSUME NEW i \in 1..(n + 1), Inside(q, up, i)
      PROVE  Inside(r, up, i)
  <2>1. \A k \in 1..(i - 1) : k \in 1..n /\ r[k] = q[k]
    BY <1>1
  <2>2. \A b \in 1..(i - 1) : \A k \in (b + 1)..(i - 1) : k \in 1..(i - 1)
    BY <1>1
  <2> QED
    BY <1>2, <2>1, <2>2 DEF Inside
<1>3. ASSUME c \notin Barriers, Inside(q, up, n + 1)
      PROVE  Inside(r, up, Len(r) + 1)
  <2>1. (Len(r) + 1) - 1 = n + 1 /\ (n + 1) - 1 = n
    BY <1>1
  <2>2. ASSUME NEW b \in 1..(n + 1), r[b] \in Barriers
        PROVE  \E k \in (b + 1)..(n + 1) : r[k] \in Connecteds
    <3>1. b # n + 1
      BY <1>1, <1>3, <2>2
    <3>2. b \in 1..n /\ q[b] \in Barriers
      BY <1>1, <2>2, <3>1
    <3>3. PICK k \in (b + 1)..n : q[k] \in Connecteds
      BY <1>3, <2>1, <3>2 DEF Inside
    <3>4. k \in (b + 1)..(n + 1) /\ k \in 1..n /\ r[k] = q[k]
      BY <1>1, <3>2, <3>3
    <3> QED
      BY <3>3, <3>4
  <2>3. up \/ \E k \in 1..(n + 1) : r[k] \in Connecteds
    <3>1. CASE \E k \in 1..n : q[k] \in Connecteds
      <4>1. PICK k \in 1..n : q[k] \in Connecteds
        BY <3>1
      <4>2. k \in 1..(n + 1) /\ r[k] = q[k]
        BY <1>1
      <4> QED
        BY <4>1, <4>2
    <3> QED
      BY <1>3, <2>1, <3>1 DEF Inside
  <2> QED
    BY <2>1, <2>2, <2>3 DEF Inside
<1>4. ASSUME c \in Connecteds
      PROVE  Inside(r, up, Len(r) + 1)
  <2>1. (Len(r) + 1) - 1 = n + 1
    BY <1>1
  <2>2. ASSUME NEW b \in 1..(n + 1), r[b] \in Barriers
        PROVE  \E k \in (b + 1)..(n + 1) : r[k] \in Connecteds
    <3>1. b # n + 1
      BY <1>1, <1>4, <2>2, KindsApart
    <3>2. n + 1 \in (b + 1)..(n + 1)
      BY <1>1, <3>1
    <3> QED
      BY <1>1, <1>4, <3>2
  <2>3. n + 1 \in 1..(n + 1)
    BY <1>1
  <2> QED
    BY <1>1, <1>4, <2>1, <2>2, <2>3 DEF Inside
<1> QED
  BY <1>2, <1>3, <1>4 DEF r, n

\* What is inside stays inside when the writer takes the first entry.
LEMMA InsideTail ==
    ASSUME NEW q \in Seq(Controls), q # <<>>, NEW up,
           NEW i \in 1..(Len(Tail(q)) + 1), Inside(q, up, i + 1)
    PROVE  Inside(Tail(q), \/ Head(q) \in Connecteds
                           \/ Head(q) \notin Connecteds \cup Barriers /\ up, i)
<1> DEFINE r == Tail(q)
           n == Len(q)
           now == \/ Head(q) \in Connecteds
                  \/ Head(q) \notin Connecteds \cup Barriers /\ up
<1>1. /\ n \in Nat /\ n # 0 /\ Len(r) = n - 1 /\ Head(q) = q[1]
      /\ \A k \in 1..Len(r) : r[k] = q[k + 1]
  BY HeadTailProperties, LenProperties, EmptySeq
<1> HIDE DEF r, n
<1>2. i \in 1..n
  BY <1>1 DEF r
<1>3. (i + 1) - 1 = i
  BY <1>2
<1>4. \A k \in 2..i : k - 1 \in 1..(i - 1) /\ r[k - 1] = q[k]
  <2> SUFFICES ASSUME NEW k \in 2..i PROVE k - 1 \in 1..(i - 1) /\ r[k - 1] = q[k]
    OBVIOUS
  <2>1. k - 1 \in 1..(i - 1) /\ k - 1 \in 1..Len(r) /\ (k - 1) + 1 = k
    BY <1>1, <1>2
  <2> QED
    BY <1>1, <2>1
<1>5. ASSUME NEW b \in 1..(i - 1), r[b] \in Barriers
      PROVE  \E k \in (b + 1)..(i - 1) : r[k] \in Connecteds
  <2>1. b \in 1..Len(r) /\ b + 1 \in 1..i
    BY <1>1, <1>2
  <2>2. q[b + 1] \in Barriers
    BY <1>1, <1>5, <2>1
  <2>3. PICK k \in ((b + 1) + 1)..i : q[k] \in Connecteds
    BY <1>3, <2>1, <2>2 DEF Inside
  <2>4. k \in 2..i /\ k - 1 \in (b + 1)..(i - 1)
    BY <1>2, <2>1, <2>3
  <2>5. r[k - 1] = q[k]
    BY <1>4, <2>4
  <2> QED
    BY <2>3, <2>4, <2>5
<1>6. now \/ \E k \in 1..(i - 1) : r[k] \in Connecteds
  <2>1. ASSUME NEW k \in 2..i, q[k] \in Connecteds
        PROVE  \E j \in 1..(i - 1) : r[j] \in Connecteds
    BY <1>4, <2>1
  <2>2. CASE Head(q) \in Connecteds
    BY <2>2
  <2>3. CASE Head(q) \in Barriers
    <3>1. 1 \in 1..i /\ q[1] \in Barriers
      BY <1>1, <1>2, <2>3
    <3>2. PICK k \in (1 + 1)..i : q[k] \in Connecteds
      BY <1>3, <3>1 DEF Inside
    <3>3. k \in 2..i
      OBVIOUS
    <3> QED
      BY <2>1, <3>2, <3>3
  <2>4. CASE Head(q) \notin Connecteds \cup Barriers
    <3>1. CASE up
      BY <2>4, <3>1
    <3>2. CASE ~up
      <4>1. PICK k \in 1..i : q[k] \in Connecteds
        BY <1>3, <3>2 DEF Inside
      <4>2. k # 1
        BY <1>1, <2>4, <4>1
      <4>3. k \in 2..i
        BY <1>2, <4>1, <4>2
      <4> QED
        BY <2>1, <4>1, <4>3
    <3> QED
      BY <3>1, <3>2
  <2> QED
    BY <2>2, <2>3, <2>4
<1> HIDE DEF now
<1>7. Inside(r, now, i)
  BY <1>5, <1>6 DEF Inside
<1> QED
  BY <1>7 DEF r, now

LEMMA InsideFirst ==
    ASSUME NEW q, NEW up, Inside(q, up, 1)
    PROVE  up
  BY DEF Inside

\* Steps that touch neither the mailbox nor the writer.
LEMMA InsideSame ==
    ASSUME InsideInv, UNCHANGED <<control, latest_frame, latest_delta, hand, host_session,
                                  writer, receiver_alive>>,
           accepting_session_outputs' = accepting_session_outputs, Early => Early'
    PROVE  InsideInv'
<1>1. Up' = Up
  BY DEF Up
<1> QED
  BY <1>1 DEF InsideInv, SessionOutputsStayInside

\* Closing the mailbox leaves nothing of the session in it.
LEMMA InsideClosed ==
    ASSUME InsideInv, UNCHANGED <<hand, host_session, writer, receiver_alive>>, receiver_alive,
           \A i \in 1..Len(control') : control'[i] \notin SessionScoped,
           latest_frame' = None, latest_delta' = None, ~accepting_session_outputs'
    PROVE  InsideInv'
  BY DEF InsideInv, SessionOutputsStayInside

\* A control output sent by the session thread.
LEMMA InsideControl ==
    ASSUME TypeOK, InsideInv, NEW output \in Controls, send(output),
           output.kind \notin {"CursorPosition", "CursorBitmap"},
           output \in SessionScoped => ~Early,
           output \notin Barriers => (Early => Early'),
           receiver_alive \/ (Early => Early'),
           UNCHANGED <<hand, host_session, writer>>
    PROVE  InsideInv'
<1>t. control \in Seq(Controls) /\ receiver_alive \in BOOLEAN
  BY DEF TypeOK, MailboxTypeOK
<1>u. Up' = Up /\ receiver_alive' = receiver_alive
  BY DEF Up, send
<1>k. output.kind \notin {"Frame", "FrameBgraRects"}
  BY DEF Controls, Connecteds, Reconnectings, Terminals, Statuses, SessionScoped
<1>1. CASE ~receiver_alive
  BY <1>1, InsideSame DEF send
<1>2. CASE receiver_alive /\ SendBarrier(output)
  <2>1. output \in Barriers
    BY <1>2 DEF SendBarrier, Controls, Barriers, Connecteds, Reconnectings, Terminals, Statuses,
                SessionScoped
  <2>2. output \notin SessionScoped
    BY <2>1, KindsApart
  <2>3. discard_pending_session_controls \in Seq(Controls)
    BY <1>t, DiscardType
  <2>4. \A i \in 1..Len(control') : control'[i] \notin SessionScoped
    BY <1>2, <1>t, <2>2, <2>3, DiscardedQueue, AppendKeepsFree
    DEF SendBarrier, close_session_outputs
  <2> QED
    BY <1>2, <1>u, <2>4, InsideClosed DEF SendBarrier, close_session_outputs
<1>3. CASE receiver_alive /\ (SendConnected(output) \/ SendControl(output))
  <2>1. /\ control' = Append(control, output)
        /\ UNCHANGED <<latest_frame, latest_delta>>
    BY <1>3, <1>k DEF SendConnected, SendControl, enqueue_control
  <2>2. output \notin Barriers
    BY <1>3, KindsApart DEF SendConnected, SendControl, Barriers, Reconnectings, Terminals
  <2>3. output \in SessionScoped => accepting_session_outputs /\ Inside(control, Up, Len(control) + 1)
    <3>1. ASSUME output \in SessionScoped PROVE accepting_session_outputs
      BY <1>3, <3>1, KindsOfControls DEF SendConnected, SendControl
    <3> QED
      BY <1>3, <3>1 DEF InsideInv
  <2>4. /\ Len(control) \in Nat /\ Len(control') = Len(control) + 1
        /\ \A i \in 1..Len(control) : control'[i] = control[i]
        /\ control'[Len(control) + 1] = output
    BY <1>t, <2>1, AppendProperties, LenProperties
  <2>5. \A i \in 1..(Len(control) + 1) : Inside(control, Up, i) => Inside(control', Up, i)
    BY <1>t, <2>1, InsideAppend
  <2>6. Inside(control, Up, Len(control) + 1) => Inside(control', Up, Len(control') + 1)
    BY <1>t, <2>1, <2>2, InsideAppend
  <2>7. output \in Connecteds => Inside(control', Up, Len(control') + 1)
    BY <1>t, <2>1, InsideAppend
  <2>8. ASSUME NEW i \in 1..Len(control'), control'[i] \in SessionScoped
        PROVE  Inside(control', Up, i)
    <3>1. i \in 1..(Len(control) + 1)
      BY <2>4
    <3>2. CASE i = Len(control) + 1
      BY <2>3, <2>4, <2>5, <2>8, <3>1, <3>2
    <3>3. CASE i # Len(control) + 1
      <4>1. i \in 1..Len(control)
        BY <2>4, <3>1, <3>3
      <4>2. Inside(control, Up, i)
        BY <2>4, <2>8, <4>1 DEF InsideInv
      <4> QED
        BY <2>5, <3>1, <4>2
    <3> QED
      BY <3>2, <3>3
  <2>9. output \in Connecteds \/ accepting_session_outputs' = accepting_session_outputs
    <3>1. SendConnected(output) => output \in Connecteds
      BY DEF SendConnected, Controls, Barriers, Connecteds, Reconnectings, Terminals, Statuses,
             SessionScoped
    <3> QED
      BY <1>3, <3>1 DEF SendControl
  <2>10. accepting_session_outputs' => Inside(control', Up, Len(control') + 1) \/ Early'
    BY <1>3, <2>2, <2>6, <2>7, <2>9 DEF InsideInv
  <2>11. /\ SessionOutputsStayInside'
         /\ latest_frame' # None \/ latest_delta' # None => Inside(control', Up, Len(control') + 1)
    BY <2>1, <2>6 DEF InsideInv, SessionOutputsStayInside
  <2> QED
    BY <1>3, <1>u, <2>8, <2>10, <2>11 DEF InsideInv
<1>4. CASE receiver_alive /\ SendDropped(output)
  <2>1. output \notin Barriers
    BY <1>4, <1>k, KindsApart DEF SendDropped
  <2> QED
    BY <1>4, <1>u, <2>1, InsideSame DEF SendDropped
<1> QED
  BY <1>t, <1>k, <1>1, <1>2, <1>3, <1>4 DEF send, SendFrame, SendDelta

\* flush_frame fills a slot behind the Connected that opened the mailbox.
LEMMA InsideFlush ==
    ASSUME TypeOK, InsideInv, flush_frame
    PROVE  InsideInv'
<1> USE DEF OthersUnchanged, writerVars, hostVars
<1>1. ~Early /\ UNCHANGED <<hand, host_session, writer>>
  BY DEF flush_frame, Early
<1>2. CASE UNCHANGED mailboxVars
  BY <1>1, <1>2, InsideSame DEF mailboxVars
<1>3. ASSUME NEW output \in Frames \cup Deltas, send(output)
      PROVE  InsideInv'
  <2>1. output.kind \in {"Frame", "FrameBgraRects"} /\ output \notin SessionScoped
    BY KindsOfControls DEF Frames, Deltas, Controls
  <2>2. /\ UNCHANGED <<control, accepting_session_outputs, receiver_alive>>
        /\ \/ UNCHANGED <<latest_frame, latest_delta>>
           \/ receiver_alive /\ accepting_session_outputs
    BY <1>3, <2>1 DEF send, SendBarrier, SendConnected, SendFrame, SendDelta, SendDropped,
                      SendControl
  <2>3. Up' = Up
    BY <1>1 DEF Up
  <2>4. CASE UNCHANGED <<latest_frame, latest_delta>>
    BY <1>1, <2>2, <2>4, InsideSame
  <2>5. CASE receiver_alive /\ accepting_session_outputs
    BY <1>1, <2>2, <2>3, <2>5 DEF InsideInv, SessionOutputsStayInside
  <2> QED
    BY <2>2, <2>4, <2>5
<1> QED
  BY <1>2, <1>3, FlushedOutputs DEF flush_frame

\* The writer takes an output out of the mailbox, and hands it to the host.
LEMMA InsideWriter ==
    ASSUME TypeOK, InsideInv, WriterStep
    PROVE  InsideInv'
<1> USE DEF SessionUnchanged, hostVars
<1>t. control \in Seq(Controls) /\ MailboxTypeOK
  BY DEF TypeOK, MailboxTypeOK
<1>e. Early' <=> Early
  BY DEF WriterStep, writer_recv, writer_stops, write_event, write_event_fails, Early
<1>1. CASE writer_recv
  <2>1. /\ hand = None /\ hand' = NextOutput /\ recv_output
        /\ UNCHANGED <<host_session, writer, receiver_alive, accepting_session_outputs>>
    BY <1>1 DEF writer_recv, recv_output
  <2>2. Up = (host_session = "connected")
    BY <2>1, KindsApart DEF Up
  <2>3. CASE control = <<>>
    <3>1. Len(control) + 1 = 1 /\ control' = control
      BY <2>1, <2>3, EmptySeq DEF recv_output
    <3>2. NextOutput \in Frames \cup Deltas
      BY <1>t, <2>1, <2>3 DEF MailboxTypeOK, recv_output, Deliverable, NextOutput
    <3>3. Inside(control, Up, 1)
      BY <2>1, <2>3, <3>1 DEF InsideInv, recv_output, Deliverable
    <3>4. host_session = "connected"
      BY <2>2, <3>3, InsideFirst
    <3>5. Up' /\ Up
      BY <2>1, <2>2, <3>2, <3>4, KindsApart DEF Up
    <3>6. \A b \in 1..(1 - 1) : FALSE
      OBVIOUS
    <3>7. Inside(control', Up', Len(control') + 1)
      BY <3>1, <3>5, <3>6 DEF Inside
    <3>8. SessionOutputsStayInside'
      BY <2>1, <3>4 DEF SessionOutputsStayInside
    <3>9. \A i \in 1..Len(control') : FALSE
      BY <2>3, <3>1, EmptySeq
    <3>10. receiver_alive
      BY <1>1 DEF InsideInv, writer_recv
    <3> QED
      BY <2>1, <3>7, <3>8, <3>9, <3>10 DEF InsideInv
  <2>4. CASE control # <<>>
    <3>1. /\ control' = Tail(control) /\ NextOutput = Head(control)
          /\ UNCHANGED <<latest_frame, latest_delta>>
      BY <2>1, <2>4 DEF recv_output, NextOutput
    <3>2. /\ Len(control) \in Nat /\ Len(control) # 0 /\ Len(control') = Len(control) - 1
          /\ Head(control) = control[1] /\ Head(control) \in Controls
          /\ \A i \in 1..Len(control') : control'[i] = control[i + 1]
      BY <1>t, <2>4, <3>1, HeadTailProperties, LenProperties, EmptySeq
    <3>3. Up' = (\/ Head(control) \in Connecteds
                 \/ Head(control) \notin Connecteds \cup Barriers /\ Up)
      BY <2>1, <2>2, <3>1 DEF Up
    <3>4. \A i \in 1..(Len(control') + 1) : Inside(control, Up, i + 1) => Inside(control', Up', i)
      BY <1>t, <2>4, <3>1, <3>3, InsideTail
    <3>5. Len(control') + 1 \in 1..(Len(control') + 1)
          /\ (Len(control') + 1) + 1 = Len(control) + 1
      BY <3>2
    <3>6. Inside(control, Up, Len(control) + 1) => Inside(control', Up', Len(control') + 1)
      BY <3>4, <3>5
    <3>7. ASSUME NEW i \in 1..Len(control'), control'[i] \in SessionScoped
          PROVE  Inside(control', Up', i)
      <4>1. i + 1 \in 1..Len(control) /\ i \in 1..(Len(control') + 1)
        BY <3>2
      <4>2. control[i + 1] \in SessionScoped
        BY <3>2, <3>7
      <4>3. Inside(control, Up, i + 1)
        BY <4>1, <4>2 DEF InsideInv
      <4> QED
        BY <3>4, <4>1, <4>3
    <3>8. ASSUME Head(control) \in SessionScoped
          PROVE  host_session = "connected"
      <4>1. 1 \in 1..Len(control) /\ control[1] \in SessionScoped
        BY <3>2, <3>8
      <4>2. Inside(control, Up, 1)
        BY <4>1 DEF InsideInv
      <4> QED
        BY <2>2, <4>2, InsideFirst
    <3>9. SessionOutputsStayInside'
      BY <2>1, <3>1, <3>2, <3>8, KindsOfControls DEF SessionOutputsStayInside
    <3>10. receiver_alive
      BY <1>1 DEF InsideInv, writer_recv
    <3>11. latest_frame' # None \/ latest_delta' # None =>
              Inside(control', Up', Len(control') + 1)
      BY <3>1, <3>6 DEF InsideInv
    <3>12. accepting_session_outputs' => Inside(control', Up', Len(control') + 1) \/ Early'
      BY <1>e, <2>1, <3>6, <3>10 DEF InsideInv
    <3>13. receiver_alive' /\ writer' = "running"
      BY <1>1, <2>1, <3>10 DEF writer_recv
    <3> QED
      BY <3>7, <3>9, <3>11, <3>12, <3>13 DEF InsideInv
  <2> QED
    BY <2>3, <2>4
<1>2. CASE writer_stops \/ write_event_fails
  <2>1. /\ control' = <<>> /\ latest_frame' = None /\ latest_delta' = None /\ hand' = None
        /\ receiver_alive' = FALSE /\ writer' # "running"
    BY <1>2 DEF writer_stops, write_event_fails, drop_receiver
  <2>2. \A i \in 1..Len(control') : FALSE
    BY <2>1, EmptySeq
  <2>3. SessionOutputsStayInside'
    BY <2>1, KindsApart DEF SessionOutputsStayInside
  <2> QED
    BY <2>1, <2>2, <2>3 DEF InsideInv
<1>3. CASE write_event
  <2>1. hand \in AnyOutput /\ hand' = None /\ UNCHANGED mailboxVars /\ UNCHANGED writer
    BY <1>3 DEF write_event, TypeOK, AnyOutput
  <2>2. Up' = Up
    <3>1. hand \in Connecteds <=> hand.kind = "Connected"
      BY <2>1 DEF AnyOutput, Frames, Deltas, Controls, Connecteds, Reconnectings, Terminals,
                  Statuses, SessionScoped
    <3>2. hand \in Barriers <=> hand.kind \in {"Reconnecting", "ConnectionFailure", "Terminated"}
      BY <2>1 DEF AnyOutput, Frames, Deltas, Controls, Connecteds, Reconnectings, Terminals,
                  Statuses, SessionScoped, Barriers
    <3>3. Up' = (host_session' = "connected")
      BY <2>1, KindsApart DEF Up
    <3> QED
      BY <1>3, <3>1, <3>2, <3>3 DEF Up, write_event
  <2>3. SessionOutputsStayInside'
    BY <2>1, KindsApart DEF SessionOutputsStayInside
  <2> QED
    BY <1>e, <2>1, <2>2, <2>3 DEF InsideInv, mailboxVars
<1> QED
  BY <1>1, <1>2, <1>3 DEF WriterStep

LEMMA InsideNext ==
    ASSUME TypeOK, InsideInv, [Next]_vars
    PROVE  InsideInv'
<1> USE DEF OthersUnchanged, writerVars, hostVars
<1>c. /\ [kind |-> "ConnectionFailure"] \in Barriers /\ [kind |-> "Status"] \in Statuses
      /\ \A size \in Sizes : [kind |-> "Connected", size |-> size] \in Connecteds
      /\ \A text \in Texts : [kind |-> "ClipboardText", text |-> text] \in SessionScoped
      /\ \A delay \in Delays \cup {None} : [kind |-> "Reconnecting", delay |-> delay] \in Barriers
  BY DEF Terminals, Statuses, Connecteds, SessionScoped, Reconnectings, Barriers
<1>k. Barriers \cup Connecteds \cup SessionScoped \cup Statuses \subseteq Controls
  BY KindsApart
<1>u. ASSUME UNCHANGED <<mailboxVars, writerVars, host_session>>, Early => Early'
      PROVE  InsideInv'
  BY <1>u, InsideSame DEF mailboxVars
<1>d. InsideInv /\ ~receiver_alive =>
          /\ control = <<>> /\ hand = None /\ latest_frame = None /\ latest_delta = None
          /\ writer # "running"
  BY DEF InsideInv
<1>x. ASSUME ~receiver_alive, UNCHANGED <<control, latest_frame, latest_delta, receiver_alive,
                                          hand, writer>>
      PROVE  InsideInv'
  <2>1. \A i \in 1..Len(control') : FALSE
    BY <1>d, <1>x, EmptySeq
  <2>2. SessionOutputsStayInside'
    BY <1>d, <1>x, KindsApart DEF SessionOutputsStayInside
  <2> QED
    BY <1>d, <1>x, <2>1, <2>2 DEF InsideInv
<1>b. ASSUME NEW output \in Barriers, send(output), UNCHANGED <<hand, host_session, writer>>
      PROVE  InsideInv'
  <2>1. output \in Controls /\ output \notin SessionScoped
    BY <1>k, KindsApart
  <2>2. output.kind \notin {"CursorPosition", "CursorBitmap"}
    BY DEF Barriers, Reconnectings, Terminals
  <2>3. CASE receiver_alive
    BY <1>b, <2>1, <2>2, <2>3, InsideControl
  <2>4. CASE ~receiver_alive
    BY <1>b, <1>x, <2>4 DEF send
  <2> QED
    BY <2>3, <2>4
<1>1. CASE run_vnc_thread
  <2>1. CASE UNCHANGED mailboxVars /\ pc' = "start"
    BY <1>1, <1>u, <2>1 DEF run_vnc_thread, Early
  <2>2. CASE send([kind |-> "ConnectionFailure"])
    BY <1>1, <1>b, <1>c, <2>2 DEF run_vnc_thread
  <2> QED
    BY <1>1, <2>1, <2>2 DEF run_vnc_thread
<1>2. CASE run_vnc_session
  <2>1. Early' /\ [kind |-> "Status"] \notin SessionScoped
    BY <1>2, <1>c, KindsApart DEF run_vnc_session, Early
  <2>2. [kind |-> "Status"] \in Controls
    BY <1>c, <1>k
  <2> QED
    BY <1>2, <2>1, <2>2, InsideControl DEF run_vnc_session
<1>3. CASE connect_error_result
  <2>1. CASE send([kind |-> "ConnectionFailure"])
    BY <1>3, <1>b, <1>c, <2>1 DEF connect_error_result
  <2>2. CASE UNCHANGED mailboxVars /\ pc' = "backend"
    BY <1>3, <1>u, <2>2 DEF connect_error_result, Early
  <2> QED
    BY <1>3, <2>1, <2>2 DEF connect_error_result
<1>4. CASE connect_vnc
  <2>1. /\ control' = discard_pending_session_controls /\ latest_frame' = None
        /\ latest_delta' = None /\ ~accepting_session_outputs'
        /\ UNCHANGED <<hand, host_session, writer, receiver_alive>>
    BY <1>4 DEF connect_vnc, begin_generation, close_session_outputs
  <2>2. \A i \in 1..Len(control') : control'[i] \notin SessionScoped
    BY <2>1, DiscardedQueue DEF TypeOK, MailboxTypeOK
  <2>3. CASE receiver_alive
    BY <2>1, <2>2, <2>3, InsideClosed
  <2>4. CASE ~receiver_alive
    <3>1. control' = control
      BY <1>d, <2>1, <2>4, WithoutEmpty DEF discard_pending_session_controls
    <3> QED
      BY <1>d, <1>x, <2>1, <2>4, <3>1
  <2> QED
    BY <2>3, <2>4
<1>5. CASE request_initial_refresh \/ replay_clipboard \/ poll_error \/ drain_remote_inputs
             \/ handle_vnc_input \/ refresh_if_needed \/ handle_wait_input
             \/ wait_before_reconnect \/ shutdown_session
  <2>1. UNCHANGED <<mailboxVars, writerVars, host_session>>
    BY <1>5 DEF request_initial_refresh, replay_clipboard, poll_error, drain_remote_inputs,
                handle_vnc_input, refresh_if_needed, handle_wait_input, wait_before_reconnect,
                shutdown_session
  <2>2. ~Early
    BY <1>5 DEF request_initial_refresh, replay_clipboard, poll_error, drain_remote_inputs,
                handle_vnc_input, refresh_if_needed, handle_wait_input, wait_before_reconnect,
                shutdown_session, Early
  <2> QED
    BY <1>u, <2>1, <2>2
<1>6. CASE poll_event
  <2>1. UNCHANGED <<writerVars, host_session>> /\ ~Early
    BY <1>6 DEF poll_event, Early
  <2>2. ASSUME NEW output \in Controls, send(output),
               output.kind \in {"Connected", "ClipboardText", "Status"}
        PROVE  InsideInv'
    BY <2>1, <2>2, InsideControl
  <2>3. CASE UNCHANGED mailboxVars
    BY <1>u, <2>1, <2>3
  <2> QED
    BY <1>6, <1>c, <1>k, <2>2, <2>3
    DEF poll_event, handle_event, set_resolution, patch_rect, copy_rect, report
<1>7. CASE flush_frame
  BY <1>7, InsideFlush
<1>8. CASE run_vnc_backend
  <2>1. \E delay \in Delays \cup {None} : send([kind |-> "Reconnecting", delay |-> delay])
    <3>1. \A attempt : reconnect_delay(attempt) \in Delays
      BY DelayAssumption DEF reconnect_delay
    <3> QED
      BY <1>8, <3>1 DEF run_vnc_backend
  <2>2. UNCHANGED <<hand, host_session, writer>>
    BY <1>8 DEF run_vnc_backend
  <2> QED
    BY <1>b, <1>c, <2>1, <2>2
<1>9. CASE session_thread_ends
  <2>1. ~Early
    BY <1>9 DEF session_thread_ends, Early
  <2> QED
    BY <1>9, <2>1, InsideSame DEF session_thread_ends, drop_sender
<1>10. CASE stdin_ends \/ \E input \in Requests : host_request(input)
  <2>1. UNCHANGED <<mailboxVars, writerVars, host_session, pc>>
    BY <1>10 DEF stdin_ends, host_request, SessionUnchanged
  <2> QED
    BY <1>u, <2>1 DEF Early
<1>11. CASE join_workers
  <2>1. ~receiver_alive
    BY <1>11 DEF join_workers, InsideInv
  <2> QED
    BY <1>11, <1>x, <2>1 DEF join_workers, mailboxVars
<1>12. CASE WriterStep
  BY <1>12, InsideWriter
<1>13. CASE UNCHANGED vars
  BY <1>13, <1>u DEF vars, Early
<1> QED
  BY <1>1, <1>2, <1>3, <1>4, <1>5, <1>6, <1>7, <1>8, <1>9, <1>10, <1>11, <1>12, <1>13
  DEF Next, SessionStep

LEMMA DisplayInit == Init => NoSession /\ PictureInv /\ InsideInv
<1> SUFFICES ASSUME Init PROVE NoSession /\ PictureInv /\ InsideInv
  OBVIOUS
<1>1. /\ control = <<>> /\ latest_frame = None /\ latest_delta = None /\ hand = None
      /\ framebuffer = None /\ receiver_alive = TRUE /\ writer = "running" /\ pc = "boot"
      /\ ~was_connected
  BY DEF Init, output_mailbox
<1>2. NoSession
  BY <1>1 DEF NoSession, Outside
<1>3. PictureInv
  BY <1>1 DEF PictureInv, PictureIsComplete, DeltaHasItsFrame
<1>4. \A i \in 1..Len(control) : FALSE
  BY <1>1, EmptySeq
<1>5. SessionOutputsStayInside
  BY <1>1, KindsApart DEF SessionOutputsStayInside
<1>6. InsideInv
  BY <1>1, <1>4, <1>5 DEF InsideInv, Early
<1> QED
  BY <1>2, <1>3, <1>6

\* Replacing frames, merging deltas and discarding what an ended connection left behind
\* lose no pixel and let nothing out of its connection, for any number of tiles, events
\* and reconnects and however far the writer lags behind the session thread.
THEOREM DisplayIsSafe == Spec => []DisplaySafe
<1> DEFINE Inv == TypeOK /\ NoSession /\ PictureInv /\ InsideInv
<1>1. Init => Inv
  BY InitType, DisplayInit
<1>2. Inv /\ [Next]_vars => Inv'
  BY NextType, NoSessionNext, PictureNext, InsideNext
<1>3. Inv => DisplaySafe
  BY DEF PictureInv, InsideInv, DisplaySafe
<1> QED
  BY <1>1, <1>2, <1>3, PTL DEF Spec
===============================================================================
