------------------------------ MODULE VncSession ------------------------------
(***************************************************************************)
(* The VNC helper process: the main thread (stdin requests), the session   *)
(* thread (connect, poll the server, forward inputs, reconnect), the       *)
(* writer thread, and the output mailbox between the last two.  The VNC    *)
(* server and the host application are the environment: the server sends   *)
(* any events, the host reads what the writer writes.                      *)
(*                                                                         *)
(* The refresh and liveness-probe timers are abstracted to "a refresh may  *)
(* fail at any time".  Keyboard and pointer are one kind of input here.    *)
(***************************************************************************)
EXTENDS VncMailbox

CONSTANTS
    Wire,                   \* VncClipboardSnapshot::encode: text -> wire bytes, or None
    Requests,               \* the inputs the host may send
    MAX_EVENTS_PER_POLL,    \* MAX_SERVER_EVENTS_PER_POLL
    MAX_INPUTS_PER_POLL,
    MaxEvents,              \* bound: server events that change something
    MaxConnects,            \* bound: connection attempts before one fails for good
    MaxRequests             \* bound: host requests

Inputs == [kind : {"Close", "Reconnect", "Pointer"}] \cup [kind : {"Text"}, text : Texts]

ASSUME WireAssumption == DOMAIN Wire = Texts
ASSUME RequestsAssumption == Requests \subseteq Inputs
ASSUME BudgetAssumption == {MAX_EVENTS_PER_POLL, MAX_INPUTS_PER_POLL} \subseteq Nat \ {0}
ASSUME BoundAssumption == {MaxEvents, MaxConnects, MaxRequests} \subseteq Nat
ASSUME DelayAssumption == Delays = {1, 2, 5, 10}
ASSUME NoneIsNoWire == \A t \in Texts : Wire[t] # None => Wire[t] \in Texts

VARIABLES
    pc,                 \* the session thread
    framebuffer,        \* None, or the server's screen as the helper knows it
    keyframe,           \* the next flush sends a full frame
    dirty_rects,        \* tiles painted since the last flush
    was_connected,      \* this connection has had a SetResolution
    processed,          \* items handled in the current poll
    batch,              \* drained inputs not yet handled
    result,             \* how the last session ended
    reconnect_attempt,
    reconnect_now,      \* handle_wait_input saw Reconnect
    latest_clipboard,   \* the host's last clipboard text, encoded
    server_clip,        \* what this connection last sent to the server
    input_queue,        \* the channel from main to the session thread
    input_open,         \* main still holds input_tx
    main_pc,            \* the main thread
    request_error,
    worker_error,       \* a joined thread returned an error
    writer,             \* the writer thread
    hand,               \* the output it took and has not yet written
    host_session,       \* what the host last heard about the connection
    host_image,         \* what the host displays
    host_delay,         \* last announced back-off since a connection, or None
    events, connects, requests      \* bounds

displayVars == <<framebuffer, keyframe, dirty_rects, was_connected>>
inputVars == <<input_queue, input_open>>
loopVars == <<processed, batch, result, reconnect_attempt, reconnect_now>>
clipVars == <<latest_clipboard, server_clip>>
mainVars == <<main_pc, request_error>>
writerVars == <<writer, hand>>
hostVars == <<host_session, host_image, host_delay>>
bounds == <<events, connects, requests>>

vars == <<mailboxVars, pc, displayVars, loopVars, clipVars, inputVars, mainVars,
          worker_error, writerVars, hostVars, bounds>>

Images == [size : Sizes, pix : [Tiles -> Colors]]

ASSUME NoneIsNoImage == None \notin Images

Reasons == {"DisplayUpdate", "SessionError", "ConnectionLost", "Manual"}

Results == [kind : {"Closed", "InputClosed"}]
             \cup [kind : {"Reconnect"}, reason : Reasons, manual : BOOLEAN,
                   was_connected : BOOLEAN]

PcStates == {"boot", "start", "connecting", "initial_refresh", "replay", "poll",
             "drain", "handle", "shutdown", "backend", "waiting",
             "finished", "ended"}

Init ==
    /\ output_mailbox
    /\ pc = "boot"
    /\ framebuffer = None /\ keyframe = FALSE /\ dirty_rects = <<>>
    /\ was_connected = FALSE
    /\ processed = 0 /\ batch = <<>> /\ result = None
    /\ reconnect_attempt = 0 /\ reconnect_now = FALSE
    /\ latest_clipboard = None /\ server_clip = None
    /\ input_queue = <<>> /\ input_open = TRUE
    /\ main_pc = "reading" /\ request_error = FALSE /\ worker_error = FALSE
    /\ writer = "running" /\ hand = None
    /\ host_session = "none" /\ host_image = None /\ host_delay = None
    /\ events = 0 /\ connects = 0 /\ requests = 0

-------------------------------------------------------------------------------
(* The session thread: run_vnc_thread, run_vnc_backend, run_vnc_session. *)

\* What a step of the session thread leaves alone, besides its own variables.
OthersUnchanged == UNCHANGED <<mainVars, writerVars, hostVars, requests>>

run_vnc_thread ==
    /\ pc = "boot"
    /\ \/ /\ pc' = "start"
          /\ UNCHANGED <<mailboxVars, worker_error>>
       \/ /\ send([kind |-> "ConnectionFailure"])     \* the runtime does not start
          /\ worker_error' = TRUE
          /\ pc' = "finished"
    /\ UNCHANGED <<displayVars, loopVars, clipVars, inputVars, events, connects>>
    /\ OthersUnchanged

run_vnc_session ==
    /\ pc = "start"
    /\ send([kind |-> "Status"])
    /\ pc' = "connecting"
    /\ UNCHANGED <<displayVars, loopVars, clipVars, inputVars, worker_error, events, connects>>
    /\ OthersUnchanged

Reconnect(reason, manual, connected) ==
    [kind |-> "Reconnect", reason |-> reason, manual |-> manual, was_connected |-> connected]

reconnect_reason == IF was_connected THEN "ConnectionLost" ELSE "SessionError"

\* connect_vnc fails; is_terminal_connect_error decides which way.
connect_error_result ==
    /\ pc = "connecting"
    /\ \/ /\ send([kind |-> "ConnectionFailure"])
          /\ result' = [kind |-> "Closed"]
          /\ pc' = "finished"
          /\ UNCHANGED connects
       \/ /\ connects < MaxConnects
          /\ connects' = connects + 1
          /\ result' = Reconnect("SessionError", FALSE, FALSE)
          /\ pc' = "backend"
          /\ UNCHANGED mailboxVars
    /\ UNCHANGED <<displayVars, processed, batch, reconnect_attempt, reconnect_now,
                   clipVars, inputVars, worker_error, events>>
    /\ OthersUnchanged

\* connect_vnc succeeds: a new generation and a fresh ConnectedVncSession.
connect_vnc ==
    /\ pc = "connecting"
    /\ connects < MaxConnects
    /\ connects' = connects + 1
    /\ begin_generation
    /\ framebuffer' = None /\ keyframe' = FALSE /\ dirty_rects' = <<>>
    /\ was_connected' = FALSE
    /\ server_clip' = None
    /\ pc' = "initial_refresh"
    /\ UNCHANGED <<loopVars, latest_clipboard, inputVars, worker_error, events>>
    /\ OthersUnchanged

\* The session is over and will be shut down with this result.
EndWith(r) == result' = r /\ pc' = "shutdown"

request_initial_refresh ==
    /\ pc = "initial_refresh"
    /\ \/ pc' = "replay" /\ UNCHANGED result
       \/ EndWith(Reconnect("DisplayUpdate", FALSE, was_connected))
    /\ UNCHANGED <<mailboxVars, displayVars, processed, batch, reconnect_attempt,
                   reconnect_now, clipVars, inputVars, worker_error, events, connects>>
    /\ OthersUnchanged

\* Fault: the clipboard is not replayed.
replay_clipboard_skipped ==
    /\ pc = "replay"
    /\ processed' = 0
    /\ pc' = "poll"
    /\ UNCHANGED <<mailboxVars, displayVars, batch, result, reconnect_attempt, reconnect_now,
                   clipVars, inputVars, worker_error, events, connects>>
    /\ OthersUnchanged

\* Give the new server the clipboard text the host set before.
replay_clipboard ==
    /\ pc = "replay"
    /\ \/ /\ server_clip' = latest_clipboard
          /\ processed' = 0
          /\ pc' = "poll"
          /\ UNCHANGED result
       \/ /\ latest_clipboard # None
          /\ EndWith(Reconnect(reconnect_reason, FALSE, was_connected))
          /\ UNCHANGED <<server_clip, processed>>
    /\ UNCHANGED <<mailboxVars, displayVars, batch, reconnect_attempt, reconnect_now,
                   latest_clipboard, inputVars, worker_error, events, connects>>
    /\ OthersUnchanged

-------------------------------------------------------------------------------
(* poll_events and handle_event. *)

NewScreen(size) == [size |-> size, pix |-> [t \in Tiles |-> Blank]]

set_resolution(size) ==
    /\ framebuffer' = NewScreen(size)
    /\ keyframe' = TRUE
    /\ dirty_rects' = <<>>
    /\ was_connected' = TRUE
    /\ send([kind |-> "Connected", size |-> size])

Painted(tile, color) ==
    /\ framebuffer' = [framebuffer EXCEPT !.pix[tile] = color]
    /\ dirty_rects' = Append(dirty_rects, tile)

\* patch_rect and copy_rect do nothing before the first SetResolution.
patch_rect(tile, color) ==
    /\ IF framebuffer = None THEN UNCHANGED <<framebuffer, dirty_rects>>
       ELSE Painted(tile, color)
    /\ UNCHANGED <<mailboxVars, keyframe, was_connected>>

copy_rect(dst, src) ==
    /\ IF framebuffer = None THEN UNCHANGED <<framebuffer, dirty_rects>>
       ELSE Painted(dst, framebuffer.pix[src])
    /\ UNCHANGED <<mailboxVars, keyframe, was_connected>>

\* An event that only produces a control output: a clipboard text, or the status
\* that reports a JPEG rectangle.
report(output) == send(output) /\ UNCHANGED displayVars

handle_event ==
    \/ \E size \in Sizes : set_resolution(size)
    \/ \E tile \in Tiles, color \in Colors : patch_rect(tile, color)
    \/ \E dst, src \in Tiles : dst # src /\ copy_rect(dst, src)
    \/ \E text \in Texts : report([kind |-> "ClipboardText", text |-> text])
    \/ report([kind |-> "Status"])

poll_event ==
    /\ pc = "poll"
    /\ processed < MAX_EVENTS_PER_POLL
    /\ events < MaxEvents
    /\ events' = events + 1
    /\ processed' = processed + 1
    /\ handle_event
    /\ UNCHANGED <<pc, batch, result, reconnect_attempt, reconnect_now,
                   clipVars, inputVars, worker_error, connects>>
    /\ OthersUnchanged

\* VncEvent::Error, a rectangle outside the framebuffer, or poll_event itself
\* failing: the session ends without the flush.
poll_error ==
    /\ pc = "poll"
    /\ processed < MAX_EVENTS_PER_POLL
    /\ EndWith(Reconnect(reconnect_reason, FALSE, was_connected))
    /\ UNCHANGED <<mailboxVars, displayVars, processed, batch, reconnect_attempt,
                   reconnect_now, clipVars, inputVars, worker_error, events, connects>>
    /\ OthersUnchanged

Dirty == {dirty_rects[i] : i \in 1..Len(dirty_rects)}

\* The rectangles painted since the last flush, with their present content.
DirtyDelta ==
    [kind |-> "FrameBgraRects", size |-> framebuffer.size,
     pix |-> [t \in Tiles |-> IF t \in Dirty THEN framebuffer.pix[t] ELSE NoPixel],
     bytes |-> Len(dirty_rects)]

\* Fault: what was painted is forgotten when the full frame has already been sent.
flush_frame_keyframe_only ==
    /\ pc = "poll"
    /\ IF framebuffer # None /\ dirty_rects # <<>> /\ keyframe
       THEN send([kind |-> "Frame", size |-> framebuffer.size, pix |-> framebuffer.pix])
       ELSE UNCHANGED mailboxVars
    /\ keyframe' = FALSE
    /\ dirty_rects' = <<>>
    /\ processed' = 0
    /\ pc' = "drain"
    /\ UNCHANGED <<framebuffer, was_connected, batch, result, reconnect_attempt, reconnect_now,
                   clipVars, inputVars, worker_error, events, connects>>
    /\ OthersUnchanged

\* The end of poll_events: one frame or one delta for everything painted.
flush_frame ==
    /\ pc = "poll"
    /\ \/ /\ framebuffer = None \/ dirty_rects = <<>>
          /\ UNCHANGED <<mailboxVars, keyframe, dirty_rects>>
       \/ /\ framebuffer # None /\ dirty_rects # <<>>
          /\ send(IF keyframe
                  THEN [kind |-> "Frame", size |-> framebuffer.size, pix |-> framebuffer.pix]
                  ELSE DirtyDelta)
          /\ keyframe' = FALSE
          /\ dirty_rects' = <<>>
    /\ processed' = 0
    /\ pc' = "drain"
    /\ UNCHANGED <<framebuffer, was_connected, batch, result, reconnect_attempt, reconnect_now,
                   clipVars, inputVars, worker_error, events, connects>>
    /\ OthersUnchanged

-------------------------------------------------------------------------------
(* handle_pending_inputs and refresh_if_needed. *)

\* Fault: a disconnected channel is taken for an empty one.
drain_remote_inputs_never_closed ==
    /\ pc = "drain"
    /\ \/ /\ input_queue # <<>> /\ processed < MAX_INPUTS_PER_POLL
          /\ batch' = Append(batch, Head(input_queue))
          /\ input_queue' = Tail(input_queue)
          /\ processed' = processed + 1
          /\ UNCHANGED <<pc, result>>
       \/ /\ processed = MAX_INPUTS_PER_POLL \/ input_queue = <<>>
          /\ pc' = "handle"
          /\ UNCHANGED <<batch, input_queue, processed, result>>
    /\ UNCHANGED <<mailboxVars, displayVars, reconnect_attempt, reconnect_now, clipVars,
                   input_open, worker_error, events, connects>>
    /\ OthersUnchanged

\* One try_recv of drain_remote_inputs.
drain_remote_inputs ==
    /\ pc = "drain"
    /\ \/ /\ input_queue # <<>> /\ processed < MAX_INPUTS_PER_POLL
          /\ batch' = Append(batch, Head(input_queue))
          /\ input_queue' = Tail(input_queue)
          /\ processed' = processed + 1
          /\ UNCHANGED <<pc, result>>
       \/ /\ processed = MAX_INPUTS_PER_POLL \/ (input_queue = <<>> /\ input_open)
          /\ pc' = "handle"
          /\ UNCHANGED <<batch, input_queue, processed, result>>
       \/ /\ processed < MAX_INPUTS_PER_POLL /\ input_queue = <<>> /\ ~input_open
          /\ EndWith([kind |-> "InputClosed"])        \* the batch is discarded
          /\ batch' = <<>>
          /\ UNCHANGED <<input_queue, processed>>
    /\ UNCHANGED <<mailboxVars, displayVars, reconnect_attempt, reconnect_now, clipVars,
                   input_open, worker_error, events, connects>>
    /\ OthersUnchanged

\* A transport failure while an input is forwarded.
InputFailed == EndWith(Reconnect(reconnect_reason, FALSE, was_connected)) /\ batch' = <<>>

send_clipboard_text(text) ==
    IF Wire[text] = None
    THEN UNCHANGED <<pc, result, clipVars>> /\ batch' = Tail(batch)
    ELSE /\ latest_clipboard' = Wire[text]
         /\ \/ /\ server_clip' = Wire[text]
               /\ batch' = Tail(batch)
               /\ UNCHANGED <<pc, result>>
            \/ InputFailed /\ UNCHANGED server_clip

handle_vnc_input ==
    /\ pc = "handle"
    /\ batch # <<>>
    /\ LET input == Head(batch) IN
       \/ /\ input.kind = "Close"
          /\ EndWith([kind |-> "Closed"])
          /\ batch' = <<>>
          /\ UNCHANGED clipVars
       \/ /\ input.kind = "Reconnect"
          /\ EndWith(Reconnect("Manual", TRUE, was_connected))
          /\ batch' = <<>>
          /\ UNCHANGED clipVars
       \/ /\ input.kind = "Text"
          /\ send_clipboard_text(input.text)
       \/ /\ input.kind = "Pointer"
          /\ \/ batch' = Tail(batch) /\ UNCHANGED <<pc, result>>
             \/ InputFailed
          /\ UNCHANGED clipVars
    /\ UNCHANGED <<mailboxVars, displayVars, processed, reconnect_attempt, reconnect_now,
                   inputVars, worker_error, events, connects>>
    /\ OthersUnchanged

\* The batch is handled: refresh_if_needed, then sleep and poll again.
refresh_if_needed ==
    /\ pc = "handle"
    /\ batch = <<>>
    /\ \/ pc' = "poll" /\ processed' = 0 /\ UNCHANGED result
       \/ EndWith(Reconnect("DisplayUpdate", FALSE, was_connected)) /\ UNCHANGED processed
    /\ UNCHANGED <<mailboxVars, displayVars, batch, reconnect_attempt, reconnect_now, clipVars,
                   inputVars, worker_error, events, connects>>
    /\ OthersUnchanged

-------------------------------------------------------------------------------
(* The end of a session, and the wait before the next one. *)

\* shutdown_session closes the client; whether or not that succeeds, the session
\* value is dropped and its result goes to run_vnc_backend.
shutdown_session ==
    /\ pc = "shutdown"
    /\ pc' = IF result.kind = "Reconnect" THEN "backend" ELSE "finished"
    /\ framebuffer' = None /\ keyframe' = FALSE /\ dirty_rects' = <<>>
    /\ was_connected' = FALSE
    /\ server_clip' = None
    /\ UNCHANGED <<mailboxVars, loopVars, latest_clipboard, inputVars, worker_error,
                   events, connects>>
    /\ OthersUnchanged

reconnect_delay(attempt) ==
    CASE attempt = 0 -> 1 [] attempt = 1 -> 2 [] attempt = 2 -> 5 [] OTHER -> 10

\* Fault: the counter wraps around.
NextAttempt_wraps(attempt) == (attempt + 1) % 4

\* Attempts from 3 on are alike, so the counter stops there.
NextAttempt(attempt) == IF attempt < 3 THEN attempt + 1 ELSE attempt

\* The Reconnect arm of run_vnc_backend.
run_vnc_backend ==
    /\ pc = "backend"
    /\ LET attempt == IF result.was_connected \/ result.manual THEN 0 ELSE reconnect_attempt
       IN  IF result.manual
           THEN /\ reconnect_attempt' = attempt
                /\ send([kind |-> "Reconnecting", delay |-> None])
                /\ pc' = "start"
           ELSE /\ reconnect_attempt' = NextAttempt(attempt)
                /\ send([kind |-> "Reconnecting", delay |-> reconnect_delay(attempt)])
                /\ pc' = "waiting"
    /\ result' = None
    /\ processed' = 0
    /\ reconnect_now' = FALSE
    /\ UNCHANGED <<displayVars, batch, clipVars, inputVars, worker_error, events, connects>>
    /\ OthersUnchanged

\* One try_recv of handle_wait_input.
handle_wait_input ==
    /\ pc = "waiting"
    /\ input_queue # <<>>
    /\ processed < MAX_INPUTS_PER_POLL
    /\ input_queue' = Tail(input_queue)
    /\ processed' = processed + 1
    /\ LET input == Head(input_queue) IN
       /\ pc' = IF input.kind = "Close" THEN "finished" ELSE pc
       /\ reconnect_now' = (reconnect_now \/ input.kind = "Reconnect")
       /\ latest_clipboard' = IF input.kind = "Text" /\ Wire[input.text] # None
                              THEN Wire[input.text] ELSE latest_clipboard
    /\ UNCHANGED <<mailboxVars, displayVars, batch, result, reconnect_attempt, server_clip,
                   input_open, worker_error, events, connects>>
    /\ OthersUnchanged

\* The poll of wait_before_reconnect is over: stop, reconnect now, reconnect
\* because the deadline has passed, or sleep and poll again.
wait_before_reconnect ==
    /\ pc = "waiting"
    /\ input_queue = <<>> \/ processed = MAX_INPUTS_PER_POLL
    /\ \/ /\ processed < MAX_INPUTS_PER_POLL /\ ~input_open
          /\ pc' = "finished"
       \/ /\ processed = MAX_INPUTS_PER_POLL \/ input_open
          /\ pc' \in IF reconnect_now THEN {"start"} ELSE {"start", "waiting"}
    /\ processed' = 0
    /\ UNCHANGED <<mailboxVars, displayVars, batch, result, reconnect_attempt, reconnect_now,
                   clipVars, inputVars, worker_error, events, connects>>
    /\ OthersUnchanged

\* The thread returns: input_rx and output_tx are dropped.
session_thread_ends ==
    /\ pc = "finished"
    /\ pc' = "ended"
    /\ drop_sender
    /\ input_queue' = <<>>
    /\ UNCHANGED <<displayVars, loopVars, clipVars, input_open, worker_error, events, connects>>
    /\ OthersUnchanged

SessionStep ==
    \/ run_vnc_thread \/ run_vnc_session \/ connect_error_result \/ connect_vnc
    \/ request_initial_refresh \/ replay_clipboard
    \/ poll_event \/ poll_error \/ flush_frame
    \/ drain_remote_inputs \/ handle_vnc_input \/ refresh_if_needed
    \/ shutdown_session \/ run_vnc_backend
    \/ handle_wait_input \/ wait_before_reconnect \/ session_thread_ends

-------------------------------------------------------------------------------
(* The main thread. *)

SessionUnchanged ==
    UNCHANGED <<pc, displayVars, loopVars, clipVars, events, connects>>

stop_reading == main_pc' = "joining" /\ input_open' = FALSE

\* A request line that decodes: forward it; Close and a closed channel end the loop.
host_request(input) ==
    /\ main_pc = "reading"
    /\ requests < MaxRequests
    /\ requests' = requests + 1
    /\ IF pc = "ended"
       THEN request_error' = TRUE /\ stop_reading /\ UNCHANGED input_queue
       ELSE /\ input_queue' = Append(input_queue, input)
            /\ UNCHANGED request_error
            /\ IF input.kind = "Close" THEN stop_reading
               ELSE UNCHANGED <<main_pc, input_open>>
    /\ UNCHANGED <<mailboxVars, writerVars, hostVars, worker_error>>
    /\ SessionUnchanged

\* End of stdin, or a line that cannot be read or decoded.
stdin_ends ==
    /\ main_pc = "reading"
    /\ stop_reading
    /\ request_error' \in BOOLEAN
    /\ UNCHANGED <<mailboxVars, input_queue, writerVars, hostVars, worker_error, requests>>
    /\ SessionUnchanged

\* Both threads are joined; an error is reported to the host by main itself.
join_workers ==
    /\ main_pc = "joining"
    /\ pc = "ended"
    /\ writer # "running"
    /\ IF request_error \/ worker_error
       THEN /\ main_pc' = "exit_error"
            /\ host_session' = IF writer = "failed" THEN host_session ELSE "failed"
       ELSE /\ main_pc' = "exit_ok"
            /\ UNCHANGED host_session
    /\ UNCHANGED <<mailboxVars, inputVars, request_error, writerVars, host_image, host_delay,
                   worker_error, requests>>
    /\ SessionUnchanged

-------------------------------------------------------------------------------
(* The writer thread, and the host at the other end of the pipe. *)

\* The picture that results from showing an output (external: the host).
Shown(image, output) ==
    IF output = None THEN image
    ELSE IF output.kind = "Frame" THEN [size |-> output.size, pix |-> output.pix]
    ELSE IF /\ output.kind = "FrameBgraRects"
            /\ image # None
            /\ image.size = output.size
         THEN [image EXCEPT !.pix = Overlay(output.pix, image.pix)]
         ELSE image

writer_recv ==
    /\ writer = "running"
    /\ hand = None
    /\ recv_output
    /\ hand' = NextOutput
    /\ UNCHANGED <<inputVars, mainVars, writer, hostVars, worker_error, requests>>
    /\ SessionUnchanged

writer_stops ==
    /\ writer = "running"
    /\ hand = None
    /\ recv_closed
    /\ writer' = "stopped"
    /\ drop_receiver
    /\ UNCHANGED <<inputVars, mainVars, hand, hostVars, worker_error, requests>>
    /\ SessionUnchanged

write_event ==
    /\ writer = "running"
    /\ hand # None
    /\ hand' = None
    /\ host_image' = Shown(host_image, hand)
    /\ host_session' = CASE hand.kind = "Connected" -> "connected"
                         [] hand.kind = "Reconnecting" -> "reconnecting"
                         [] hand.kind \in {"ConnectionFailure", "Terminated"} -> "failed"
                         [] OTHER -> host_session
    /\ host_delay' = CASE hand.kind = "Connected" -> None
                       [] hand.kind = "Reconnecting" -> hand.delay
                       [] OTHER -> host_delay
    /\ UNCHANGED <<mailboxVars, inputVars, mainVars, writer, worker_error, requests>>
    /\ SessionUnchanged

write_event_fails ==
    /\ writer = "running"
    /\ hand # None
    /\ hand' = None
    /\ writer' = "failed"
    /\ worker_error' = TRUE
    /\ drop_receiver
    /\ UNCHANGED <<inputVars, mainVars, hostVars, requests>>
    /\ SessionUnchanged

WriterStep == writer_recv \/ writer_stops \/ write_event \/ write_event_fails

Next ==
    \/ SessionStep
    \/ WriterStep
    \/ (\E input \in Requests : host_request(input)) \/ stdin_ends
    \/ join_workers

\* The session thread is at the server's mercy: in connect_vnc, which has no timeout
\* and looks at no input, and where it puts an input or a refresh into the client's
\* bounded channel, which a server that stops reading may fill.
WaitsForServer ==
    \/ pc = "connecting"
    \/ /\ pc = "handle"
       /\ batch = <<>> \/ Head(batch).kind \in {"Text", "Pointer"}

\* Each thread runs: a step of the session thread that is always possible and does
\* not wait for the server happens, the writer's writes return, and main joins.
\* Neither the server nor the host is obliged to do anything; in particular a
\* connection attempt need not end.
Fairness ==
    /\ WF_vars(~WaitsForServer /\ SessionStep)
    /\ WF_vars(WriterStep)
    /\ WF_vars(join_workers)

Spec == Init /\ [][Next]_vars /\ Fairness

-------------------------------------------------------------------------------
(* Properties *)

\* Every variable has its type.
TypeOK ==
    /\ MailboxTypeOK
    /\ pc \in PcStates
    /\ framebuffer \in Images \cup {None}
    /\ keyframe \in BOOLEAN
    /\ dirty_rects \in Seq(Tiles)
    /\ was_connected \in BOOLEAN
    /\ processed \in Nat
    /\ batch \in Seq(Inputs)
    /\ result \in Results \cup {None}
    /\ reconnect_attempt \in 0..3
    /\ reconnect_now \in BOOLEAN
    /\ latest_clipboard \in Texts \cup {None}
    /\ server_clip \in Texts \cup {None}
    /\ input_queue \in Seq(Inputs)
    /\ input_open \in BOOLEAN
    /\ main_pc \in {"reading", "joining", "exit_ok", "exit_error"}
    /\ request_error \in BOOLEAN
    /\ worker_error \in BOOLEAN
    /\ writer \in {"running", "stopped", "failed"}
    /\ hand \in Frames \cup Deltas \cup Controls \cup {None}
    /\ host_session \in {"none", "connected", "reconnecting", "failed"}
    /\ host_image \in Images \cup {None}
    /\ host_delay \in Delays \cup {None}
    /\ events \in Nat /\ connects \in Nat /\ requests \in Nat

\* What the host will show once the writer has written everything that is pending.
PendingPicture == Shown(Shown(Shown(host_image, hand), latest_frame), latest_delta)

\* Replacing frames and merging deltas loses no pixel: once the keyframe is out, the
\* picture the host ends up with agrees with the framebuffer on every tile that has
\* not been painted since the last flush, however far the writer lags behind.
PictureIsComplete ==
    receiver_alive /\ framebuffer # None /\ ~keyframe =>
        /\ PendingPicture # None
        /\ PendingPicture.size = framebuffer.size
        /\ \A t \in Tiles \ Dirty : PendingPicture.pix[t] = framebuffer.pix[t]

\* The host never gets a delta for a picture it does not have: the last frame it was
\* sent has the delta's size.
DeltaHasItsFrame ==
    hand # None /\ hand.kind = "FrameBgraRects" =>
        host_image # None /\ host_image.size = hand.size

\* Frames, deltas, clipboard texts and cursors reach the host only between a Connected
\* and the Reconnecting or failure that follows it: nothing of an ended connection
\* arrives after its end was announced, nothing of a new one before its Connected.
SessionOutputsStayInside ==
    hand \in Frames \cup Deltas \cup SessionScoped => host_session = "connected"

\* In the connected loop the server has the host's latest clipboard text, even one set
\* during an earlier connection or while the helper was waiting to reconnect.
ServerHasLatestClipboard ==
    pc \in {"poll", "drain", "handle"} => server_clip = latest_clipboard

\* Until a connection succeeds (or a manual reconnect), the announced delays never
\* shrink: reconnect_attempt is reset for no other reason.
BackoffNeverShrinks ==
    hand # None /\ hand.kind = "Reconnecting" /\ hand.delay # None /\ host_delay # None =>
        hand.delay >= host_delay

\* The host's picture and connection are the ones of the session: nothing is lost on
\* the way, no delta comes without its frame, no output outside its connection.
DisplaySafe == PictureIsComplete /\ DeltaHasItsFrame /\ SessionOutputsStayInside

\* Once the server falls silent, the host shows the server's screen: nothing painted
\* stays behind in the framebuffer, the mailbox or the writer.
HostConverges ==
    <>[](/\ writer = "running"
         /\ pc \in {"poll", "drain", "handle"}
         /\ framebuffer # None
         /\ ~keyframe \/ dirty_rects # <<>>
         => host_image = framebuffer)

\* When the host closes the helper (Close, end of stdin, or a bad request), the process
\* ends, unless the session thread waits for the server for ever: it sees the end of
\* the input in every other phase, the writer drains and both threads are joined.
HelperExits ==
    main_pc = "joining" ~>
        main_pc \in {"exit_ok", "exit_error"} \/ []WaitsForServer
===============================================================================
