------------------------------ MODULE RdpDisplay ------------------------------
(***************************************************************************)
(* The output side of the RDP helper: the task that paces and maps what    *)
(* the RDP client emits (rdp.rs, rdp/output.rs), the mailbox, the writer   *)
(* thread and the end of the process (main.rs).                            *)
(*                                                                         *)
(* The RDP client is the environment: it emits any event in any order and  *)
(* may stop at any time.  The task computes what an event maps to in one   *)
(* step (nobody else sees its state) and sends the results one by one, so  *)
(* that the writer and the clipboard interleave with them.                 *)
(*                                                                         *)
(* server_* is what the RDP server has drawn in the present session,       *)
(* host_* what the host has been told; only the properties read them.      *)
(***************************************************************************)
EXTENDS RdpMailbox

CONSTANTS
    Settle,         \* FRAME_SETTLE_INTERVAL
    MaxLatency,     \* MAX_FRAME_PRESENTATION_LATENCY
    MaxEvents,      \* bound: events of the RDP client
    MaxClipboard    \* bound: events of the clipboard

ASSUME Intervals == Settle \in Nat \ {0} /\ MaxLatency \in Nat \ {0}
ASSUME NoneIsNoTime == None \notin Nat
ASSUME Bounds == MaxEvents \in Nat /\ MaxClipboard \in Nat

VARIABLES
    output_mapper,    \* RdpOutputMapper
    pending_image,    \* the image that waits for a quiet moment, or None
    settle_deadline, max_latency_deadline,   \* time left until then, or None
    outbox,           \* mapped events that are still to be sent
    output_task, client, main, writer,
    hand,             \* the event the writer took and has not yet written
    server_image, server_cursor, age,
    host_image, host_session, host_cursor, delivered,
    events, clipboard_events

pacing == <<pending_image, settle_deadline, max_latency_deadline, age>>
threads == <<output_task, client, main, writer>>
hostVars == <<host_image, host_session, host_cursor, delivered>>
serverVars == <<server_image, server_cursor>>
vars == <<mailboxVars, output_mapper, pacing, outbox, threads, hand, hostVars,
          serverVars, events, clipboard_events>>

NoCursor == [appearance |-> None, position |-> None]
NewMapper == [connected |-> FALSE, base_size |-> None, pending_cursor |-> NoCursor]

Init ==
    /\ output_mailbox
    /\ output_mapper = NewMapper
    /\ pending_image = None /\ settle_deadline = None /\ max_latency_deadline = None
    /\ outbox = <<>>
    /\ output_task = "running" /\ client = "starting" /\ main = "reading" /\ writer = "running"
    /\ hand = None
    /\ server_image = None /\ server_cursor = NoCursor /\ age = 0
    /\ host_image = None /\ host_session = FALSE
    /\ host_cursor = NoCursor /\ delivered = <<>>
    /\ events = 0 /\ clipboard_events = 0

-------------------------------------------------------------------------------
(* RdpOutputMapper: the next state of the mapper and the events to send. *)

Mapped(mapper, out) == [mapper |-> mapper, out |-> out]

OptionSeq(option) == IF option = None THEN <<>> ELSE <<option>>

\* PendingCursor::record and what the host does with a cursor event.
RecordCursor(cursor, event) ==
    IF event \in Positions THEN [cursor EXCEPT !.position = event]
    ELSE [cursor EXCEPT !.appearance = event]

\* A cursor after any event.
Moved(cursor, event) == IF event \in CursorEvents THEN RecordCursor(cursor, event) ELSE cursor

\* An image, or a region that covers the whole desktop.
MapBaseFrame(mapper, size, picture) ==
    LET announce == IF mapper.connected THEN <<>>
                    ELSE <<[kind |-> "Connected", size |-> size]>>
                           \o OptionSeq(mapper.pending_cursor.appearance)
                           \o OptionSeq(mapper.pending_cursor.position)
    IN  Mapped([connected |-> TRUE, base_size |-> size, pending_cursor |-> NoCursor],
               Append(announce, Frame(size, picture)))

MapRegion(mapper, size, entry) ==
    IF entry.rect = Screen(size) THEN MapBaseFrame(mapper, size, entry.pixels)
    ELSE IF ~mapper.connected \/ mapper.base_size # size THEN Mapped(mapper, <<>>)
    ELSE Mapped(mapper, <<Delta(size, <<entry>>)>>)

\* Fault: cursor events do not wait for Connected.
map_cursor_at_once(mapper, event) == Mapped(mapper, <<event>>)

\* Fault: cursor events before Connected are not kept.
map_cursor_dropped(mapper, event) ==
    Mapped(mapper, IF mapper.connected THEN <<event>> ELSE <<>>)

map_cursor(mapper, event) ==
    IF mapper.connected THEN Mapped(mapper, <<event>>)
    ELSE Mapped([mapper EXCEPT !.pending_cursor = RecordCursor(@, event)], <<>>)

\* reset_session, and the event that says why.
MapSessionEnd(mapper, event) == Mapped(NewMapper, <<event>>)

-------------------------------------------------------------------------------
(* map_output_events *)

Receives == /\ output_task = "running"
            /\ outbox = <<>>
            /\ client = "running"
            /\ events < MaxEvents
            /\ events' = events + 1

\* Fault: every image pushes the latest moment of presentation back.
record_image_postponed ==
    /\ settle_deadline' = Settle
    /\ max_latency_deadline' = MaxLatency

\* FramePresentationSchedule::record_image
record_image ==
    /\ settle_deadline' = Settle
    /\ max_latency_deadline' = IF max_latency_deadline = None THEN MaxLatency
                               ELSE max_latency_deadline

ClearSchedule ==
    /\ pending_image' = None
    /\ settle_deadline' = None /\ max_latency_deadline' = None
    /\ age' = 0

\* Fault: the image that waits is dropped.
Flushed_nothing == Mapped(output_mapper, <<>>)

\* What flush_pending_image has the mapper send.
Flushed ==
    IF pending_image = None THEN Mapped(output_mapper, <<>>)
    ELSE MapBaseFrame(output_mapper, pending_image.size, pending_image.pixels)

\* flush_pending_image, then publish_output_event with what the mapper made of the
\* event after it.
FlushAndPublish(mapped) ==
    /\ output_mapper' = mapped.mapper
    /\ outbox' = Flushed.out \o mapped.out
    /\ ClearSchedule

Image(size, color) ==
    /\ Receives
    /\ pending_image' = [size |-> size, pixels |-> [c \in Cells(Screen(size)) |-> color]]
    /\ record_image
    /\ age' = IF pending_image = None THEN 0 ELSE age
    /\ server_image' = pending_image'
    /\ UNCHANGED <<mailboxVars, output_mapper, outbox, threads, hand, hostVars,
                   server_cursor, clipboard_events>>

\* The rectangles of a desktop; a region with malformed bounds or with the wrong
\* number of pixels maps to nothing, as EventWithoutOutput does.
RegionEvents(size) ==
    {r \in [x : 0 .. size[1] - 1, y : 0 .. size[2] - 1,
            width : 1 .. size[1], height : 1 .. size[2]] :
         r.x + r.width <= size[1] /\ r.y + r.height <= size[2]}

\* What the server's desktop looks like after a region: a region of the whole
\* desktop starts it, any other applies to a desktop of the same size.
Drawn(size, entry) ==
    IF entry.rect = Screen(size) THEN [size |-> size, pixels |-> entry.pixels]
    ELSE IF server_image # None /\ server_image.size = size
         THEN [size |-> size, pixels |-> PaintOne(server_image.pixels, entry)]
         ELSE server_image

DesktopUpdate(size, region, color) ==
    LET entry == [rect |-> region, pixels |-> [c \in Cells(region) |-> color]]
    IN  /\ Receives
        /\ FlushAndPublish(MapRegion(Flushed.mapper, size, entry))
        /\ server_image' = Drawn(size, entry)
        /\ UNCHANGED <<mailboxVars, threads, hand, hostVars, server_cursor, clipboard_events>>

\* Pointer events do not flush the image that waits.
Pointer(event) ==
    LET mapped == map_cursor(output_mapper, event)
    IN  /\ Receives
        /\ output_mapper' = mapped.mapper
        /\ outbox' = mapped.out
        /\ server_cursor' = RecordCursor(server_cursor, event)
        /\ UNCHANGED <<mailboxVars, pacing, threads, hand, hostVars, server_image,
                       clipboard_events>>

\* DisplayResizeFallback, ConnectionFailure, Terminated.
SessionEnd(event) ==
    /\ Receives
    /\ FlushAndPublish(MapSessionEnd(Flushed.mapper, event))
    /\ server_image' = None
    /\ server_cursor' = NoCursor
    /\ UNCHANGED <<mailboxVars, threads, hand, hostVars, clipboard_events>>

\* Events without a counterpart at the host (LoginComplete, AutoReconnecting, ...)
\* and malformed regions: only the pending image is flushed.
EventWithoutOutput ==
    /\ Receives
    /\ FlushAndPublish(Mapped(Flushed.mapper, <<>>))
    /\ UNCHANGED <<mailboxVars, threads, hand, hostVars, serverVars, clipboard_events>>

is_due == 0 \in {settle_deadline, max_latency_deadline}

\* The timer of the select, or the check behind it.
FlushDue ==
    /\ output_task = "running"
    /\ outbox = <<>>
    /\ is_due
    /\ FlushAndPublish(Mapped(Flushed.mapper, <<>>))
    /\ UNCHANGED <<mailboxVars, threads, hand, hostVars, serverVars, events, clipboard_events>>

\* Time passes.  The loop checks the deadline after every event, so it does not
\* pass a deadline while the loop runs.
Tick ==
    /\ pending_image # None
    /\ output_task = "running"
    /\ outbox = <<>>
    /\ ~is_due
    /\ settle_deadline' = settle_deadline - 1
    /\ max_latency_deadline' = max_latency_deadline - 1
    /\ age' = age + 1
    /\ UNCHANGED <<mailboxVars, output_mapper, pending_image, outbox, threads, hand,
                   hostVars, serverVars, events, clipboard_events>>

\* publish_output_event: one send.
Publish ==
    /\ outbox # <<>>
    /\ send(Head(outbox))
    /\ outbox' = Tail(outbox)
    /\ UNCHANGED <<output_mapper, pacing, threads, hand, hostVars, serverVars, events,
                   clipboard_events>>

\* A send finds the receiver gone: the task returns its error and drops its sender.
PublishFails ==
    /\ outbox # <<>>
    /\ ~receiver_alive
    /\ output_task' = "failed"
    /\ outbox' = <<>>
    /\ ClearSchedule
    /\ drop_sender
    /\ UNCHANGED <<output_mapper, client, main, writer, hand, hostVars, serverVars, events,
                   clipboard_events>>

\* The client has dropped its end of the channel: flush and leave the loop ...
ChannelCloses ==
    /\ output_task = "running"
    /\ outbox = <<>>
    /\ client = "ended"
    /\ FlushAndPublish(Mapped(Flushed.mapper, <<>>))
    /\ output_task' = "closing"
    /\ UNCHANGED <<mailboxVars, client, main, writer, hand, hostVars, serverVars, events,
                   clipboard_events>>

\* ... and drop the sender on return.
OutputTaskEnds ==
    /\ output_task = "closing"
    /\ outbox = <<>>
    /\ output_task' = "ended"
    /\ drop_sender
    /\ UNCHANGED <<output_mapper, pacing, outbox, client, main, writer, hand, hostVars,
                   serverVars, events, clipboard_events>>

-------------------------------------------------------------------------------
(* The other threads. *)

\* run_client_thread has a tokio runtime and starts the client ...
RuntimeStarts ==
    /\ client = "starting"
    /\ client' = "running"
    /\ UNCHANGED <<mailboxVars, output_mapper, pacing, outbox, output_task, main, writer, hand,
                   hostVars, serverVars, events, clipboard_events>>

\* ... or it has none: report_runtime_failure, and everything it was given goes.
RuntimeFails ==
    /\ client = "starting"
    /\ client' = "ended"
    /\ output_task' = "closing"
    /\ outbox' = <<[kind |-> "ConnectionFailure"]>>
    /\ drop_sender
    /\ UNCHANGED <<output_mapper, pacing, main, writer, hand, hostVars, serverVars, events,
                   clipboard_events>>

\* client.run() returns, after a close or on its own; the clipboard backend goes
\* with it.
ClientEnds ==
    /\ client = "running"
    /\ client' = "ended"
    /\ drop_sender
    /\ UNCHANGED <<output_mapper, pacing, outbox, output_task, main, writer, hand, hostVars,
                   serverVars, events, clipboard_events>>

\* The clipboard backend or controller reports something; a closed mailbox is
\* ignored.
ClipboardEvent(event) ==
    /\ client # "ended" \/ main = "reading"
    /\ clipboard_events < MaxClipboard
    /\ clipboard_events' = clipboard_events + 1
    /\ IF receiver_alive THEN send(event) ELSE UNCHANGED mailboxVars
    /\ UNCHANGED <<output_mapper, pacing, outbox, threads, hand, hostVars, serverVars, events>>

\* Fault: the clipboard controller is kept until the end.
Shutdown_keeps_controller ==
    /\ main = "reading"
    /\ main' = "joining_client"
    /\ UNCHANGED <<mailboxVars, output_mapper, pacing, outbox, output_task, client, writer,
                   hand, hostVars, serverVars, events, clipboard_events>>

\* Close, the end of stdin or a bad request: RdpRuntime::shutdown asks the client
\* to close and drops the clipboard controller.
Shutdown ==
    /\ main = "reading"
    /\ main' = "joining_client"
    /\ drop_sender
    /\ UNCHANGED <<output_mapper, pacing, outbox, output_task, client, writer, hand, hostVars,
                   serverVars, events, clipboard_events>>

JoinClient ==
    /\ main = "joining_client"
    /\ client = "ended" /\ output_task \in {"ended", "failed"}
    /\ main' = "joining_writer"
    /\ UNCHANGED <<mailboxVars, output_mapper, pacing, outbox, output_task, client, writer,
                   hand, hostVars, serverVars, events, clipboard_events>>

JoinWriter ==
    /\ main = "joining_writer"
    /\ writer \in {"stopped", "failed"}
    /\ main' = "exited"
    /\ UNCHANGED <<mailboxVars, output_mapper, pacing, outbox, output_task, client, writer,
                   hand, hostVars, serverVars, events, clipboard_events>>

Recv ==
    /\ writer = "running" /\ hand = None
    /\ recv_event
    /\ hand' = NextEvent
    /\ UNCHANGED <<output_mapper, pacing, outbox, threads, hostVars, serverVars, events,
                   clipboard_events>>

\* The picture after an event; a delta for another picture cannot be painted.
Shown(image, event) ==
    IF event.kind = "FrameBgraBytes" THEN [size |-> event.size, pixels |-> event.pixels]
    ELSE IF event.kind = "FrameBgraRects" /\ image # None /\ image.size = event.size
    THEN [image EXCEPT !.pixels = Paint(@, event.rects)]
    ELSE image

\* The host reads a written event.
HostReads(event) ==
    /\ host_image' = Shown(host_image, event)
    /\ host_session' = IF event \in Terminals \cup Reconnectings THEN FALSE
                       ELSE host_session \/ event.kind = "Connected"
    /\ host_cursor' = Moved(host_cursor, event)
    /\ delivered' = IF event \in Controls \ CursorEvents THEN Append(delivered, event)
                    ELSE delivered

Write ==
    /\ writer = "running" /\ hand # None
    /\ HostReads(hand)
    /\ hand' = None
    /\ UNCHANGED <<mailboxVars, output_mapper, pacing, outbox, threads, serverVars, events,
                   clipboard_events>>

\* stdout is gone: the thread returns its error and drops the receiver.
WriteFails ==
    /\ writer = "running" /\ hand # None
    /\ hand' = None
    /\ writer' = "failed"
    /\ drop_receiver
    /\ UNCHANGED <<output_mapper, pacing, outbox, output_task, client, main, hostVars,
                   serverVars, events, clipboard_events>>

WriterStops ==
    /\ writer = "running" /\ hand = None
    /\ recv_closed
    /\ writer' = "stopped"
    /\ drop_receiver
    /\ UNCHANGED <<output_mapper, pacing, outbox, output_task, client, main, hand, hostVars,
                   serverVars, events, clipboard_events>>

ClientEvent ==
    \/ \E size \in Sizes, color \in Colors : Image(size, color)
    \/ \E size \in Sizes, color \in Colors :
           \E region \in RegionEvents(size) : DesktopUpdate(size, region, color)
    \/ \E event \in CursorEvents : Pointer(event)
    \/ \E event \in Terminals \cup Reconnectings : SessionEnd(event)
    \/ EventWithoutOutput

OutputTask == FlushDue \/ Publish \/ PublishFails \/ ChannelCloses \/ OutputTaskEnds
WriterThread == Recv \/ Write \/ WriteFails \/ WriterStops
MainThread == JoinClient \/ JoinWriter

Next ==
    \/ ClientEvent \/ OutputTask \/ WriterThread \/ MainThread
    \/ Tick \/ RuntimeStarts \/ RuntimeFails \/ ClientEnds \/ Shutdown
    \/ \E event \in ClipboardEvents : ClipboardEvent(event)

\* The threads run and a write returns; a client that has been asked to close
\* ends.  Nothing obliges the client to emit anything or the host to close.
Fairness ==
    /\ WF_vars(OutputTask)
    /\ WF_vars(WriterThread)
    /\ WF_vars(MainThread)
    /\ WF_vars(Tick)
    /\ WF_vars(RuntimeStarts \/ RuntimeFails)
    /\ WF_vars(main # "reading" /\ ClientEnds)

Spec == Init /\ [][Next]_vars /\ Fairness

-------------------------------------------------------------------------------
(* Properties *)

IsPicture(image) == image.size \in Sizes /\ image.pixels \in Pictures(image.size)
Cursors == [appearance : Appearances \cup {None}, position : Positions \cup {None}]

\* Every variable of the output side has its type.
TypeOK ==
    /\ MailboxTypeOK
    /\ output_mapper.connected \in BOOLEAN
    /\ output_mapper.base_size \in Sizes \cup {None}
    /\ output_mapper.pending_cursor \in Cursors
    /\ pending_image = None \/ IsPicture(pending_image)
    /\ settle_deadline \in 0..Settle \cup {None}
    /\ max_latency_deadline \in 0..MaxLatency \cup {None}
    /\ \A i \in DOMAIN outbox :
           outbox[i] \in Controls \/ IsFrame(outbox[i]) \/ IsDelta(outbox[i])
    /\ output_task \in {"running", "closing", "ended", "failed"}
    /\ client \in {"starting", "running", "ended"}
    /\ main \in {"reading", "joining_client", "joining_writer", "exited"}
    /\ writer \in {"running", "stopped", "failed"}
    /\ server_image = None \/ IsPicture(server_image)
    /\ host_image = None \/ IsPicture(host_image)
    /\ {server_cursor, host_cursor} \subseteq Cursors

\* Everything on its way to the host, in the order in which it will arrive: what
\* the writer holds, the mailbox, what is still to be sent.
Underway(queued, unsent) == OptionSeq(hand) \o queued \o outbox \o unsent

\* No pixel is lost: the host's picture, with all that is on its way, is the
\* server's desktop, however images are held back, merged, split and folded.
PictureIsComplete ==
    server_image # None /\ receiver_alive =>
        LET unsent == IF pending_image = None THEN <<>>
                      ELSE <<Frame(pending_image.size, pending_image.pixels)>>
        IN  FoldLeft(Shown, host_image,
                     Underway(OptionSeq(latest_frame) \o pending_deltas, unsent)) = server_image

\* The cursor survives coalescing, the wait for Connected and the discarding at a
\* session's end: the host's cursor, with all that is on its way, is the server's.
CursorIsCurrent ==
    receiver_alive =>
        LET waiting == output_mapper.pending_cursor
            cursor == FoldLeft(Moved, host_cursor,
                               Underway(control, OptionSeq(waiting.appearance)
                                                   \o OptionSeq(waiting.position)))
        IN  /\ server_cursor.appearance \in {None, cursor.appearance}
            /\ server_cursor.position \in {None, cursor.position}

\* A cursor event reaches the host only between Connected and the end of that
\* session: it is held back before and discarded after.
CursorsStayInsideSession == hand \in CursorEvents => host_session

\* An image waits at most MaxLatency, however many others replace it, and never
\* without a deadline that will flush it.
PresentedInTime ==
    pending_image # None =>
        /\ age =< MaxLatency
        /\ settle_deadline # None /\ max_latency_deadline # None

\* What the host is shown comes in time and in its session: no image waits longer than
\* MaxLatency, and no cursor event crosses the end of its session.
OutputSafe == PresentedInTime /\ CursorsStayInsideSession

\* No delta that waits or is being written is larger than the cap, however often it was
\* merged or folded since, except for a single row.
DeltasStayWithinCap ==
    /\ \A i \in DOMAIN pending_deltas : WithinCap(pending_deltas[i].rects)
    /\ hand # None /\ hand.kind = "FrameBgraRects" => WithinCap(hand.rects)

\* The state of the output side is well formed, no pixel is lost in it, and no event
\* outgrows the cap.
PictureSafe == TypeOK /\ PictureIsComplete /\ DeltasStayWithinCap

\* The controls that are neither frames nor cursor events, in the order in which the
\* host will read them.
ReliableControls == Controls \ CursorEvents
ReliableQueue ==
    (IF hand \in ReliableControls THEN <<hand>> ELSE <<>>) \o Without(control, CursorEvents)

\* Seen through the controls that are not cursor events, the mailbox is a reliable
\* FIFO channel: frames, cursors, the two clipboard senders and the output task do
\* not lose or reorder them.
Reliable == INSTANCE ReliableChannel WITH
    Messages <- ReliableControls,
    queue <- ReliableQueue,
    delivered <- delivered,
    open <- receiver_alive

ControlsAreReliable == Reliable!Spec

\* When the client falls silent, the host ends up with the server's desktop: the
\* timer of the pending image is always set.
HostConverges == <>[](server_image # None /\ receiver_alive => host_image = server_image)

\* After a close the process ends: every sender is dropped, the writer drains the
\* mailbox and returns.
HelperExits == main # "reading" ~> main = "exited"
===============================================================================
