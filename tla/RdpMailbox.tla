------------------------------ MODULE RdpMailbox ------------------------------
(***************************************************************************)
(* The output mailbox of the RDP helper.  Like the one of the VNC helper   *)
(* it is a FIFO of controls and a slot for the latest frame under one      *)
(* mutex; instead of one merged delta it keeps a queue of them, in which   *)
(* no event carries more than Cap and which is folded when the writer      *)
(* falls behind.  Nothing is closed between two sessions.                  *)
(*                                                                         *)
(* An entry of a delta is a rectangle with the colours of its cells.  The  *)
(* code keeps them in row-major buffers; a buffer that is shorter than its *)
(* rectangle says is rejected before it gets here (RdpDisplay,             *)
(* RegionEvents).  Sizes are counted in cells of 4 bytes.                  *)
(***************************************************************************)
EXTENDS Integers, Sequences, SequencesExt, Retain

CONSTANTS
    Cap,                \* MAX_MERGED_DELTA_BYTES: how much one event may carry
    MaxMergedRects,     \* MAX_MERGED_DELTA_RECTS: beyond it, append without trimming
    Sizes,              \* desktop sizes, <<width, height>>
    Colors,             \* what a cell can show
    Marks,              \* cursor positions and cursor bitmaps
    Texts,              \* clipboard contents
    MaxPendingEvents,   \* MAX_PENDING_DELTA_EVENTS
    MaxPendingScreens,  \* MAX_PENDING_DELTA_SCREENS
    None                \* Rust's Option::None

ASSUME CapIsPositive == Cap \in Nat \ {0}
ASSUME MaxMergedRectsIsNatural == MaxMergedRects \in Nat
ASSUME SizesAreExtents == Sizes \subseteq (Nat \ {0}) \X (Nat \ {0})
ASSUME PendingLimits == MaxPendingEvents \in Nat /\ MaxPendingScreens \in Nat

-------------------------------------------------------------------------------
(* The arithmetic of dirty rectangles: trimming what a newer one covers, and splitting
   what is too large for one event. *)

HelperFrameRect(x, y, width, height) ==
    [x |-> x, y |-> y, width |-> width, height |-> height]

Cells(r) == (r.x .. r.x + r.width - 1) \X (r.y .. r.y + r.height - 1)

Area(entry) == entry.rect.width * entry.rect.height

\* bgra.len() of a list of entries.
PayloadOf(entries) == FoldLeft(LAMBDA sum, entry : sum + Area(entry), 0, entries)

\* The part of an entry that lies in the rectangle r.
Part(entry, r) == [rect |-> r, pixels |-> [c \in Cells(r) |-> entry.pixels[c]]]

push_band(entry, row_start, row_end, column_start, column_end) ==
    IF row_start >= row_end \/ column_start >= column_end THEN <<>>
    ELSE <<Part(entry, HelperFrameRect(column_start, row_start,
                                       column_end - column_start, row_end - row_start))>>

Larger(a, b) == IF a > b THEN a ELSE b
Smaller(a, b) == IF a < b THEN a ELSE b

\* The entry minus the rectangle cover: the rows above and below it, then the
\* columns to its left and right.
trim_covered_pixels(entry, cover) ==
    LET rect == entry.rect
        left == Larger(cover.x, rect.x)
        top == Larger(cover.y, rect.y)
        right == Smaller(cover.x + cover.width, rect.x + rect.width)
        bottom == Smaller(cover.y + cover.height, rect.y + rect.height)
    IN  IF left >= right \/ top >= bottom THEN <<entry>>
        ELSE push_band(entry, rect.y, top, rect.x, rect.x + rect.width)
               \o push_band(entry, bottom, rect.y + rect.height, rect.x, rect.x + rect.width)
               \o push_band(entry, top, bottom, rect.x, left)
               \o push_band(entry, top, bottom, right, rect.x + rect.width)

\* One turn of the loop in fold_payload.
TrimAndAppend(entries, cover) ==
    IF Len(entries) > MaxMergedRects THEN Append(entries, cover)
    ELSE Append(FlattenSeq([i \in DOMAIN entries |->
                                trim_covered_pixels(entries[i], cover.rect)]), cover)

\* Fault: the older entries are put over the newer ones.
fold_payload_backwards(entries, covers) == FoldLeft(TrimAndAppend, covers, entries)

fold_payload(entries, covers) == FoldLeft(TrimAndAppend, entries, covers)

\* An entry larger than the cap is cut into bands of whole rows, a band having at
\* least one row.
split_entry_into_bands(entry) ==
    LET rect == entry.rect
        rows_per_band == Larger(Cap \div rect.width, 1)
        bands == (rect.height + rows_per_band - 1) \div rows_per_band
        Band(i) == HelperFrameRect(rect.x, rect.y + (i - 1) * rows_per_band, rect.width,
                                   Smaller(rows_per_band, rect.height - (i - 1) * rows_per_band))
    IN  IF rect.width = 0 \/ Area(entry) <= Cap THEN <<entry>>
        ELSE [i \in 1..bands |-> Part(entry, Band(i))]

\* One turn of the loop in split_delta_into_chunks: the last chunk takes the band
\* if there is room for it.
IntoChunks(chunks, entry) ==
    IF chunks = <<>> \/ PayloadOf(Last(chunks)) + Area(entry) > Cap
    THEN Append(chunks, <<entry>>)
    ELSE Append(Front(chunks), Append(Last(chunks), entry))

split_delta_into_chunks(entries) ==
    FoldLeft(IntoChunks, <<>>,
             FlattenSeq([i \in DOMAIN entries |-> split_entry_into_bands(entries[i])]))

\* A list of entries that one event may carry: it is within the cap, or a single row,
\* which no cut into bands can make smaller.
WithinCap(entries) ==
    \/ PayloadOf(entries) <= Cap
    \/ Len(entries) = 1 /\ entries[1].rect.height = 1

-------------------------------------------------------------------------------
(* What the consumer does with a list of entries: paint them in order. *)

PaintOne(picture, entry) ==
    [c \in DOMAIN picture |-> IF c \in Cells(entry.rect) THEN entry.pixels[c] ELSE picture[c]]

Paint(picture, entries) == FoldLeft(PaintOne, picture, entries)

-------------------------------------------------------------------------------
(* Events and the state of the mailbox. *)

Screen(size) == HelperFrameRect(0, 0, size[1], size[2])
Pictures(size) == [Cells(Screen(size)) -> Colors]

Frame(size, picture) == [kind |-> "FrameBgraBytes", size |-> size, pixels |-> picture]
Delta(size, entries) == [kind |-> "FrameBgraRects", size |-> size, rects |-> entries]

Appearances == [kind : {"CursorDefault", "CursorHidden"}]
                 \cup [kind : {"CursorRgbaBytes"}, mark : Marks]
Positions == [kind : {"CursorPosition"}, mark : Marks]
CursorEvents == Appearances \cup Positions
Terminals == [kind : {"ConnectionFailure", "Terminated"}]
Reconnectings == [kind : {"Reconnecting"}]
Connecteds == [kind : {"Connected"}, size : Sizes]
ClipboardEvents == [kind : {"Clipboard"}, text : Texts]
Controls == CursorEvents \cup Terminals \cup Reconnectings \cup Connecteds \cup ClipboardEvents

ASSUME NoneIsNoEvent == None \notin Controls
ASSUME NoneIsNoPicture ==
    \A size \in Sizes :
        LET maps == UNION {[area -> Colors] : area \in SUBSET Cells(Screen(size))}
            entries == [rect : [x : Int, y : Int, width : Int, height : Int], pixels : maps]
        IN  /\ None \notin [kind : {"FrameBgraBytes"}, size : {size}, pixels : maps]
            /\ None \notin [kind : {"FrameBgraRects"}, size : {size}, rects : Seq(entries)]
            /\ None \notin [size : {size}, pixels : maps]

VARIABLES
    control,         \* FIFO of control events
    latest_frame,    \* the one pending full frame, or None
    pending_deltas,  \* deltas that follow it, oldest first
    sender_count,
    receiver_alive

visuals == <<latest_frame, pending_deltas>>
mailboxVars == <<control, latest_frame, pending_deltas, sender_count, receiver_alive>>

IsFrame(event) ==
    /\ event.kind = "FrameBgraBytes" /\ event.size \in Sizes
    /\ event.pixels \in Pictures(event.size)
IsEntry(entry) ==
    /\ {entry.rect.x, entry.rect.y} \subseteq Nat
    /\ {entry.rect.width, entry.rect.height} \subseteq Nat \ {0}
    /\ entry.pixels \in [Cells(entry.rect) -> Colors]
IsDelta(event) ==
    /\ event.kind = "FrameBgraRects" /\ event.size \in Sizes
    /\ \A i \in DOMAIN event.rects :
           /\ IsEntry(event.rects[i])
           /\ Cells(event.rects[i].rect) \subseteq Cells(Screen(event.size))

MailboxTypeOK ==
    /\ control \in Seq(Controls)
    /\ latest_frame = None \/ IsFrame(latest_frame)
    /\ \A i \in DOMAIN pending_deltas : IsDelta(pending_deltas[i])
    /\ sender_count \in Nat
    /\ receiver_alive \in BOOLEAN

\* The mailbox as start() leaves it: one sender for the output mapper, one for the
\* clipboard controller and one for the clipboard backend.
output_mailbox ==
    /\ control = <<>> /\ latest_frame = None /\ pending_deltas = <<>>
    /\ sender_count = 3
    /\ receiver_alive = TRUE

-------------------------------------------------------------------------------
(* queue_delta *)

\* merge_deltas; an update for another size supersedes the previous one.
merge_deltas(previous, next) ==
    IF previous.size = next.size THEN fold_payload(previous.rects, next.rects) ELSE next.rects

\* The chunks of a list of entries as events.
Chunks(size, entries) ==
    LET chunks == split_delta_into_chunks(entries)
    IN  [i \in DOMAIN chunks |-> Delta(size, chunks[i])]

queued_bytes(queue) == FoldLeft(LAMBDA sum, event : sum + PayloadOf(event.rects), 0, queue)

\* One turn of the while loop: fold the two oldest events, split them again.
FoldOldest(queue) ==
    Chunks(queue[2].size, merge_deltas(queue[1], queue[2])) \o SubSeq(queue, 3, Len(queue))

TooMuch(queue, chunk, budget) ==
    /\ Len(queue) >= 2
    /\ \/ Len(queue) >= MaxPendingEvents
       \/ queued_bytes(queue) + PayloadOf(chunk.rects) > budget

\* shape < previous_shape, on (len, bytes) pairs.
Shrunk(queue, previous) ==
    \/ Len(queue) < Len(previous)
    \/ Len(queue) = Len(previous) /\ queued_bytes(queue) < queued_bytes(previous)

\* The while loop: it ends when there is room or when a turn did not shrink the
\* queue.  Every turn but the last takes away an event or a cell, so there are at
\* most as many turns as there are of those, and one.
MakeRoom(queue, chunk, budget) ==
    LET after[turns \in Nat] == IF turns = 0 THEN queue ELSE FoldOldest(after[turns - 1])
        Ends(turns) == \/ ~TooMuch(after[turns], chunk, budget)
                       \/ turns > 0 /\ ~Shrunk(after[turns], after[turns - 1])
        last == CHOOSE turns \in 0 .. Len(queue) + queued_bytes(queue) + 1 :
                    Ends(turns) /\ \A before \in 0 .. turns - 1 : ~Ends(before)
    IN  after[last]

\* What may wait: MaxPendingScreens complete desktops.
Budget(size) == Larger(Cap, size[1] * size[2]) * MaxPendingScreens

\* One turn of the loop over the chunks, which all have the size of the delta.
QueueChunk(queue, chunk) == Append(MakeRoom(queue, chunk, Budget(chunk.size)), chunk)

queue_delta(queue, delta) ==
    LET merged == IF queue = <<>> THEN fold_payload(<<>>, delta.rects)
                  ELSE merge_deltas(Last(queue), delta)
        waiting == IF queue = <<>> THEN <<>> ELSE Front(queue)
    IN  FoldLeft(QueueChunk, waiting, Chunks(delta.size, merged))

-------------------------------------------------------------------------------
(* The operations of a sender. *)

\* Consecutive cursor positions, and consecutive cursor bitmaps, collapse.
enqueue_control(event) ==
    IF /\ control # <<>>
       /\ event.kind \in {"CursorPosition", "CursorRgbaBytes"}
       /\ Last(control).kind = event.kind
    THEN Append(Front(control), event)
    ELSE Append(control, event)

\* Fault: control.clear().
discard_everything == <<>>

discard_pending_cursor_events == Without(control, CursorEvents)

\* Fault: a new frame leaves the deltas of the old one in the queue.
SendFrame_keeps_deltas(event) ==
    /\ event.kind = "FrameBgraBytes"
    /\ latest_frame' = event
    /\ UNCHANGED <<pending_deltas, control>>

SendFrame(event) ==
    /\ event.kind = "FrameBgraBytes"
    /\ latest_frame' = event
    /\ pending_deltas' = <<>>
    /\ UNCHANGED control

SendDelta(event) ==
    /\ event.kind = "FrameBgraRects"
    /\ pending_deltas' = queue_delta(pending_deltas, event)
    /\ UNCHANGED <<latest_frame, control>>

SendTerminal(event) ==
    /\ event \in Terminals
    /\ latest_frame' = None
    /\ pending_deltas' = <<>>
    /\ control' = Append(discard_pending_cursor_events, event)

SendReconnecting(event) ==
    /\ event \in Reconnectings
    /\ control' = Append(discard_pending_cursor_events, event)
    /\ UNCHANGED visuals

SendControl(event) ==
    /\ event \in CursorEvents \cup Connecteds \cup ClipboardEvents
    /\ control' = enqueue_control(event)
    /\ UNCHANGED visuals

\* OutputSender::send while the receiver lives; otherwise it is Err(MailboxClosed).
send(event) ==
    /\ receiver_alive
    /\ \/ SendFrame(event)
       \/ SendDelta(event)
       \/ SendTerminal(event)
       \/ SendReconnecting(event)
       \/ SendControl(event)
    /\ UNCHANGED <<sender_count, receiver_alive>>

drop_sender ==
    /\ sender_count' = IF sender_count = 0 THEN 0 ELSE sender_count - 1
    /\ UNCHANGED <<control, latest_frame, pending_deltas, receiver_alive>>

-------------------------------------------------------------------------------
(* The operations of the receiver. *)

Deliverable == control # <<>> \/ latest_frame # None \/ pending_deltas # <<>>

\* What recv returns next: controls first, then the frame, then the oldest delta (the
\* queue holds nothing but FrameBgraRects events).
NextEvent ==
    IF control # <<>> THEN Head(control)
    ELSE IF latest_frame # None THEN latest_frame
    ELSE Delta(Head(pending_deltas).size, Head(pending_deltas).rects)

recv_event ==
    /\ Deliverable
    /\ control' = IF control # <<>> THEN Tail(control) ELSE control
    /\ latest_frame' = IF control = <<>> THEN None ELSE latest_frame
    /\ pending_deltas' = IF control = <<>> /\ latest_frame = None
                         THEN Tail(pending_deltas) ELSE pending_deltas
    /\ UNCHANGED <<sender_count, receiver_alive>>

\* recv returns None.
recv_closed == ~Deliverable /\ sender_count = 0

drop_receiver ==
    /\ receiver_alive' = FALSE
    /\ control' = <<>> /\ latest_frame' = None /\ pending_deltas' = <<>>
    /\ UNCHANGED sender_count
===============================================================================
