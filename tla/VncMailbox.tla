------------------------------ MODULE VncMailbox ------------------------------
(***************************************************************************)
(* The output mailbox of the VNC helper: the one place where the session   *)
(* thread (which decodes what the VNC server sends) and the writer thread  *)
(* (which copies outputs to stdout) meet.  Everything is guarded by one    *)
(* mutex, so each operation below is one atomic step.                      *)
(*                                                                         *)
(* Pixels are abstracted to Tiles, disjoint rectangles of the screen, each *)
(* of one colour.  A delta (FrameBgraRects) is what applying its           *)
(* rectangles in order does to the tiles, plus `bytes', the number of      *)
(* tiles its buffer holds (a tile sent twice is held twice).               *)
(***************************************************************************)
EXTENDS Naturals, Sequences, Retain

CONSTANTS
    Sizes,      \* screen resolutions
    Tiles,      \* the rectangles a screen is made of
    Colors,     \* what a tile can show
    Blank,      \* the colour of a fresh framebuffer
    Texts,      \* clipboard texts
    Marks,      \* cursor positions and cursor bitmaps
    Delays,     \* delays announced with Reconnecting
    NoPixel,    \* a tile that a delta does not touch
    None        \* Rust's Option::None

ASSUME BlankIsAColor == Blank \in Colors
ASSUME NoPixelIsNoColor == NoPixel \notin Colors

Frames == [kind : {"Frame"}, size : Sizes, pix : [Tiles -> Colors]]

Deltas == [kind : {"FrameBgraRects"}, size : Sizes,
           pix : [Tiles -> Colors \cup {NoPixel}], bytes : Nat]

Connecteds == [kind : {"Connected"}, size : Sizes]

Reconnectings == [kind : {"Reconnecting"}, delay : Delays \cup {None}]

Terminals == [kind : {"ConnectionFailure", "Terminated"}]

Statuses == [kind : {"Status"}]

\* is_session_scoped_control
SessionScoped == [kind : {"ClipboardText"}, text : Texts]
                   \cup [kind : {"CursorDefault", "CursorHidden"}]
                   \cup [kind : {"CursorPosition", "CursorBitmap"}, mark : Marks]

Controls == Connecteds \cup Reconnectings \cup Terminals \cup Statuses
              \cup SessionScoped

ASSUME NoneIsNoOutput == None \notin Frames \cup Deltas \cup Controls

VARIABLES
    control,                    \* FIFO of control outputs
    latest_frame,               \* the one pending full frame, or None
    latest_delta,               \* the one pending (merged) delta, or None
    accepting_session_outputs,
    sender_count,
    receiver_alive

mailboxVars == <<control, latest_frame, latest_delta,
                 accepting_session_outputs, sender_count, receiver_alive>>

MailboxTypeOK ==
    /\ control \in Seq(Controls)
    /\ latest_frame \in Frames \cup {None}
    /\ latest_delta \in Deltas \cup {None}
    /\ accepting_session_outputs \in BOOLEAN
    /\ sender_count \in Nat
    /\ receiver_alive \in BOOLEAN

output_mailbox ==
    /\ control = <<>>
    /\ latest_frame = None
    /\ latest_delta = None
    /\ accepting_session_outputs = TRUE
    /\ sender_count = 1
    /\ receiver_alive = TRUE

-------------------------------------------------------------------------------
(* The operations of the sender. *)

\* Later rectangles are painted over earlier ones.
Overlay(top, bottom) ==
    [t \in Tiles |-> IF top[t] = NoPixel THEN bottom[t] ELSE top[t]]

\* Fault: the newer delta replaces the older one, as a newer frame does.
merge_deltas_newest(previous, next) == next

merge_deltas(previous, next) ==
    IF previous.size = next.size
    THEN [next EXCEPT !.pix = Overlay(next.pix, previous.pix),
                      !.bytes = previous.bytes + next.bytes]
    ELSE next

\* Consecutive cursor positions, and consecutive cursor bitmaps, collapse.
enqueue_control(queue, output) ==
    IF /\ queue # <<>>
       /\ output.kind \in {"CursorPosition", "CursorBitmap"}
       /\ queue[Len(queue)].kind = output.kind
    THEN [queue EXCEPT ![Len(queue)] = output]
    ELSE Append(queue, output)

\* Fault: control.clear() in place of control.retain(..).
discard_everything == <<>>

discard_pending_session_controls == Without(control, SessionScoped)

\* close_session_outputs, with what the caller then does to the queue.
close_session_outputs(queue) ==
    /\ latest_frame' = None
    /\ latest_delta' = None
    /\ accepting_session_outputs' = FALSE
    /\ control' = queue

begin_generation ==
    /\ close_session_outputs(discard_pending_session_controls)
    /\ UNCHANGED <<sender_count, receiver_alive>>

SendBarrier(output) ==
    /\ output.kind \in {"Reconnecting", "ConnectionFailure", "Terminated"}
    /\ close_session_outputs(Append(discard_pending_session_controls, output))

SendConnected(output) ==
    /\ output.kind = "Connected"
    /\ accepting_session_outputs' = TRUE
    /\ control' = Append(control, output)
    /\ UNCHANGED <<latest_frame, latest_delta>>

\* Fault: frames go through the queue, as in the unbounded channel it replaced.
SendFrame_queued(output) ==
    /\ output.kind = "Frame"
    /\ accepting_session_outputs
    /\ control' = Append(control, output)
    /\ UNCHANGED <<latest_frame, latest_delta, accepting_session_outputs>>

SendFrame(output) ==
    /\ output.kind = "Frame"
    /\ accepting_session_outputs
    /\ latest_frame' = output
    /\ latest_delta' = None
    /\ UNCHANGED <<control, accepting_session_outputs>>

SendDelta(output) ==
    /\ output.kind = "FrameBgraRects"
    /\ accepting_session_outputs
    /\ latest_delta' = IF latest_delta = None THEN output
                       ELSE merge_deltas(latest_delta, output)
    /\ UNCHANGED <<control, latest_frame, accepting_session_outputs>>

\* Visual and session-scoped outputs are dropped between two connections.
SendDropped(output) ==
    /\ output \in SessionScoped \/ output.kind \in {"Frame", "FrameBgraRects"}
    /\ ~accepting_session_outputs
    /\ UNCHANGED <<control, latest_frame, latest_delta, accepting_session_outputs>>

SendControl(output) ==
    /\ output.kind = "Status" \/ (output \in SessionScoped /\ accepting_session_outputs)
    /\ control' = enqueue_control(control, output)
    /\ UNCHANGED <<latest_frame, latest_delta, accepting_session_outputs>>

send(output) ==
    /\ UNCHANGED <<sender_count, receiver_alive>>
    /\ \/ /\ ~receiver_alive            \* Err(MailboxClosed)
          /\ UNCHANGED <<control, latest_frame, latest_delta, accepting_session_outputs>>
       \/ /\ receiver_alive
          /\ \/ SendBarrier(output)
             \/ SendConnected(output)
             \/ SendFrame(output)
             \/ SendDelta(output)
             \/ SendDropped(output)
             \/ SendControl(output)

\* Fault: a clone is not counted.
clone_sender_uncounted == UNCHANGED mailboxVars

clone_sender ==
    /\ sender_count' = sender_count + 1
    /\ UNCHANGED <<control, latest_frame, latest_delta,
                   accepting_session_outputs, receiver_alive>>

drop_sender ==
    /\ sender_count' = IF sender_count = 0 THEN 0 ELSE sender_count - 1
    /\ UNCHANGED <<control, latest_frame, latest_delta,
                   accepting_session_outputs, receiver_alive>>

-------------------------------------------------------------------------------
(* The operations of the receiver. *)

Deliverable == control # <<>> \/ latest_frame # None \/ latest_delta # None

\* What recv returns next: controls first, then the frame, then the delta.
NextOutput ==
    IF control # <<>> THEN Head(control)
    ELSE IF latest_frame # None THEN latest_frame ELSE latest_delta

\* recv has something to return, and takes it out of the mailbox.
recv_output ==
    /\ Deliverable
    /\ control' = IF control # <<>> THEN Tail(control) ELSE control
    /\ latest_frame' = IF control = <<>> THEN None ELSE latest_frame
    /\ latest_delta' = IF control = <<>> /\ latest_frame = None THEN None ELSE latest_delta
    /\ UNCHANGED <<accepting_session_outputs, sender_count, receiver_alive>>

\* recv returns None: nothing is pending and no sender is left.
recv_closed == ~Deliverable /\ sender_count = 0

drop_receiver ==
    /\ receiver_alive' = FALSE
    /\ control' = <<>>
    /\ latest_frame' = None
    /\ latest_delta' = None
    /\ UNCHANGED <<accepting_session_outputs, sender_count>>
===============================================================================
