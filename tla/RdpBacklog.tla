------------------------------ MODULE RdpBacklog ------------------------------
(***************************************************************************)
(* The delta queue of the RDP mailbox alone, for a writer that falls any   *)
(* distance behind: one desktop, repainted region by region, and a host    *)
(* that takes events out whenever it gets around to it.  RdpDisplay has    *)
(* the rest of the helper; here there is room for more deltas.             *)
(***************************************************************************)
EXTENDS RdpMailbox

CONSTANTS
    Width, Height,  \* the size of the desktop
    MaxSends        \* bound: how many updates are sent

Size == <<Width, Height>>
OneSize == {Size}

ASSUME SizeIsASize == Size \in Sizes
ASSUME MaxSendsIsNatural == MaxSends \in Nat

VARIABLES
    desktop,   \* what the server has drawn
    shown,     \* what the host has painted
    sends

vars == <<mailboxVars, desktop, shown, sends>>

Regions ==
    {r \in [x : 0 .. Size[1] - 1, y : 0 .. Size[2] - 1, width : 1 .. Size[1], height : 1 .. Size[2]] :
         r.x + r.width <= Size[1] /\ r.y + r.height <= Size[2]}

\* The base frame has been shown.
Init ==
    /\ output_mailbox
    /\ \E color \in Colors : desktop = [c \in Cells(Screen(Size)) |-> color]
    /\ shown = desktop
    /\ sends = 0

\* A connected session sends what the mapper makes of a region: the base frame when it is
\* the whole desktop, else one rectangle.
Repaint(region, color) ==
    LET entry == [rect |-> region, pixels |-> [c \in Cells(region) |-> color]]
    IN  /\ sends < MaxSends
        /\ sends' = sends + 1
        /\ desktop' = PaintOne(desktop, entry)
        /\ send(IF region = Screen(Size) THEN Frame(Size, entry.pixels)
                ELSE Delta(Size, <<entry>>))
        /\ UNCHANGED shown

HostTakes ==
    /\ recv_event
    /\ shown' = IF NextEvent.kind = "FrameBgraBytes" THEN NextEvent.pixels
                ELSE Paint(shown, NextEvent.rects)
    /\ UNCHANGED <<desktop, sends>>

Next == HostTakes \/ \E region \in Regions, color \in Colors : Repaint(region, color)

Spec == Init /\ [][Next]_vars

-------------------------------------------------------------------------------
(* Properties *)

\* Merging, splitting and folding lose nothing: the host's picture, painted over
\* with the pending frame and the pending deltas in order, is the desktop.
BacklogRestoresPicture ==
    FoldLeft(LAMBDA picture, event : Paint(picture, event.rects),
             IF latest_frame = None THEN shown ELSE latest_frame.pixels,
             pending_deltas) = desktop

\* "The result holds pairwise disjoint rectangles carrying every pixel of the union
\* exactly once": trimming leaves no overlap inside one event, as long as the list of
\* entries does not outgrow MaxMergedRects, beyond which nothing is trimmed.
EventsCarryEachCellOnce ==
    \A k \in DOMAIN pending_deltas :
        LET rects == pending_deltas[k].rects
        IN  \A i, j \in DOMAIN rects :
                i # j => Cells(rects[i].rect) \cap Cells(rects[j].rect) = {}

\* No event is larger than the cap, also not one that was folded and split again,
\* except for a single row that no cut can make smaller.
EventsStayWithinCap ==
    \A k \in DOMAIN pending_deltas : WithinCap(pending_deltas[k].rects)

\* "Pixels still waiting for delivery may not exceed this many screens, so a helper
\* that outruns the consumer keeps its backlog proportional to the screen rather
\* than to time."
BacklogStaysProportional ==
    queued_bytes(pending_deltas) <= Larger(Cap, Size[1] * Size[2]) * MaxPendingScreens
===============================================================================
