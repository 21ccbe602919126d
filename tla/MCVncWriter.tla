------------------------------ MODULE MCVncWriter -----------------------------
(* VncWriter on a small instance: one representative of every kind of output. *)
EXTENDS VncWriter

CONSTANTS s1, s2

MCSenders == {s1, s2}
MCTiles == {1}
MCColors == {0}
MCSizes == {1}

MCFrame == [kind |-> "Frame", size |-> 1, pix |-> [t \in MCTiles |-> 0]]
MCDelta == [kind |-> "FrameBgraRects", size |-> 1, pix |-> [t \in MCTiles |-> 0], bytes |-> 1]

MCOutputs ==
    {MCFrame, MCDelta,
     [kind |-> "Connected", size |-> 1],
     [kind |-> "Reconnecting", delay |-> 1],
     [kind |-> "ConnectionFailure"],
     [kind |-> "Status"],
     [kind |-> "ClipboardText", text |-> 1],
     [kind |-> "CursorHidden"],
     [kind |-> "CursorPosition", mark |-> 1]}

\* Without, which is written for the provers, is SelectSeq.
ShortQueues == UNION {[1..n -> 1..3] : n \in 0..4}
ASSUME WithoutIsSelectSeq ==
    \A s \in ShortQueues, D \in SUBSET (1..3) :
        Without(s, D) = SelectSeq(s, LAMBDA x : x \notin D)
===============================================================================
