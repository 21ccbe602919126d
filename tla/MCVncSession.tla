----------------------------- MODULE MCVncSession -----------------------------
(* VncSession on small instances. *)
EXTENDS VncSession

\* Text 1 is sent as it is; text 2 is too long for a VNC cut text.
MCWire == [t \in Texts |-> IF t = 2 THEN None ELSE t]
MCClose == [kind |-> "Close"]
MCReconnect == [kind |-> "Reconnect"]
MCPointer == [kind |-> "Pointer"]
MCText(t) == [kind |-> "Text", text |-> t]

MCRequests == {MCClose, MCReconnect, MCPointer} \cup {MCText(t) : t \in Texts}

\* The safety run is deep in two directions: everything the server draws, on two
\* connections and without requests; and requests, clipboard, reconnects and exit
\* over five connections, with one small picture to see.
Painting == requests = 0 /\ connects <= 2
SmallPicture == [size |-> 1, pix |-> [t \in Tiles |-> 0]]
Requesting == events <= 1 /\ framebuffer \in {None, SmallPicture}

MCNext == Next /\ (Painting \/ Requesting)'
MCSpec == Init /\ [][MCNext]_vars
===============================================================================
