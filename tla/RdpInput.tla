------------------------------ MODULE RdpInput ------------------------------
(***************************************************************************)
(* The host's requests to the RDP helper and the queue they go through     *)
(* (rdp-helper/src/rdp/{input,input_sender}.rs, main.rs).                  *)
(*                                                                         *)
(* The main thread reads requests and applies them one at a time.  Its     *)
(* queue to the session is bounded: a mouse move that does not fit is      *)
(* remembered and replaced by the next one, everything else waits for a    *)
(* place.  The input database (external, ironrdp) remembers which keys and *)
(* buttons are down and where the pointer is, and turns an operation into  *)
(* events only when it changes something.                                  *)
(*                                                                         *)
(* A button event carries, for the properties only, the position at which  *)
(* the host pressed it: 0 when the desktop changed size since the last     *)
(* move.  A move carries the desktop size it was made on.                  *)
(***************************************************************************)
EXTENDS Naturals, Sequences, FiniteSets, SequencesExt

CONSTANTS
  InPositions,  \* pointer positions, positive
  InButtons,    \* mouse buttons and keys
  InCapacity,   \* capacity of the input queue
  InRequests    \* how many requests the host makes

ASSUME InAssumption ==
  InPositions \subseteq Nat \ {0} /\ InCapacity \in Nat \ {0} /\ InRequests \in Nat

VARIABLES
  inQueue,     \* RdpInputEvents waiting for the session: sequences of events
  inPending,   \* pending_mouse_position: <<>> or the move that waits
  inDb,        \* Database: [pos, down]
  inBusy,      \* operations being sent reliably, <<>>: between requests
  inFlush,     \* the pending position goes with inBusy
  inPhase,     \* "running", "closing", "closed"
  inServer,    \* what the session has passed on: [pos, down, keys]
  inMade,      \* requests so far
  inHost,      \* where the host's pointer is (0: unknown since a resize)
  inTyped,     \* key events in the order the host made them
  inEpoch,     \* sizes the desktop has had
  inFailed     \* the input loop ended with an error

inVars == <<inQueue, inPending, inDb, inBusy, inFlush, inPhase, inServer, inMade, inHost,
            inTyped, inEpoch, inFailed>>

Move(p) == [k |-> "move", pos |-> p, epoch |-> inEpoch]
Button(b, down) == [k |-> "button", b |-> b, down |-> down, at |-> inHost]
Key(n) == [k |-> "key", n |-> n]
ResizeOp == [k |-> "resize", epoch |-> inEpoch + 1]

(***************************************************************************)
(* Database::apply (external): what changes, and the events that say so.   *)
(***************************************************************************)
DbApplied(db, op) ==
  CASE op.k = "move" -> [db EXCEPT !.pos = op.pos]
    [] op.k = "button" -> [db EXCEPT !.down = IF op.down THEN @ \cup {op.b} ELSE @ \ {op.b}]
    [] OTHER -> db

DbTells(db, op) ==
  \/ op.k = "move" /\ db.pos # op.pos
  \/ op.k = "button" /\ op.down # (op.b \in db.down)
  \/ op.k \in {"key", "resize"}

\* try_send_operations on a queue with a place: fast_path_event sends nothing when no
\* operation changes anything.
fast_path_event(db, ops) ==
  LET after(n) == FoldLeft(DbApplied, db, SubSeq(ops, 1, n))
      told == {n \in DOMAIN ops : DbTells(after(n - 1), ops[n])} IN
  [db |-> after(Len(ops)),
   event |-> [i \in 1..Cardinality(told) |-> ops[SetToSortSeq(told, <)[i]]]]

\* try_send_with: the place is reserved before the database is touched.
try_send_with(ops) ==
  LET made == fast_path_event(inDb, ops) IN
  /\ Len(inQueue) < InCapacity
  /\ inDb' = made.db
  /\ inQueue' = IF made.event = <<>> THEN inQueue ELSE Append(inQueue, made.event)

(***************************************************************************)
(* apply_input_request, one action per request.                            *)
(***************************************************************************)
Reads ==
  /\ inPhase = "running" /\ inBusy = <<>>
  /\ inMade < InRequests /\ inMade' = inMade + 1

\* send_mouse_move: the position waits for a later pointer request when the queue is full.
send_mouse_move(p) ==
  /\ Reads
  /\ inHost' = p
  /\ \/ try_send_with(<<Move(p)>>) /\ inPending' = <<>>
     \/ Len(inQueue) >= InCapacity /\ inPending' = <<Move(p)>> /\ UNCHANGED <<inQueue, inDb>>
  /\ UNCHANGED <<inBusy, inFlush, inPhase, inServer, inTyped, inEpoch, inFailed>>

\* send_pointer_operation: the waiting position goes in the same event, before the button.
send_pointer_operation(b, down) ==
  /\ Reads
  /\ inBusy' = Append(inPending, Button(b, down))
  /\ inFlush' = (inPending # <<>>)
  /\ UNCHANGED <<inQueue, inPending, inDb, inPhase, inServer, inHost, inTyped, inEpoch, inFailed>>

\* Keys and characters do not wait for the pointer.  A scan code over 255 ends the loop.
send_operations ==
  /\ Reads
  /\ \/ /\ inBusy' = <<Key(Len(inTyped) + 1)>> /\ inTyped' = Append(inTyped, Len(inTyped) + 1)
        /\ UNCHANGED <<inPhase, inFailed>>
     \/ inPhase' = "closing" /\ inFailed' = TRUE /\ UNCHANGED <<inBusy, inTyped>>
  /\ inFlush' = FALSE
  /\ UNCHANGED <<inQueue, inPending, inDb, inServer, inHost, inEpoch>>

\* Fault: the waiting position survives the resize.
send_resize_keepsPosition ==
  /\ Reads
  /\ inHost' = 0
  /\ inBusy' = <<ResizeOp>> /\ inFlush' = FALSE /\ inEpoch' = inEpoch + 1
  /\ UNCHANGED <<inPending, inQueue, inDb, inPhase, inServer, inTyped, inFailed>>

\* A resize forgets the waiting position: it belongs to the previous desktop.
send_resize ==
  /\ Reads
  /\ inPending' = <<>> /\ inHost' = 0
  /\ inBusy' = <<ResizeOp>> /\ inFlush' = FALSE /\ inEpoch' = inEpoch + 1
  /\ UNCHANGED <<inQueue, inDb, inPhase, inServer, inTyped, inFailed>>

\* send_reliably: tried again every millisecond until there is a place.
send_reliably ==
  /\ inPhase = "running" /\ inBusy # <<>>
  /\ try_send_with(inBusy)
  /\ inBusy' = <<>> /\ inFlush' = FALSE
  /\ inPending' = IF inFlush THEN <<>> ELSE inPending
  /\ UNCHANGED <<inPhase, inServer, inMade, inHost, inTyped, inEpoch, inFailed>>

\* Close, the end of stdin, or a second Connect ends the loop.
InClose(failed) ==
  /\ inPhase = "running" /\ inBusy = <<>>
  /\ inPhase' = "closing" /\ inFailed' = failed
  /\ UNCHANGED <<inQueue, inPending, inDb, inBusy, inFlush, inServer, inMade, inHost, inTyped, inEpoch>>

\* shutdown_inputs: what is held is released when there is a place; the graceful close
\* does not go through the queue.
shutdown_inputs ==
  /\ inPhase = "closing" /\ inPhase' = "closed"
  /\ LET held == [i \in 1..Cardinality(inDb.down) |->
                    [k |-> "button", b |-> SetToSeq(inDb.down)[i], down |-> FALSE, at |-> 0]] IN
     \/ try_send_with(held)
     \/ Len(inQueue) >= InCapacity /\ UNCHANGED <<inQueue, inDb>>
  /\ UNCHANGED <<inPending, inBusy, inFlush, inServer, inMade, inHost, inTyped, inEpoch, inFailed>>

\* The session ends while the loop runs: the next attempt to send fails.
InSessionEnds ==
  /\ inPhase = "running" /\ inPhase' = "closed" /\ inFailed' = TRUE
  /\ inQueue' = <<>> /\ inBusy' = <<>>
  /\ UNCHANGED <<inPending, inDb, inFlush, inServer, inMade, inHost, inTyped, inEpoch>>

(***************************************************************************)
(* The session (external) takes events in order and passes them on.        *)
(***************************************************************************)
ServerDoes(s, op) ==
  CASE op.k = "move" -> [s EXCEPT !.pos = op.pos, !.stale = @ \/ op.epoch # s.epoch]
    [] op.k = "button" -> [s EXCEPT !.down = IF op.down THEN @ \cup {op.b} ELSE @ \ {op.b},
                                    !.missed = @ \/ (op.at # 0 /\ op.at # s.pos)]
    [] op.k = "key" -> [s EXCEPT !.keys = Append(@, op.n)]
    [] op.k = "resize" -> [s EXCEPT !.epoch = op.epoch]

InSessionTakes ==
  /\ inQueue # <<>>
  /\ inServer' = FoldLeft(ServerDoes, inServer, Head(inQueue))
  /\ inQueue' = Tail(inQueue)
  /\ UNCHANGED <<inPending, inDb, inBusy, inFlush, inPhase, inMade, inHost, inTyped, inEpoch, inFailed>>

InInit ==
  /\ inQueue = <<>> /\ inPending = <<>> /\ inDb = [pos |-> 0, down |-> {}] /\ inBusy = <<>> /\ inFlush = FALSE
  /\ inPhase = "running" /\ inMade = 0 /\ inHost = 0 /\ inTyped = <<>> /\ inEpoch = 0 /\ inFailed = FALSE
  /\ inServer = [pos |-> 0, down |-> {}, keys |-> <<>>, epoch |-> 0, stale |-> FALSE, missed |-> FALSE]

InNext ==
  \/ \E p \in InPositions : send_mouse_move(p)
  \/ \E b \in InButtons, down \in BOOLEAN : send_pointer_operation(b, down)
  \/ send_operations \/ send_resize \/ send_reliably
  \/ \E failed \in BOOLEAN : InClose(failed)
  \/ shutdown_inputs \/ InSessionEnds \/ InSessionTakes

InFairness == WF_inVars(InSessionTakes) /\ WF_inVars(send_reliably)

InSpec == InInit /\ [][InNext]_inVars /\ InFairness

(***************************************************************************)
(* Properties.                                                             *)
(***************************************************************************)
InTypeOK ==
  /\ Len(inQueue) <= InCapacity /\ Len(inPending) <= 1
  /\ inDb.down \subseteq InButtons /\ inPhase \in {"running", "closing", "closed"}
  /\ inHost \in {0} \cup InPositions

Queued == FlattenSeq(inQueue)
Drained == FoldLeft(ServerDoes, inServer, Queued)

\* Every press, release and wheel turn reaches the server with the pointer where the host had
\* it, although moves are dropped while the queue is full; no move made on one desktop size
\* is replayed after the next.
ButtonsLandWhereMade == ~inServer.missed /\ ~inServer.stale

\* Nothing but moves is lost or reordered: once the queue is empty the server holds exactly
\* the buttons the database says are down and has the keys in the order they were typed,
\* through an orderly shutdown too.
NothingReliableIsLost ==
  ~(inPhase = "closed" /\ inFailed) =>
    /\ Drained.down = inDb.down
    /\ Drained.keys \o (IF inBusy # <<>> /\ inBusy[1].k = "key" THEN <<inBusy[1].n>> ELSE <<>>) = inTyped

\* The RDP input path: types, positions, order, releases.
RdpInputSafe == InTypeOK /\ ButtonsLandWhereMade /\ NothingReliableIsLost

\* Every request is finished as long as the session takes events.
EveryInputIsTaken == inBusy # <<>> ~> inBusy = <<>>
=============================================================================
