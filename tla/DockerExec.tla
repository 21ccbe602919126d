------------------------------ MODULE DockerExec ------------------------------
(***************************************************************************)
(* docker-provider exec / exec-bridge: one exec in a container with its    *)
(* streams bridged to the local stdio.  A thread reads stdin into a        *)
(* channel, the main loop selects over the remote output, that channel and *)
(* window changes, and the exit code is polled when the output has ended.  *)
(* The remote program and the buffers on the way to it are external: it    *)
(* echoes its input (cat) or stores it (cat > file), and may end early.    *)
(* Chunks of input are numbered, so that order and loss can be seen.       *)
(***************************************************************************)
EXTENDS Integers, Sequences

CONSTANTS
    ExPrograms,     \* subset of {"echo", "store"}
    ExChunks,       \* chunks on the local stdin before it ends
    ExChannel,      \* capacity of the stdin channel (16)
    ExPipe,         \* chunks the connection buffers in each direction
    ExPolls         \* attempts to read the exit code (50)

ASSUME ExAssumption ==
    /\ ExPrograms \subseteq {"echo", "store"}
    /\ ExChunks \in Nat
    /\ {ExChannel, ExPipe, ExPolls} \subseteq Nat \ {0}

VARIABLES
    exPc,           \* the main task: "start", "sized", "loop", "write", "code", "done"
    exHeld,         \* the chunk write_all is busy with
    exRead,         \* chunks the stdin thread has read
    exReader,       \* the stdin thread runs
    exChan,         \* the channel between them
    exShut,         \* stdin_closed
    exIn, exOut,    \* the connection, both directions
    exInEnd,        \* how the remote's input ended: "open", "eof", "lost"
    exProgram,      \* the remote program
    exTook, exGot,  \* chunks it consumed, and the one it holds
    exCode,         \* its exit code, -1 while it runs
    exFilled,       \* the daemon knows that code
    exStdout,       \* what was written to the local stdout
    exTries, exResult,
    exWindow        \* [local, remote, signal, watched, early]: terminal size, SIGWINCH

exVars == <<exPc, exHeld, exRead, exReader, exChan, exShut, exIn, exOut, exInEnd, exProgram,
            exTook, exGot, exCode, exFilled, exStdout, exTries, exResult, exWindow>>
exLocal == <<exPc, exHeld, exShut, exStdout, exTries, exResult>>
exStdin == <<exRead, exReader, exChan>>
exRemote == <<exProgram, exTook, exGot, exCode, exFilled>>

ExTypeOK ==
    /\ exPc \in {"start", "sized", "loop", "write", "code", "done"}
    /\ exRead \in 0..ExChunks /\ Len(exChan) <= ExChannel
    /\ Len(exIn) <= ExPipe /\ Len(exOut) <= ExPipe
    /\ exInEnd \in {"open", "eof", "lost"}
    /\ exTries \in 0..ExPolls

ExInit ==
    /\ exPc = "start" /\ exHeld = <<>>
    /\ exRead = 0 /\ exReader = FALSE /\ exChan = <<>> /\ exShut = FALSE
    /\ exIn = <<>> /\ exOut = <<>> /\ exInEnd = "open"
    /\ exProgram \in ExPrograms /\ exTook = 0 /\ exGot = <<>> /\ exCode = -1 /\ exFilled = FALSE
    /\ exStdout = <<>> /\ exTries = 0 /\ exResult = -1
    /\ exWindow = [local |-> 1, remote |-> 0, signal |-> FALSE, watched |-> FALSE, early |-> FALSE]
-------------------------------------------------------------------------------
ExReturn(code) == exPc' = "done" /\ exResult' = code

\* connect, create_exec, start_exec and the first resize; any of the calls may fail.
ExStart ==
    /\ exPc = "start"
    /\ \/ /\ exPc' = "sized"
          /\ exWindow' = [exWindow EXCEPT !.remote = exWindow.local]
          /\ UNCHANGED exResult
       \/ ExReturn(1) /\ UNCHANGED exWindow
    /\ UNCHANGED <<exHeld, exShut, exStdout, exTries, exStdin, exIn, exOut, exInEnd, exRemote>>

\* The stdin thread is spawned and the watcher registered.
ExWatch ==
    /\ exPc = "sized"
    /\ exPc' = "loop" /\ exReader' = TRUE
    /\ exWindow' = [exWindow EXCEPT !.watched = TRUE]
    /\ UNCHANGED <<exHeld, exShut, exStdout, exTries, exResult, exRead, exChan, exIn, exOut, exInEnd,
                   exRemote>>

\* The stdin thread: read, blocking_send; it ends at EOF or when the receiver is gone.
ExReadChunk ==
    /\ exReader /\ exRead < ExChunks
    /\ \/ /\ exPc # "done" /\ Len(exChan) < ExChannel
          /\ exRead' = exRead + 1
          /\ exChan' = Append(exChan, exRead + 1)
          /\ UNCHANGED exReader
       \/ /\ exPc = "done"
          /\ exReader' = FALSE
          /\ UNCHANGED <<exRead, exChan>>
    /\ UNCHANGED <<exLocal, exIn, exOut, exInEnd, exRemote, exWindow>>

ExReadEof ==
    /\ exReader /\ exRead = ExChunks
    /\ exReader' = FALSE
    /\ UNCHANGED <<exRead, exChan, exLocal, exIn, exOut, exInEnd, exRemote, exWindow>>

\* output.next(): a chunk is written out; a broken stream or stdout ends the exec.
ExOutput ==
    /\ exPc = "loop" /\ exOut # <<>>
    /\ exOut' = Tail(exOut)
    /\ \/ exStdout' = Append(exStdout, Head(exOut)) /\ UNCHANGED <<exPc, exResult>>
       \/ ExReturn(1) /\ UNCHANGED exStdout
    /\ UNCHANGED <<exHeld, exShut, exTries, exStdin, exIn, exInEnd, exRemote, exWindow>>

ExOutputEnds ==
    /\ exPc = "loop" /\ exOut = <<>> /\ exCode >= 0 /\ exGot = <<>>
    /\ exPc' = "code"
    /\ UNCHANGED <<exHeld, exShut, exStdout, exTries, exResult, exStdin, exIn, exOut, exInEnd,
                   exRemote, exWindow>>

\* stdin_rx.recv(): a chunk to forward, or None once the thread has ended, which
\* shuts the remote's input down.
ExInput ==
    /\ exPc = "loop" /\ ~exShut
    /\ \/ /\ exChan # <<>>
          /\ exHeld' = <<Head(exChan)>> /\ exChan' = Tail(exChan) /\ exPc' = "write"
          /\ UNCHANGED <<exShut, exInEnd>>
       \/ /\ exChan = <<>> /\ ~exReader
          /\ exInEnd' = IF exInEnd = "open" THEN "eof" ELSE exInEnd
          /\ exShut' = TRUE
          /\ UNCHANGED <<exPc, exHeld, exChan>>
    /\ UNCHANGED <<exStdout, exTries, exResult, exRead, exReader, exIn, exOut, exRemote, exWindow>>

\* write_all is awaited inside the branch: no other branch is polled meanwhile.
ExWrite ==
    /\ exPc = "write"
    /\ \/ /\ exInEnd = "open" /\ Len(exIn) < ExPipe
          /\ exIn' = exIn \o exHeld
          /\ UNCHANGED exShut
       \/ /\ exInEnd = "lost"
          /\ exShut' = TRUE
          /\ UNCHANGED exIn
    /\ exHeld' = <<>> /\ exPc' = "loop"
    /\ UNCHANGED <<exStdout, exTries, exResult, exStdin, exOut, exInEnd, exRemote, exWindow>>

\* next_resize: the signal is consumed, then the size is read.
ExResize ==
    /\ exPc = "loop" /\ exWindow.signal
    /\ exWindow' = [exWindow EXCEPT !.signal = FALSE, !.remote = exWindow.local, !.early = FALSE]
    /\ UNCHANGED <<exLocal, exStdin, exIn, exOut, exInEnd, exRemote>>

\* exit_code: ExPolls inspections, then 0.
ExExitCode ==
    /\ exPc = "code"
    /\ \/ exFilled /\ ExReturn(exCode) /\ UNCHANGED exTries
       \/ /\ exTries < ExPolls           \* not filled in yet, or inspect_exec failed
          /\ exTries' = exTries + 1
          /\ UNCHANGED <<exPc, exResult>>
       \/ /\ exTries = ExPolls
          /\ ExReturn(0)
          /\ UNCHANGED exTries
    /\ UNCHANGED <<exHeld, exShut, exStdout, exStdin, exIn, exOut, exInEnd, exRemote, exWindow>>
-------------------------------------------------------------------------------
(* External: the remote program, the daemon and the user's window *)

ExRemoteTakes ==
    /\ exPc \notin {"start", "sized"} /\ exCode < 0 /\ exIn # <<>> /\ exGot = <<>>
    /\ exIn' = Tail(exIn) /\ exTook' = exTook + 1
    /\ exGot' = IF exProgram = "echo" THEN <<Head(exIn)>> ELSE <<>>
    /\ UNCHANGED <<exLocal, exStdin, exOut, exInEnd, exProgram, exCode, exFilled, exWindow>>

ExRemoteGives ==
    /\ exGot # <<>> /\ Len(exOut) < ExPipe
    /\ exOut' = exOut \o exGot /\ exGot' = <<>>
    /\ UNCHANGED <<exLocal, exStdin, exIn, exInEnd, exProgram, exTook, exCode, exFilled, exWindow>>

ExRemoteEnds ==
    /\ exPc \notin {"start", "sized"} /\ exCode < 0 /\ exGot = <<>>
    /\ exInEnd = "eof" /\ exIn = <<>>
    /\ exCode' = 0
    /\ UNCHANGED <<exLocal, exStdin, exIn, exOut, exInEnd, exProgram, exTook, exGot, exFilled, exWindow>>

ExRemoteFails ==
    /\ exPc \notin {"start", "sized"} /\ exCode < 0 /\ exGot = <<>>
    /\ exCode' = 2 /\ exInEnd' = "lost"
    /\ UNCHANGED <<exLocal, exStdin, exIn, exOut, exProgram, exTook, exGot, exFilled, exWindow>>

ExDaemonFills ==
    /\ exCode >= 0 /\ ~exFilled
    /\ exFilled' = TRUE
    /\ UNCHANGED <<exLocal, exStdin, exIn, exOut, exInEnd, exProgram, exTook, exGot, exCode, exWindow>>

\* A size change is signalled only to a watcher that exists.
ExWindowChanges ==
    /\ exPc # "done"
    /\ exWindow' = [exWindow EXCEPT !.local = 3 - @, !.signal = exWindow.watched,
                                      !.early = exPc = "sized" \/ @]
    /\ UNCHANGED <<exLocal, exStdin, exIn, exOut, exInEnd, exRemote>>

ExLoop == ExStart \/ ExWatch \/ ExOutput \/ ExOutputEnds \/ ExInput \/ ExWrite \/ ExResize \/ ExExitCode
ExThread == ExReadChunk \/ ExReadEof
ExProgram == ExRemoteTakes \/ ExRemoteGives \/ ExRemoteEnds
ExNext == ExLoop \/ ExThread \/ ExProgram \/ ExRemoteFails \/ ExDaemonFills \/ ExWindowChanges

ExFairness ==
    /\ WF_exVars(ExOutput \/ ExOutputEnds \/ ExInput \/ ExWrite)
    /\ WF_exVars(ExStart \/ ExWatch) /\ WF_exVars(ExExitCode) /\ SF_exVars(ExResize)
    /\ WF_exVars(ExThread) /\ WF_exVars(ExProgram)
ExSpec == ExInit /\ [][ExNext]_exVars /\ ExFairness
-------------------------------------------------------------------------------
(* Properties *)

(* What is on stdout is what the program received, in order, without a gap: *)
(* thread, channel, connection and loop neither lose nor reorder chunks.    *)
ExStreamInOrder ==
    /\ exStdout = [i \in DOMAIN exStdout |-> i]
    /\ LET flow == exStdout \o exOut \o exGot
       IN  exProgram = "echo" /\ exPc # "done" => flow = [i \in 1..exTook |-> i]
    /\ exInEnd # "lost" /\ exPc # "done" =>
          exIn \o exHeld \o exChan = [i \in 1..(exRead - exTook) |-> exTook + i]

(* The program sees the end of its input only when every chunk was sent.    *)
ExEofAfterInput ==
    exInEnd = "eof" => exRead = ExChunks /\ exChan = <<>> /\ exHeld = <<>>

(* The exit code of the local process is the program's, unless the daemon   *)
(* did not fill it in within ExPolls attempts or the bridge itself failed;  *)
(* then nothing but 0 or 1 is returned.                                     *)
ExExitCodeTrue ==
    exPc = "done" => \/ exResult = exCode /\ exFilled
                     \/ exResult = 0 /\ exTries = ExPolls
                     \/ exResult = 1

(* A window change the remote does not know of is still signalled.  The one *)
(* exception is a change between the first resize and the registration of   *)
(* the watcher: it stays unknown until the window changes again.            *)
ExNoLostResize ==
    exWindow.watched /\ exPc # "done" /\ exWindow.remote # exWindow.local =>
        exWindow.signal \/ exWindow.early

\* The write waits for the program, and the program for its output to be read, which only
\* the loop does, after the write.
ExJammed == exPc = "write" /\ Len(exIn) = ExPipe /\ exGot # <<>> /\ Len(exOut) = ExPipe

(* The bridge ends: stdin has an end, both programs end with their input.   *)
(* The exception is a program whose output is no longer read because a      *)
(* write to it is awaited inside the loop, when both directions are full.   *)
ExReturns == <>(exPc = "done" \/ []ExJammed)
===============================================================================
