---------------------------- MODULE RdpClipboard ----------------------------
(***************************************************************************)
(* Files and text copied on the RDP server and pulled into the helper      *)
(* (rdp-helper/src/clipboard/{backend,backend_remote,controller,remote,    *)
(* staging}.rs).                                                           *)
(*                                                                         *)
(* Two threads share TextClipboardState behind one mutex: the session      *)
(* thread runs the clipboard callbacks one after the other, the main       *)
(* thread runs cancel_transfer and shutdown.  Every action is one critical *)
(* section; ccStep holds what the session thread carries from the section  *)
(* it has left into the next one.  Both directions of the channel are FIFO *)
(* and the server answers from the clipboard it has when it reads the      *)
(* request, or from the snapshot the request's lock names.                 *)
(*                                                                         *)
(* A byte of a remote file is <<generation, file, position>>, so that a    *)
(* staged file tells where each of its bytes came from.                    *)
(***************************************************************************)
EXTENDS Naturals, Sequences, FiniteSets, SequencesExt

CONSTANTS
  CcGens,        \* how many times the server's clipboard changes
  CcLists,       \* the file lists that may be copied: sequences of [size, advertised]
  CcChunk,       \* REMOTE_FILE_CHUNK_BYTES
  CcMaxFile,     \* MAX_SINGLE_FILE_BYTES
  CcMaxTotal,    \* MAX_TOTAL_TRANSFER_BYTES
  CcMask,        \* LOCAL_CLIPBOARD_TRANSFER_MASK
  CcFaults       \* how many answers of the server are not honest, and reconnections

ASSUME CcAssumption ==
  /\ CcGens \in Nat \ {0} /\ CcChunk \in Nat \ {0}
  /\ \A list \in CcLists : \A f \in DOMAIN list : list[f].size \in Nat
  /\ CcMaxFile \in Nat /\ CcMaxTotal \in Nat
  /\ CcMask \in Nat \ {0} /\ CcFaults \in Nat

VARIABLES
  ccClips,      \* the server's clipboard, one entry per generation
  ccLocks,      \* lock id -> generation of its snapshot
  ccUp, ccDown, \* messages to and from the server
  ccOpen,       \* the clipboard channel is open
  ccPending,    \* pending_remote (0: None)
  ccTransfer,   \* remote_transfer
  ccWaiting,    \* waiting_remote_text
  ccSequence,   \* next_remote_sequence
  ccStream,     \* next_stream_id
  ccRecent,     \* a file transfer became ready less than 3 s ago
  ccStep,       \* what the session thread is in the middle of
  ccDirs,       \* staging directories: id -> [retained, files]
  ccEvents,     \* events sent to the host
  ccCancelled,  \* transfers whose cancel_transfer returned true
  ccMuted,      \* generations whose text announcement was ignored
  ccFaulty      \* dishonest answers and reconnections so far

ccVars == <<ccClips, ccLocks, ccUp, ccDown, ccOpen, ccPending, ccTransfer, ccWaiting,
            ccSequence, ccStream, ccRecent, ccStep, ccDirs, ccEvents, ccCancelled,
            ccMuted, ccFaulty>>

CcNothing == 0
CcIdle == [at |-> "idle"]
NoTransfer == [id |-> CcNothing]
NoLock == 0
CcGen == Len(ccClips)

(***************************************************************************)
(* TextClipboardState.                                                     *)
(***************************************************************************)
TextClipboardState_new ==
  /\ ccPending = CcNothing /\ ccTransfer = NoTransfer /\ ccWaiting = FALSE
  /\ ccSequence = 1 /\ ccStream = 1 /\ ccRecent = FALSE

reserve_remote_transfer ==
  /\ ccPending' = ccSequence
  /\ ccSequence' = LET next == (ccSequence + 1) % (CcMask + 1) IN IF next = 0 THEN 1 ELSE next

allocate_stream_id == ccStream' = ccStream + 1

\* A staging directory that is not retained goes when its transfer is dropped.
Dropped(dirs, id) ==
  [d \in {x \in DOMAIN dirs : x # id \/ dirs[x].retained} |-> dirs[d]]

\* TransferDirectory::create, then one directory per directory entry.
TransferDirectory_create(id, count) ==
  ccDirs' = [d \in DOMAIN ccDirs \cup {id} |->
               IF d = id THEN [retained |-> FALSE, files |-> [f \in 1..count |-> <<>>]]
               ELSE ccDirs[d]]

CcEmit(event) == ccEvents' = Append(ccEvents, event)
CcAsk(message) == ccUp' = Append(ccUp, message)

(***************************************************************************)
(* RemoteClipboardTransfer: one request is outstanding at a time, first    *)
(* the size of a file, then its ranges.                                    *)
(***************************************************************************)
RemoteClipboardTransfer_create(id, gen, lock) ==
  [id |-> id, lock |-> lock, files |-> ccClips[gen].files, file |-> 1, expected |-> 0,
   offset |-> 0, accounted |-> 0, asked |-> [stream |-> 0, kind |-> "none", amount |-> 0]]

Request(t, stream, kind, amount) == [t EXCEPT !.asked = [stream |-> stream, kind |-> kind, amount |-> amount]]
request_size(t, stream) == Request(t, stream, "size", 0)
request_range(t, stream) ==
  LET remaining == t.expected - t.offset IN
  Request(t, stream, "range", IF remaining < CcChunk THEN remaining ELSE CcChunk)

WireRequest(t) ==
  [k |-> "contents", stream |-> t.asked.stream, kind |-> t.asked.kind, file |-> t.file,
   position |-> t.offset, amount |-> t.asked.amount, lock |-> t.lock]

CcOutcome(result, t) == [result |-> result, t |-> t]

\* start(): nothing to fetch when every entry is a directory.
start(t, stream) ==
  IF Len(t.files) = 0 THEN CcOutcome("ready", t) ELSE CcOutcome("request", request_size(t, stream))

account_size(t, size) ==
  /\ size <= CcMaxFile
  /\ t.accounted + size <= CcMaxTotal

finish_file(t, stream) ==
  LET next == [t EXCEPT !.file = @ + 1, !.expected = 0, !.offset = 0] IN
  IF next.file > Len(t.files) THEN CcOutcome("ready", next)
  ELSE CcOutcome("request", request_size(next, stream))

accept_size(t, response, stream) ==
  LET advertised == t.files[t.file].advertised
      sized == [t EXCEPT !.accounted = @ + response.size, !.expected = response.size, !.offset = 0] IN
  IF \/ advertised \notin {{}, {response.size}}
     \/ ~account_size(t, response.size) THEN CcOutcome("error", t)
  ELSE IF response.size = 0 THEN finish_file(sized, stream)
  ELSE CcOutcome("request", request_range(sized, stream))

accept_range(t, response, requested, stream) ==
  LET next == [t EXCEPT !.offset = @ + Len(response.data)] IN
  IF \/ Len(response.data) = 0
     \/ Len(response.data) > requested
     \/ next.offset > t.expected THEN CcOutcome("error", t)
  ELSE IF next.offset = t.expected THEN finish_file(next, stream)
  ELSE CcOutcome("request", request_range(next, stream))

\* advance(): an answer to another stream is ignored.  A size answer that does not
\* have eight bytes is an error, so kinds that do not fit are errors both ways.
advance(t, response, stream) ==
  LET asked == t.asked.kind
      answered == [t EXCEPT !.asked = [stream |-> 0, kind |-> "none", amount |-> 0]] IN
  IF asked = "none" \/ t.asked.stream # response.stream THEN CcOutcome("ignore", t)
  ELSE IF response.error \/ response.kind # asked THEN CcOutcome("error", answered)
  ELSE IF asked = "size" THEN accept_size(answered, response, stream)
  ELSE accept_range(answered, response, t.asked.amount, stream)

(***************************************************************************)
(* The callbacks on the session thread.                                    *)
(***************************************************************************)
CcHead(k) == ccDown # <<>> /\ Head(ccDown).k = k /\ ccStep = CcIdle /\ ccDown' = Tail(ccDown)

\* build_cliprdr_backend: a new connection starts from a clean state; the sequence,
\* the streams and the time of the last transfer go on.  The server announces what it has.
build_cliprdr_backend ==
  /\ ccStep = CcIdle /\ ccOpen
  /\ ccFaulty < CcFaults /\ ccFaulty' = ccFaulty + 1
  /\ ccPending' = CcNothing /\ ccTransfer' = NoTransfer /\ ccWaiting' = FALSE
  /\ ccDirs' = Dropped(ccDirs, ccTransfer.id)
  /\ ccUp' = <<>> /\ ccLocks' = <<>>
  /\ ccDown' = <<[k |-> "formats", gen |-> CcGen, kind |-> ccClips[CcGen].kind]>>
  /\ UNCHANGED <<ccClips, ccOpen, ccSequence, ccStream, ccRecent, ccStep, ccEvents,
                 ccCancelled, ccMuted>>

\* begin_remote_copy with a file list: first the section that reserves the transfer ...
begin_remote_copy ==
  /\ CcHead("formats") /\ Head(ccDown).kind = "files"
  /\ reserve_remote_transfer
  /\ ccTransfer' = NoTransfer /\ ccDirs' = Dropped(ccDirs, ccTransfer.id)
  /\ ccWaiting' = FALSE
  /\ ccStep' = [at |-> "paste", id |-> ccPending']
  /\ UNCHANGED <<ccClips, ccLocks, ccUp, ccOpen, ccStream, ccRecent, ccEvents,
                 ccCancelled, ccMuted, ccFaulty>>

\* ... then, unlocked, the request for the list, or the failure.
SendInitiatePaste ==
  /\ ccStep.at = "paste" /\ ccStep' = CcIdle
  /\ IF ccOpen THEN CcAsk([k |-> "paste", kind |-> "files"]) /\ UNCHANGED <<ccPending, ccEvents>>
     ELSE /\ ccPending' = IF ccPending = ccStep.id THEN CcNothing ELSE ccPending
          /\ CcEmit([k |-> "failed", id |-> ccStep.id, why |-> "closed"])
          /\ UNCHANGED ccUp
  /\ UNCHANGED <<ccClips, ccLocks, ccDown, ccOpen, ccTransfer, ccWaiting, ccSequence,
                 ccStream, ccRecent, ccDirs, ccCancelled, ccMuted, ccFaulty>>

\* begin_remote_text: text announced shortly after a file transfer is not pulled.
begin_remote_text ==
  /\ CcHead("formats") /\ Head(ccDown).kind # "files"
  /\ LET unicode == Head(ccDown).kind = "text" IN
     IF unicode /\ ccRecent THEN
       /\ ccMuted' = ccMuted \cup {Head(ccDown).gen}
       /\ UNCHANGED <<ccUp, ccPending, ccTransfer, ccWaiting, ccDirs>>
     ELSE
       /\ ccPending' = CcNothing /\ ccTransfer' = NoTransfer
       /\ ccDirs' = Dropped(ccDirs, ccTransfer.id)
       /\ ccWaiting' = unicode
       /\ IF unicode /\ ccOpen THEN CcAsk([k |-> "paste", kind |-> "text"]) ELSE UNCHANGED ccUp
       /\ UNCHANGED ccMuted
  /\ UNCHANGED <<ccClips, ccLocks, ccOpen, ccSequence, ccStream, ccRecent, ccStep, ccEvents,
                 ccCancelled, ccFaulty>>

\* REMOTE_TEXT_AFTER_FILES_SUPPRESS has elapsed.
CcSuppressionEnds ==
  /\ ccRecent /\ ccRecent' = FALSE
  /\ UNCHANGED <<ccClips, ccLocks, ccUp, ccDown, ccOpen, ccPending, ccTransfer, ccWaiting,
                 ccSequence, ccStream, ccStep, ccDirs, ccEvents, ccCancelled, ccMuted, ccFaulty>>

on_format_data_response ==
  /\ CcHead("text")
  /\ ccWaiting' = FALSE
  /\ IF ccWaiting /\ ~Head(ccDown).error THEN CcEmit([k |-> "text", gen |-> Head(ccDown).gen])
     ELSE UNCHANGED ccEvents
  /\ UNCHANGED <<ccClips, ccLocks, ccUp, ccOpen, ccPending, ccTransfer, ccSequence,
                 ccStream, ccRecent, ccStep, ccDirs, ccCancelled, ccMuted, ccFaulty>>

\* receive_remote_files: pending_remote is read under the lock, the list is validated and
\* staged without it.  Staging may fail (the disk).
receive_remote_files ==
  /\ CcHead("list")
  /\ IF ccPending = CcNothing THEN UNCHANGED <<ccStep, ccDirs>>
     ELSE \E ok \in BOOLEAN :
       LET staged == ok /\ ccClips[Head(ccDown).gen].valid IN
       /\ ccStep' = [at |-> "install", id |-> ccPending, staged |-> staged,
                     gen |-> Head(ccDown).gen, lock |-> Head(ccDown).lock]
       /\ IF staged THEN TransferDirectory_create(ccPending, Len(ccClips[Head(ccDown).gen].files))
          ELSE UNCHANGED ccDirs
  /\ UNCHANGED <<ccClips, ccLocks, ccUp, ccOpen, ccPending, ccTransfer, ccWaiting, ccSequence,
                 ccStream, ccRecent, ccEvents, ccCancelled, ccMuted, ccFaulty>>

\* What is left to do once the lock is released.
ToDispatch(id, out) ==
  [at |-> "dispatch", id |-> id, result |-> out.result,
   request |-> IF out.result = "request" THEN WireRequest(out.t) ELSE [k |-> "none"]]

\* complete(): the directory is retained.
complete(dirs, id) == [dirs EXCEPT ![id].retained = TRUE]

\* Fault: the transfer is installed without looking at pending_remote again.
install_remote_transfer_unchecked ==
  /\ ccStep.at = "install"
  /\ IF ~ccStep.staged THEN
       /\ ccPending' = CcNothing
       /\ ccStep' = ToDispatch(ccStep.id, CcOutcome("error", NoTransfer))
       /\ UNCHANGED <<ccTransfer, ccStream, ccDirs>>
     ELSE
       LET out == start(RemoteClipboardTransfer_create(ccStep.id, ccStep.gen, ccStep.lock), ccStream) IN
       /\ ccPending' = CcNothing /\ allocate_stream_id
       /\ ccTransfer' = IF out.result = "request" THEN out.t ELSE ccTransfer
       /\ ccDirs' = IF out.result = "ready" THEN complete(ccDirs, ccStep.id) ELSE ccDirs
       /\ ccStep' = ToDispatch(ccStep.id, out)
  /\ UNCHANGED <<ccClips, ccLocks, ccUp, ccDown, ccOpen, ccWaiting, ccSequence, ccRecent,
                 ccEvents, ccCancelled, ccMuted, ccFaulty>>

\* install_remote_transfer: superseded or cancelled meanwhile, the directory goes again.
install_remote_transfer ==
  /\ ccStep.at = "install"
  /\ IF ccPending # ccStep.id THEN
       /\ ccStep' = CcIdle /\ ccDirs' = Dropped(ccDirs, ccStep.id)
       /\ UNCHANGED <<ccPending, ccTransfer, ccStream>>
     ELSE IF ~ccStep.staged THEN
       /\ ccPending' = CcNothing
       /\ ccStep' = ToDispatch(ccStep.id, CcOutcome("error", NoTransfer))
       /\ UNCHANGED <<ccTransfer, ccStream, ccDirs>>
     ELSE
       LET out == start(RemoteClipboardTransfer_create(ccStep.id, ccStep.gen, ccStep.lock), ccStream) IN
       /\ ccPending' = CcNothing /\ allocate_stream_id
       /\ ccTransfer' = IF out.result = "request" THEN out.t ELSE ccTransfer
       /\ ccDirs' = IF out.result = "ready" THEN complete(ccDirs, ccStep.id) ELSE ccDirs
       /\ ccStep' = ToDispatch(ccStep.id, out)
  /\ UNCHANGED <<ccClips, ccLocks, ccUp, ccDown, ccOpen, ccWaiting, ccSequence, ccRecent,
                 ccEvents, ccCancelled, ccMuted, ccFaulty>>

\* The bytes of an accepted range are appended to the staged file.
Written(dirs, t, response) ==
  [dirs EXCEPT ![t.id].files[t.file] = @ \o response.data]

\* advance_remote_transfer: the transfer is taken out of the state and put back while it
\* goes on.  The directory of a failed one is removed once the failure is reported.
advance_remote_transfer ==
  /\ CcHead("contents")
  /\ IF ccTransfer = NoTransfer THEN UNCHANGED <<ccTransfer, ccStream, ccStep, ccDirs, ccRecent>>
     ELSE \E diskFails \in BOOLEAN :
       LET response == Head(ccDown)
           tried == advance(ccTransfer, response, ccStream)
           out == IF diskFails /\ tried.result \in {"request", "ready"}
                  THEN CcOutcome("error", ccTransfer) ELSE tried
           kept == out.result \in {"request", "ignore"}
           written == IF out.result \in {"request", "ready"} /\ response.kind = "range"
                      THEN Written(ccDirs, ccTransfer, response) ELSE ccDirs IN
       /\ allocate_stream_id
       /\ ccTransfer' = IF kept THEN out.t ELSE NoTransfer
       /\ ccDirs' = IF out.result = "ready" THEN complete(written, ccTransfer.id) ELSE written
       /\ ccRecent' = (ccRecent \/ out.result = "ready")
       /\ ccStep' = IF out.result = "ignore" THEN CcIdle
                    ELSE ToDispatch(ccTransfer.id, out)
  /\ UNCHANGED <<ccClips, ccLocks, ccUp, ccOpen, ccPending, ccWaiting, ccSequence, ccEvents,
                 ccCancelled, ccMuted, ccFaulty>>

\* dispatch_remote_result, unlocked.  The request to send was made under the lock: it is
\* sent even when the transfer has been cancelled since.
dispatch_remote_result ==
  /\ ccStep.at = "dispatch" /\ ccStep' = CcIdle
  /\ CASE ccStep.result = "request" /\ ccOpen ->
            CcAsk(ccStep.request) /\ UNCHANGED <<ccTransfer, ccEvents, ccDirs>>
       [] ccStep.result = "request" /\ ~ccOpen ->
            /\ ccTransfer' = IF ccTransfer.id = ccStep.id THEN NoTransfer ELSE ccTransfer
            /\ ccDirs' = Dropped(ccDirs, ccStep.id)
            /\ CcEmit([k |-> "failed", id |-> ccStep.id, why |-> "closed"])
            /\ UNCHANGED ccUp
       [] ccStep.result = "ready" ->
            CcEmit([k |-> "ready", id |-> ccStep.id]) /\ UNCHANGED <<ccUp, ccTransfer, ccDirs>>
       [] ccStep.result = "error" ->
            /\ CcEmit([k |-> "failed", id |-> ccStep.id, why |-> "error"])
            /\ ccDirs' = Dropped(ccDirs, ccStep.id)
            /\ UNCHANGED <<ccUp, ccTransfer>>
  /\ UNCHANGED <<ccClips, ccLocks, ccDown, ccOpen, ccPending, ccWaiting, ccSequence, ccStream,
                 ccRecent, ccCancelled, ccMuted, ccFaulty>>

\* cancel_remote_locks: the library says that the snapshot the transfer reads from has
\* expired; other locks concern no transfer.
cancel_remote_locks ==
  /\ ccStep = CcIdle /\ ccTransfer # NoTransfer /\ ccTransfer.lock # NoLock
  /\ ccTransfer' = NoTransfer /\ ccDirs' = Dropped(ccDirs, ccTransfer.id)
  /\ CcEmit([k |-> "failed", id |-> ccTransfer.id, why |-> "expired"])
  /\ UNCHANGED <<ccClips, ccLocks, ccUp, ccDown, ccOpen, ccPending, ccWaiting, ccSequence,
                 ccStream, ccRecent, ccStep, ccCancelled, ccMuted, ccFaulty>>

(***************************************************************************)
(* The main thread.                                                        *)
(***************************************************************************)
cancel_transfer(id) ==
  /\ id \in {ccPending, ccTransfer.id} \ {CcNothing}
  /\ ccPending' = IF ccPending = id THEN CcNothing ELSE ccPending
  /\ ccTransfer' = IF ccTransfer.id = id THEN NoTransfer ELSE ccTransfer
  /\ ccDirs' = IF ccTransfer.id = id THEN Dropped(ccDirs, id) ELSE ccDirs
  /\ ccCancelled' = ccCancelled \cup {id}
  /\ UNCHANGED <<ccClips, ccLocks, ccUp, ccDown, ccOpen, ccWaiting, ccSequence, ccStream,
                 ccRecent, ccStep, ccEvents, ccMuted, ccFaulty>>

\* TextClipboardController::shutdown, with the channel closing around it.
CcShutdown ==
  /\ ccOpen /\ ccOpen' = FALSE
  /\ ccPending' = CcNothing /\ ccTransfer' = NoTransfer /\ ccWaiting' = FALSE
  /\ ccDirs' = Dropped(ccDirs, ccTransfer.id)
  /\ ccCancelled' = ccCancelled \cup ({ccPending, ccTransfer.id} \ {CcNothing})
  /\ UNCHANGED <<ccClips, ccLocks, ccUp, ccDown, ccSequence, ccStream, ccRecent, ccStep,
                 ccEvents, ccMuted, ccFaulty>>

\* The session ends by itself: what is still sent fails.
CcChannelCloses ==
  /\ ccOpen /\ ccOpen' = FALSE
  /\ UNCHANGED <<ccClips, ccLocks, ccUp, ccDown, ccPending, ccTransfer, ccWaiting, ccSequence,
                 ccStream, ccRecent, ccStep, ccDirs, ccEvents, ccCancelled, ccMuted, ccFaulty>>

(***************************************************************************)
(* The server and the clipboard channel's library (external).              *)
(***************************************************************************)
CcClipsOf == {[kind |-> k, files |-> <<>>, valid |-> TRUE] : k \in {"text", "other"}}
  \cup {[kind |-> "files", files |-> fs, valid |-> v] : fs \in CcLists, v \in BOOLEAN}

\* The server's user copies something: the new formats are announced.
ServerCopies ==
  /\ CcGen < CcGens
  /\ \E clip \in CcClipsOf :
       /\ ccClips' = Append(ccClips, clip)
       /\ ccDown' = Append(ccDown, [k |-> "formats", gen |-> CcGen + 1, kind |-> clip.kind])
  /\ UNCHANGED <<ccLocks, ccUp, ccOpen, ccPending, ccTransfer, ccWaiting, ccSequence, ccStream,
                 ccRecent, ccStep, ccDirs, ccEvents, ccCancelled, ccMuted, ccFaulty>>

\* What the server answers a contents request with: from the lock's snapshot or the
\* clipboard it has now.
Contents(message) ==
  LET gen == IF message.lock = NoLock THEN CcGen ELSE ccLocks[message.lock]
      files == ccClips[gen].files
      known == ccClips[gen].kind = "files" /\ message.file <= Len(files) IN
  IF ~known THEN {[k |-> "contents", stream |-> message.stream, kind |-> message.kind, error |-> TRUE]}
  ELSE IF message.kind = "size" THEN
    {[k |-> "contents", stream |-> message.stream, kind |-> "size", error |-> FALSE,
      size |-> files[message.file].size]}
  ELSE LET rest == files[message.file].size - message.position IN
    {[k |-> "contents", stream |-> message.stream, kind |-> "range", error |-> FALSE,
      data |-> [i \in 1..n |-> <<gen, message.file, message.position + i>>]] :
       n \in IF rest > 0 THEN 1..(IF rest < message.amount THEN rest ELSE message.amount) ELSE {0}}

\* Failures, and ranges that are empty or longer than asked for.
Dishonest(message) ==
  {[k |-> "contents", stream |-> message.stream, kind |-> message.kind, error |-> TRUE]}
  \cup (IF message.kind = "size" THEN {}
        ELSE {[k |-> "contents", stream |-> message.stream, kind |-> "range", error |-> FALSE,
               data |-> [i \in 1..n |-> <<0, 0, i>>]] : n \in {0, message.amount + 1}})

ServerAnswers ==
  /\ ccUp # <<>> /\ ccUp' = Tail(ccUp)
  /\ LET message == Head(ccUp) IN
     CASE message.k = "contents" ->
            /\ \/ ccFaulty' = ccFaulty /\ \E answer \in Contents(message) : ccDown' = Append(ccDown, answer)
               \/ /\ ccFaulty < CcFaults /\ ccFaulty' = ccFaulty + 1
                  /\ \E answer \in Dishonest(message) : ccDown' = Append(ccDown, answer)
            /\ UNCHANGED ccLocks
       [] message.k = "paste" /\ message.kind = "text" ->
            /\ ccDown' = Append(ccDown, [k |-> "text", gen |-> CcGen, error |-> ccClips[CcGen].kind # "text"])
            /\ UNCHANGED <<ccLocks, ccFaulty>>
       [] message.k = "paste" /\ message.kind = "files" ->
            /\ UNCHANGED ccFaulty
            /\ IF ccClips[CcGen].kind # "files" THEN UNCHANGED <<ccDown, ccLocks>>
               ELSE \E locking \in BOOLEAN :
                 LET lock == IF locking THEN Len(ccLocks) + 1 ELSE NoLock IN
                 /\ ccDown' = Append(ccDown, [k |-> "list", gen |-> CcGen, lock |-> lock])
                 /\ ccLocks' = IF locking THEN Append(ccLocks, CcGen) ELSE ccLocks
  /\ UNCHANGED <<ccClips, ccOpen, ccPending, ccTransfer, ccWaiting, ccSequence, ccStream,
                 ccRecent, ccStep, ccDirs, ccEvents, ccCancelled, ccMuted>>

CcInit ==
  /\ ccClips = <<[kind |-> "other", files |-> <<>>, valid |-> TRUE]>>
  /\ ccLocks = <<>> /\ ccUp = <<>> /\ ccDown = <<>> /\ ccOpen = TRUE
  /\ TextClipboardState_new
  /\ ccStep = CcIdle /\ ccDirs = <<>> /\ ccEvents = <<>> /\ ccCancelled = {} /\ ccMuted = {}
  /\ ccFaulty = 0

CcNext ==
  \/ begin_remote_copy \/ SendInitiatePaste \/ begin_remote_text \/ CcSuppressionEnds
  \/ on_format_data_response \/ receive_remote_files \/ install_remote_transfer
  \/ advance_remote_transfer \/ dispatch_remote_result \/ cancel_remote_locks \/ build_cliprdr_backend
  \/ \E id \in 1..CcMask : cancel_transfer(id)
  \/ CcShutdown \/ CcChannelCloses
  \/ ServerCopies \/ ServerAnswers

CcSpec == CcInit /\ [][CcNext]_ccVars

(***************************************************************************)
(* Properties.                                                             *)
(***************************************************************************)
CcTypeOK ==
  /\ ccPending \in 0..CcMask /\ ccTransfer.id \in 0..CcMask
  /\ ccWaiting \in BOOLEAN /\ ccRecent \in BOOLEAN /\ ccOpen \in BOOLEAN
  /\ ccSequence \in 1..CcMask /\ ccStream \in Nat \ {0}
  /\ ccStep.at \in {"idle", "paste", "install", "dispatch"}
  /\ DOMAIN ccDirs \subseteq 1..CcMask
  /\ ccCancelled \subseteq 1..CcMask /\ ccMuted \subseteq 1..CcGens

Ids(kind) == {ccEvents[i].id : i \in {j \in DOMAIN ccEvents : ccEvents[j].k = kind}}

\* The paths the host is told are ready lie in a directory that stays, and every file in it
\* is complete, in order, and from one state of the server's clipboard, whatever the server
\* answered and however its clipboard changed during the transfer.
ReadyIsWhole ==
  \A id \in Ids("ready") :
    /\ id \in DOMAIN ccDirs /\ ccDirs[id].retained
    /\ \E gen \in 1..CcGen :
         /\ Len(ccDirs[id].files) = Len(ccClips[gen].files)
         /\ \A f \in DOMAIN ccDirs[id].files :
              ccDirs[id].files[f] = [i \in 1..ccClips[gen].files[f].size |-> <<gen, f, i>>]

\* No partly staged directory outlives its transfer.
NothingIsLeftBehind ==
  \A id \in DOMAIN ccDirs :
    \/ ccDirs[id].retained
    \/ id = ccTransfer.id
    \/ ccStep.at \in {"install", "dispatch"} /\ ccStep.id = id

\* A transfer ends once; a transfer whose cancellation succeeded is never reported ready, and
\* is reported failed only because the channel is closed.
EndsOnce ==
  /\ \A i, j \in DOMAIN ccEvents :
       (i # j /\ ccEvents[i].k # "text" /\ ccEvents[j].k # "text") => ccEvents[i].id # ccEvents[j].id
  /\ \A i \in DOMAIN ccEvents :
       ccEvents[i].k # "text" /\ ccEvents[i].id \in ccCancelled =>
         ccEvents[i].k = "failed" /\ ccEvents[i].why = "closed"

\* Once everything has been answered the host has the text the server has, unless its
\* announcement came right after a file transfer.
TextArrives ==
  LET texts == {i \in DOMAIN ccEvents : ccEvents[i].k = "text"}
      quiet == ccDown = <<>> /\ ccUp = <<>> /\ ccStep = CcIdle /\ ccOpen IN
  quiet /\ ccClips[CcGen].kind = "text" /\ CcGen \notin ccMuted =>
    texts # {} /\ ccEvents[CHOOSE i \in texts : \A j \in texts : j <= i].gen = CcGen

\* The clipboard's downloads: types, complete and consistent results, no leftovers, one end
\* per transfer, the newest text.
RdpClipboardSafe ==
  CcTypeOK /\ ReadyIsWhole /\ NothingIsLeftBehind /\ EndsOnce /\ TextArrives
=============================================================================
