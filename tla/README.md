# A TLA+ verification of navop-extensions

`navop-extensions` holds the first-party extensions of the Navop application:
helper processes and plug-ins that the host starts and talks to over a pipe or a
local socket. None of them can be tested together with the host, a slow
consumer, a failing server and an impatient user at once; that is what the
models here are for. Every module is translated from the source lines that
`PROJECT.json` names under `map`; `hazards` there lists what each property is
aimed at.

## 1. Inventory

| part | source (under `src/`) | state | hard behaviour |
|---|---|---|---|
| VNC helper: output mailbox | `extensions/remote-desktop/vnc-helper/src/output_mailbox.rs` | control FIFO, a frame slot, a merged-delta slot, open/closed flag, sender count | two threads and a condition variable; barriers; merging |
| VNC helper: session, reconnect | `vnc_rfb.rs`, `vnc_encoding.rs`, `vnc_reconnect.rs`, `main.rs` | framebuffer, keyframe flag, dirty rectangles, back-off counter, remembered clipboard | reconnects, failures in the middle of a poll, shutdown |
| RDP helper: output mailbox | `rdp-helper/src/output_mailbox.rs` | control FIFO, frame slot, delta backlog with two limits | splitting, trimming, folding |
| RDP helper: output task | `rdp.rs`, `rdp/output.rs`, `main.rs` | presentation schedule, output mapper, outbox | pacing, sends that interleave with the writer |
| RDP helper: inputs | `rdp/input.rs`, `rdp/input_sender.rs` | bounded queue, coalesced move | back-pressure, releases at shutdown |
| RDP helper: clipboard | `clipboard/*` | offers, locks, transfers, staging | locks released between two steps, cancellation |
| Go database runtime | `internal/dbipc`, `internal/ipc` | connections, cursors, transactions, imports, streams | failures in the middle of a handler, atomic batches |
| Rust SQL drivers | `extensions/ipc/{duckdb,opengauss,clickhouse,tdengine}` | transactions, readers, imports, chosen database | requests that share one transaction; DDL order |
| Redis and MongoDB drivers | `extensions/ipc/redis`, `drivers/mongodb-*` | connections, subscriptions, blobs | retries, losses in bounded queues |
| Docker, Elasticsearch, MQTT, RocketMQ providers | `extensions/composite/*` | resources, jobs, streams, blobs, remote connections | tasks beside the request loop, reverse calls, time-outs |
| Importers | `extensions/wasm/{hexhub,mobaxterm,openssh-config,securecrt}-importer` | none between calls | order of records, whose secret is whose |
| IoTDB and Java drivers, SQL dialects | `internal/drivers/*`, `java/*` | as the Go runtime | not modelled |
| Other importers, exporters, renderers; language bundles, agents, packaging | `extensions/wasm/*`, `extensions/language*`, `scripts` | none | not modelled |

The host writes one request per line to a remote-desktop helper's stdin and
reads framed events from its stdout; it talks JSON-RPC over a local socket to
the drivers and the providers, which answer one request before they read the
next. Inside a remote-desktop helper three threads share an input channel and
the output mailbox. A provider may call the host back over the same socket while
it handles a request. Apart from the MQTT profile, which the host stores,
nothing is persisted: a helper that crashes starts again from nothing.

What makes each part correct: the host ends up with the producer's picture,
whatever is replaced, merged or folded on the way; controls that must not be
lost are neither lost nor reordered; nothing of an ended session arrives in the
next; every phase notices a close; back-off, clipboard and first frame are right
after any number of failed connections; every cursor, transaction, import, job,
stream and blob belongs to something that is open and ends with it; batches and
transactions are atomic; a result arrives whole and in order; an answer goes to
the request it answers; a loss is reported.

## 2. Modules

### Remote desktop

* `Retain` — `VecDeque::retain` on a sequence, in a form the provers can use
  (`SelectSeq` takes an operator, which they cannot instantiate). The assumption
  `WithoutIsSelectSeq` of `MCVncWriter` compares the two on all sequences up to
  length 4; `RetainProofs` proves what it returns for all.
* `VncMailbox` — the mailbox with one operator per critical section. A screen is
  a set of disjoint `Tiles`, each of one colour; a delta is the effect of its
  rectangles in order.
* `VncWriter` — the mailbox with any number of senders and the writer thread. A
  sender unlocks and only then notifies; the writer looks and goes to sleep in
  one step, as `Condvar::wait` does, and may wake for no reason.
* `ReliableChannel` — what a mailbox promises for the outputs that must not be
  lost: a FIFO. Both mailboxes are shown to implement it (`ControlsAreReliable`).
* `VncSession` — the whole helper: main, session and writer thread and the host.
  `pc` has one value per `await` of `run_vnc_session`,
  `run_connected_vnc_session` and `wait_before_reconnect`; a loop over `try_recv`
  or `poll_event` is one action per item. The server sends any event and every
  call to it may fail. `request_to_input` never produces `Reconnect`, although
  the session thread handles it in two places and the helper's tests send it;
  the model includes it. Refresh and liveness requests may happen at any poll,
  which is more than their timers allow.
* `RdpMailbox` — first the arithmetic of dirty rectangles (cutting the covered
  part out of an older one, folding, splitting what is too large; an entry is a
  rectangle with the colours of its cells), then the mailbox. `RdpBacklog` — its
  queue of deltas alone, with a host that lags any distance behind.
* `RdpDisplay` — output task, clipboard senders, writer and main thread. Mapping
  an event is one step, since nobody else sees the mapper; the sends it results
  in are one step each, so the writer and the clipboard run between `Connected`,
  the cursor and the base frame. `Tick` counts the deadlines down and does not
  pass one that is due, because the loop checks after every event and arms its
  timer. The condition variable is the VNC helper's and is modelled there.
* `RdpInput` — requests, the bounded queue and the input database.
* `RdpClipboard`, `RdpClipShare` — files copied on the server, and text and files
  copied on the host with the rules for a list of files. Every action is one
  critical section.

### Database drivers

* `DbIpcServer` — `internal/dbipc`: the tables, the id counters and one action
  per method, with `database/sql` (pools, results, transactions, what is
  durable) as its external part. Requests are answered one at a time, so a
  handler is one step; what can go wrong is *failure*: every call into
  `database/sql` may fail, and the early returns decide which tables have been
  changed by then. `delivered`, `received`, `asked` and `batches` are what the
  host got and asked for; only properties read them.
* `DuckDb`, `OpenGauss`, `BufferedDrivers` (ClickHouse and TDengine, whose cursor
  and exec code is the same and is mapped to one of them) — transactions,
  batches, imports, readers.
* `DriverCalls` — handshake, routes, parameters, connecting. `SqlDdl` — the
  builders of ALTER TABLE and their undo. `CsvExport` — cells to text and back.
  `SchemaRequests` — trees and dumps put together from several queries.
  `StoreDrivers` — Redis and MongoDB.

### Providers and importers

* `DockerProvider` (jobs, objects, files, daemon, dates), `DockerExec` (the
  terminal); `EsProvider`; `MqttSession`, `MqttProvider` (streams,
  profile, history); `RocketmqRemoting`, `RocketmqProvider` (resource, changes,
  reads); `HostCalls` (the socket a provider shares with the host, for all).
* `SessionImports` (HexHub, MobaXterm, OpenSSH) and `SecureCrtImport`.

A module that says it has parts "that share nothing" holds separate
specifications of separate tables; its variables and constants have a prefix per
part.

## 3. Runs

| run | question | instance |
|---|---|---|
| `vnc_writer` | Is a wakeup lost, does the writer stop too early or never, are the reliable controls a FIFO? | two senders, nine outputs (one of each kind), four sends |
| `vnc_session` | Does the host end up with the right picture, only inside a connection; has the server the latest text; do announced delays only grow? | two sizes, two tiles, two colours, three texts of which one cannot be sent, five connections, four events |
| `vnc_liveness` | Does the picture converge; does the process end? | one tile, two colours, two events, one request |
| `dbipc` | Is everything owned and reachable, is work atomic, do rows, chunks and counts add up? | two connections, one cursor, transaction, import and stream, two statements, two rows |
| `rdp_picture` | Is the picture complete, shown in time, and the cursor inside its session? | two desktop sizes, two colours, four client events, cap of one cell |
| `rdp_session` | Is the cursor current, are controls a FIFO, does the picture converge, does the process end? | one cell, two colours, three client events, one clipboard event |
| `providers` | Do jobs, streams and blobs end with their owner, do lists and counts say what the servers hold, is what was saved restored? | fourteen parts, one at a time |
| `calls` | Does everybody get his own answer, in order, and does every call end? | five parts, one at a time |
| `drivers` | Do tables keep their columns, transactions and readers their promises, exports their cells? | six parts, one at a time |
| `parts` | The stores, trees, importers, the delta backlog and the clipboard. | fourteen parts, one at a time |
| `rdp_backlog_bound` (violation) | "backlog proportional to the screen rather than to time" | the limits of the code, cap of one cell, a 1×2 desktop |
| `securecrt_password` (violation) | "include_passwords_never_exposes_securecrt_ciphertext" | the part `securecrt` |

The four runs over parts start in one part, chosen in `Init` by `part`, and stay
in it: the parts are separate processes or separate tables, so their product
would show nothing that each does not. The variables of the others are `"off"`,
or, in `calls`, rest in a state without a fair step. Each property is a
conjunction of implications `part = ... => ...` of properties stated and
commented in the part's module.

Bounds. Only the environment is bounded (events, connections, requests, sends,
faults); the bounds have names and stand in guards. Two tiles and two colours
suffice for a delta that covers part of the picture, one that repaints, and a
copy between tiles; two sizes for a resize and for a reconnect to another screen;
five attempts reach the last entry of the delay table twice; the budgets per poll
are 256 in the code, and 1 or 2 make "the budget is exhausted and something is
left" a common case. Two connections are needed for a request that names a
transaction of the wrong one. The limits of the RDP backlog are the smallest that
let every branch of its loop be taken; the cap of one cell makes every region a
case for splitting. `rdp_session` has a desktop of one cell because TLC evaluates
the folds again for every `ENABLED`; deltas are covered by the other runs.

In the runs over parts, the bounds that a property depends on:

* `calls`: the host keeps two requests open with Elasticsearch and RocketMQ and
  sends notifications, so that something does arrive while `resolve_secret` waits;
  two frames may be deferred (64 in the code) and three requests overflow them.
  Pipes of one chunk and five chunks fill both directions of the exec bridge; a
  channel of two and three operations fill MQTT's.
* `providers`: every date of 158000 days from 1970 (to 2402, more than a Gregorian
  cycle of 400 years); RocketMQ's pages over two queues of two messages with two
  failing calls; one job, stream and blob fewer than are asked for.
* `drivers`: tables of three column names, with every edit of them; cells with the
  delimiter, the quote and line ends, as texts and as the null string; ordered and
  unordered readers whose page is shorter than the result; a server that changes
  during and after a connection test. The announced methods of every driver are compared
  with its routes once, in an assumption (`RoutesMatchAnnouncement`).
* `parts`: a file limit, a depth and a session limit that the importers' candidates
  exceed; two table names, for the order of a tree and for keys shared
  between tables; trees of three files where two are allowed; paths whose length on
  the wire is within the limit and past it.

Two runs restrict the next-state relation instead of shrinking the instance.
`vnc_session` is deep in two directions (`MCNext`): everything the server draws
over two connections without requests (`Painting`), and requests, clipboard,
reconnects and exit over five connections with one small picture (`Requesting`).
`dbipc` likewise: who owns what, with two connections and a cursor but no
statements, and the work that is done, on one connection, either statements and
imports or exports (`NoWork`, `OneConn`, `OneKind`). What the restriction leaves
out, both at once, is covered by the proofs, which are about the full
specifications.

Deadlock is not checked: every one of these processes may end or have nothing to
do. Symmetry is used only where all properties of the run are safety properties.

Fairness.

* VNC helper: weak fairness of each thread, except where the session thread waits
  for the server (`WaitsForServer`: in `connect_vnc`, and where an input or a
  refresh goes into the client's bounded channel). The operating system schedules
  threads and a write to stdout returns or fails. Nothing is assumed of the server
  or of the host: `HelperExits` says that the closed helper ends or waits for the
  server for ever.
* RDP helper: weak fairness of each thread; time passes, the runtime starts or
  fails, and a client asked to close ends.
* `DockerExec`: weak fairness of loop, reader thread and remote program; strong
  fairness of a resize, because `select!` polls its branches in random order and
  a signal that stays pending is taken. A write awaited inside the loop is a state
  of its own, in which nothing else of the loop happens.
* `HostCalls`: the provider runs and the host answers its calls, without which
  no property of the provider could hold: it waits without a time-out.
* `MqttSession`: handler and poll task run; a back-off ends by a timer.
  `RocketmqRemoting`: only the caller, whose time-out always fires, although
  reader, writer and servers may do nothing at all.
* `RdpInput`: the session takes what is queued, and a send that waits for a place
  takes it.
* The Go runtime, drivers and importers promise nothing while no request comes:
  safety only.

## 4. Proofs

Each theorem holds for every value of the constants that satisfies the
assumptions of the modules: bounds are natural numbers, budgets, caps and
deadlines are positive, sizes have a positive extent, `None` is no event, image, frame,
delta or number, the delays are the code's table.

`RetainProofs` (`WithoutProperties`) and `VncMailboxProofs` hold the lemmas about
`retain` and the operations of the mailbox that the VNC proofs share.

`VncWriterProofs`

* `WriterIsSafe` — no lost wakeup, stopping only when drained, a closed mailbox
  is empty. `WriterInv` adds that the living senders are finitely many (so that
  counting them works for any set of senders) and that the receiver lives as long
  as the writer runs.
* `ControlsAreDeliveredInOrder` — every step is a step or a stutter of
  `ReliableChannel`. The work is in `Without` over appending, taking the first
  entry, and `retain` of a barrier.

`VncSessionProofs`

* `TypeCorrect` — in particular the slots and the queue hold outputs of the right
  kind only.
* `ClipboardIsLatest` — inductive together with the types: every way into the
  connected loop passes the replay.
* `BackoffIsMonotone` — the property is about the announcement in the writer's
  hand; the announcements that wait in the queue have to be in order as well.
  `BackoffInv` says that the delays form a chain from the one the host saw, over
  hand and queue, to the one that `reconnect_attempt` would announce next, and
  that the chain ends in `None` as soon as the session claims to have been
  connected. `NoSession` says what a thread without a session knows.
* `DisplayIsSafe` — `PictureInv` adds to the picture properties that a pending
  delta has the size of the picture it will paint on, and that the mailbox is
  open while there is a framebuffer; `InsideInv` adds, for every session output
  in the queue and for the two slots, that a `Connected` without a later barrier
  is ahead of it (`Inside`).

`DbIpcServerProofs`

* `ServerTypeOK`, `EverythingIsOwned`, `ServerLeaksNothing`,
  `ResultsStayInTheirTransaction` — from
  `IInv == TypeOK /\ IdsInOrder /\ WithinLimits /\ Ownership`. `IdsInOrder`: every
  id is below its counter, so a new id overwrites nothing. `WithinLimits`: what
  remains to be fetched is a natural number. The three ownership properties need
  each other: closing a connection closes the results found through the cursor
  table, which leaves none behind only because every open result is in it.
* `WorkStaysAtomic`, `PiecesArriveWhole` — from `PiecesInv`, on top of `IInv`.
  `RowsInv` ties what the host got to the read position and to `fetched`, also
  after a failed fetch; `StreamInv` ties it to the stream's offset; `WorkInv` says
  that durable work has a known owner, that statement numbers of different owners
  do not overlap, and that an unfinished transaction was never asked to commit;
  `ImportInv` that the rows of an import are finitely many and none before it
  began. One lemma per handler, and frame lemmas for steps that touch none of it.

`RdpDisplayProofs`

* `TrimIsDifference`, `SplitIsPartition` — what trimming leaves of an older entry
  is the set difference, and the bands show every cell once, each within the cap
  or a single row. Both are stated with `Cut(s, entry, area)`: the list shows the
  cells of `area`, each once, in the colours of `entry`. `CapIsPositive` is what
  `merge_byte_cap` enforces.
* `OutputIsSafe` — an image waits at most `MaxLatency`, and a cursor event reaches
  the host only inside a session. For the first, `ScheduleInv`: the deadlines are
  set together, and the age and the rest of the second one are at most the limit,
  so pushing the settle deadline does not help the image to wait. For the second,
  `InsideInv`: the cursor events of the hand, the queue and the outbox find an
  open session when they arrive, where `Continues(mapper, outbox, Ahead)` says
  what the mapper's own flag is worth while its events are still unsent.
  Coalescing replaces only the last entry of the queue, so `Inside` of what stays
  is unchanged; a barrier removes all cursor events before it.
* `ControlsAreDeliveredInOrder` — the refinement of `ReliableChannel` by the RDP
  helper, with the event in the writer's hand as the head of the queue
  (`ChannelInv`: the receiver lives as long as the writer runs).

* `CursorStaysCurrent` — the property folds over the events on their way, so the
  invariant says what a step does to that fold. `Overlay(c, w)` is a cursor `c`
  once the events `w` that the mapper keeps back have arrived; `SameTrail` says
  that mapping an event moves cursor events from there to the outbox and changes
  nothing for the host. `CursorInv` adds that a session's end still in the outbox
  means that the server has shown no cursor since, so that the ones the barrier
  discards are those of the ended session.

`RdpPictureProofs`

* `FoldPayloadRedraws`, `ChunksRedraw` — `Redraws(s, t, size)`: painting the list
  `s` on any picture of that size gives what painting `t` gives, with no more
  cells. Folding is right because a newer entry is painted after what is left of
  the older ones, and trimming took only cells it covers.
* `MakeRoomRedelivers`, `QueueDeltaRedelivers` — the same for queues of deltas
  (`Redelivers`). That the loop ends needs an argument of its own: the code goes
  on as long as the pair (events, bytes) gets smaller, events first; because a
  fold never adds bytes, every such turn takes away an event or a byte, and the
  sum of both bounds the number of turns.
* `ChunksStayWithinCap`, `QueueDeltaStaysWithinCap` — a chunk takes a band only if
  there is room, and whatever is merged or folded is split again, so no event
  exceeds the cap but a single row, however large the delta was.
* `PictureIsSafe` — no pixel is lost and no delta outgrows the cap; the latter is
  inductive beside the former, which says what the queue holds. `PictureInv` has three parts.
  `PictureTypes`: the slots, the outbox and the hand hold events of their kind.
  `Fits`: a delta in the outbox is for the desktop of the mapper with no frame
  behind it, and so is the queue unless a frame is coming that clears it.
  `ServerShown`: with no image waiting, the picture that the host will have after
  hand, mailbox and outbox (`SentImage`) is the server's, and a session's end in
  the outbox means that the next session has drawn nothing. `InsideInv` supplies what
  is known of the queue; `ScheduleInv`, `CursorInv` and `ThreadTypes` are needed
  for the types of the other variables.

`FoldProofs` is what the last three rest on: what `FoldLeft` computes for a list of
any length (the empty list, one more element, two lists one after the other, a
set that every turn preserves, a relation that every turn preserves). A proof
about a loop instantiates it with the loop's turn as `Step`. The library's
induction theorems take an operator and cannot be used; here the property is a
*set* of positions, and induction is the well-foundedness of the natural numbers
on it (`PositionInduction`).

Only model-checked:

* liveness (`WriterTerminates`, `HostConverges`, `HelperExits`, `EveryCallEnds`)
  and the fairness half of the two refinements: outside the proof system;
* the properties of `providers`, `calls`, `drivers` and `parts`. They are
  conjunctions over parts, each with variables of its own, and need an inductive
  invariant per part; none is proved yet. Those of `parts` cannot be named by a
  theorem at all: `collect_tree` of `RdpClipShare` is a `RECURSIVE` operator, and
  the prover loses its arithmetic in every module that reaches one, so there the
  theorem would have to state the property of the part's own module. Of
  `BacklogSafe`, the picture and the cap are what `QueueDeltaRedelivers` and
  `QueueDeltaStaysWithinCap` say of one call; its third part, that no event
  carries a cell twice, holds only while a list has at most
  `MAX_MERGED_DELTA_RECTS` entries, since a longer one is appended to without
  trimming, and is not proved.

## 5. What the checks show

Everything holds but two statements of the repository (`findings`):

* `rdp_backlog_bound`: the loop that makes room gives up when folding the two
  oldest events does not shrink the queue, and appends all the same. Two regions
  of the size of the cap, repainted in turn, never fold, so the backlog grows with
  time.
* `securecrt_password`: the plaintext of a credential and a session's own older
  `Password` field have the same key, so the ciphertext is imported as the
  password.

Met while modelling, where code and text differ or a reader might expect more,
and modelled as the code has it:

* VNC: `merge_deltas` concatenates, so the pending delta of a blocked writer
  grows, while the design document speaks of one complete frame. The same
  document calls clipboard and cursor outputs reliable; those of an ended session
  are discarded, and the helper's tests ask for it. The pointer position starts
  again at (0, 0) after a reconnect. `connect_vnc` has no time-out and no input is
  looked at meanwhile, so a server that accepts and stays silent keeps a helper
  alive that the host has closed.
* RDP: after `Reconnecting` the deltas of the old session stay in the mailbox and
  can be delivered between the new `Connected` and its base frame; a terminal
  event clears them. The picture that results is right all the same
  (`PictureSafe`).
* Docker: closing one resource cancels and removes the jobs of all
  (`jobs.rs:226` speaks of the jobs of that resource), and directories are listed
  after files although the comment at `main.rs:834` says the opposite. The first of
  March of a leap year comes out as the 30th of February, except in the first
  century of each 400 years (2000 to 2099 are right): the loop that corrects the
  year compares with `<` (`main.rs:1746`). A file whose name ends in blanks cannot
  be opened or deleted: its path is trimmed (`main.rs:1673`) and names another
  entry, or the directory.
* Elasticsearch: `index_name` refuses "/", "?" and "#" but lets "*" and "," through
  (`client.rs:597-608`), so deleting, closing, opening or refreshing an index by
  such a name reaches every index it matches, where the cluster allows that.
* RocketMQ: any failure of a V2 send is followed by a V1 send of the same message.
  Creating or deleting a topic succeeds if one broker confirms it; which others
  failed is only logged. Failures inside a page of messages are silent: a failed
  search shows messages from before the window, other failures leave some out. A
  query by key, or by a client's unique key, asks the first broker of the route
  only, and up to `i32::MAX` milliseconds, which is January 1970. Replacing the
  resource leaves the blobs of the old connection until the resource is closed.
* Elasticsearch and RocketMQ take the next frame for the answer to
  `resolve_secret`, whatever it is: a request or notification that arrives first is
  lost, the open fails, and the late answer is taken by the next call, so that one
  connection is opened with the secret of another. MQTT's `ipc.rs:4-9` describes
  this and looks at ids instead; past 64 deferred frames it loses the frame at hand.
* Two waits have no way out, and `EveryCallEnds` names them as its only exceptions:
  the exec bridge awaits a write while the program waits for its output to be read
  (`exec_bridge.rs:193`, both directions full), and MQTT's poll task awaits room in
  the channel that it alone empties when it restores subscriptions with the channel
  full (`builtin.rs:379`).
* MQTT: events put into the backlog can be overtaken by smaller ones within a
  read; two resources with one profile key overwrite each other's profile; the
  count of today's messages is yesterday's until the first message of the day.
* The table designer: openGauss drops the old name of a renamed column when
  `allow_destructive` is set (`ddl.rs:298`), so such an edit always fails after its
  renames and additions have run. DuckDB and openGauss build no statement, and no
  warning, for a changed type, nullability or default of a kept column, nor for a
  changed comment of a renamed one; ClickHouse builds none for a comment that
  changes alone (`ddl.rs:251`); TDengine carries no default or comment. `DdlTarget`
  says per dialect what the table is in the end.
* CSV export: openGauss applies `exclude_columns` only to `include_columns`, and
  exports `*` when that leaves nothing (`handlers.rs:1036-1047`), so an exclusion
  alone excludes nothing. In both drivers a null string that holds a delimiter, a
  quote or a line end is quoted like a text and no longer reads back as NULL.
* DuckDB: a cursor or export runs its query again for every page with LIMIT and
  OFFSET (`handlers.rs:2046-2049`): pages shift when rows are written in between,
  and a query without a total order may return a row twice and another never.
  `DuPagesAreWhole` and `DuExportIsWhole` ask for the exact rows only of ordered
  queries. `schema/dump_ddl` appends its database and schema filters behind the
  ORDER BY of the index query (`handlers.rs:1291-1304`): asked for with a schema, or
  with an attached database, the dump fails as soon as any table of that name has an
  index; asked for by name alone it takes the indexes of every table of that name.
  `DcDumpIsWhole` states which dumps succeed.
* openGauss: nothing of a batch or import chunk that fails is undone, in_transaction
  or not (`handlers.rs:556-577`), nor of an import that is aborted (544-554), and a
  transaction begun twice is one transaction of the server under two ids;
  `OgPromisesKept` accounts for every stored row. `list_foreign_keys`
  (`session.rs:479-486`) joins a constraint with the columns of every constraint of
  its name: a key of several columns is listed as the product of its columns, and
  two keys of one name on two tables are mixed; `SrKeysAreListed` says when a listed
  pair can be wrong. conn/open is answered although the version query failed, so a
  connection may be reported open on a session the server has ended.
* ClickHouse: only `.inner_id.` tables are hidden (`metadata.rs:64`); the `.inner.`
  table of a materialized view in a database without uuids is listed as a table.
  `query_typed` (`clickhouse_session.rs:165-176`) executes again, as a statement,
  whatever gave no JSON: an INSERT sent as a query may be stored twice.
* MongoDB: a server whose `buildInfo` has no `versionArray` is taken for a recent
  one (`modern.rs:256-258`).
* MobaXterm: a password inside a session line is opened although
  `include_passwords` is off. A session without a host or in an unknown spelling, a
  file that is no text and every file after the one that brings the records to the
  limit make neither a record nor a warning (`mobaxterm.rs:108, 120, 161, 605-611`);
  `MxAccounted` states what holds for the others. SecureCRT's scan tells everything
  it leaves out (`ScSkipsAreTold`), but its preview passes no warning on.
* RDP clipboard: a request for file contents looks its entry up under the lock, and
  reads and sends it after the lock is released (`clipboard/backend.rs:122-131`), so
  a transfer cancelled in between is still answered; `CancelledStaysSilent` says
  never more than once.

## 6. What is not modelled

IoTDB and Java drivers (the protocol of the Go runtime over other client
libraries), SQL dialects and connection strings, value conversion (pure
translation, better tested than modelled); the other importers, the exporters and
renderers (one pass over one file); the RFB and RDP wire protocols, TLS, HTTP,
ciphers, the ACL signature (libraries or pure functions); the VNC helper's pressed
keys and buttons and its refresh timers; logging, statistics, wording. Packaging,
scripts and language bundles do nothing at run time. `PROJECT.json` lists every
part with its status.

## 7. What is left to prove

1. `EsProvider` and `DockerProvider`: an outcome is final, no search or pull
   outlives its resource, an end is announced once. The tables are functions, so
   the invariants are first-order.
2. `RocketmqRemoting`: an answer is taken by the request whose opaque it carries,
   on channels that are dropped and connected again.
3. `HostCalls`: the answer a provider takes is its own, for any number of
   deferred frames; the deferred frames are a list, for which `FoldProofs` is
   there.
4. `RdpClipboard`: a transfer ends once and leaves no staging directory behind.
5. `RdpBacklog`: no event carries a cell twice, while its list is short enough.
