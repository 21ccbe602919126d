------------------------------ MODULE OpenGauss ------------------------------
(***************************************************************************)
(* One connection of the openGauss driver (src/extensions/ipc/opengauss/   *)
(* src: handlers.rs, state.rs, session.rs).  Requests of a connection are  *)
(* served one at a time; a handler is one action.  Unlike DuckDB the whole *)
(* result of a query is fetched at query/start, the driver keeps only the  *)
(* ids of the transactions it began (it never looks whether one is open),  *)
(* exec/run ignores which transaction it is sent for, and an import runs   *)
(* without a transaction of its own.                                       *)
(*                                                                         *)
(* The table is a sequence of row numbers.  Of the server the model keeps  *)
(* what PostgreSQL does with one session: a statement that fails aborts    *)
(* the transaction, BEGIN inside one is a warning, COMMIT of an aborted    *)
(* one succeeds as a ROLLBACK, and ROLLBACK TO reopens it.                 *)
(***************************************************************************)
EXTENDS Integers, Sequences, SequencesExt, FiniteSets

CONSTANTS
    OgStart,        \* rows in the table at first
    OgRows,         \* bound on the row numbers ever inserted
    OgPage,         \* largest page or chunk the host asks for
    OgMaxRows,      \* max_rows values; OgNoMax among them
    OgSaves,        \* savepoint names
    OgDepth,        \* bound on the savepoints of a transaction
    OgTxs,          \* bound on tx/begin
    OgJobs          \* bound on readers, imports and batches

OgNoMax == -1

ASSUME OgAssumption == {OgStart, OgRows, OgPage, OgDepth, OgTxs, OgJobs} \subseteq Nat

VARIABLES
    ogDb,       \* the server's session: rows, work, txn, saves
    ogNext,     \* next row number
    ogTx,       \* tx_conn: the registered transactions, with the rows acknowledged in each
    ogImport,   \* the open import, {} or {record}
    ogReader,   \* the open cursor or stream, {} or {record}
    ogUsed,     \* [tx, job]: begun so far
    ogKept,     \* rows the host was told are stored
    ogDropped,  \* rows the host was told are not stored
    ogLeft      \* rows written by what then failed, was aborted or shared a transaction

ogVars == <<ogDb, ogNext, ogTx, ogImport, ogReader, ogUsed, ogKept, ogDropped, ogLeft>>
-----------------------------------------------------------------------------
(* The server *)

OgView == IF ogDb.txn = "none" THEN ogDb.rows ELSE ogDb.work
OgInsert(db, row) ==
    IF db.txn = "none" THEN [db EXCEPT !.rows = Append(@, row)] ELSE [db EXCEPT !.work = Append(@, row)]
OgFail(db) == IF db.txn = "none" THEN db ELSE [db EXCEPT !.txn = "aborted"]
OgRolledBack(db) == [db EXCEPT !.txn = "none", !.work = <<>>, !.saves = <<>>]
OgCommitted(db) == [OgRolledBack(db) EXCEPT !.rows = IF db.txn = "open" THEN db.work ELSE @]
OgNamed(db, name) == {i \in DOMAIN db.saves : db.saves[i].name = name}
OgLast(db, name) == CHOOSE i \in OgNamed(db, name) : \A k \in OgNamed(db, name) : k <= i
-----------------------------------------------------------------------------
(* tx/begin, tx/commit, tx/rollback, tx/savepoint, tx/release *)

\* Another id may be registered already: then both stand for the one transaction.
OgTxBegin ==
    /\ ogUsed.tx < OgTxs
    /\ ogUsed' = [ogUsed EXCEPT !.tx = @ + 1]
    /\ \/ /\ ogDb.txn = "aborted"
          /\ UNCHANGED <<ogDb, ogTx>>
       \/ /\ ogDb.txn # "aborted"
          /\ ogDb' = IF ogDb.txn = "open" THEN ogDb ELSE [ogDb EXCEPT !.txn = "open", !.work = ogDb.rows]
          /\ ogTx' = {[t EXCEPT !.alone = FALSE] : t \in ogTx}
                     \cup {[id |-> ogUsed.tx, rows |-> {}, alone |-> ogDb.txn = "none" /\ ogTx = {}]}
    /\ UNCHANGED <<ogNext, ogImport, ogReader, ogKept, ogDropped, ogLeft>>

\* The id is forgotten first; a COMMIT that fails has rolled back.
OgTxCommit(t) ==
    /\ ogTx' = ogTx \ {t}
    /\ \/ /\ ogDb' = OgCommitted(ogDb)
          /\ ogKept' = IF t.alone /\ ogDb.txn = "open" THEN ogKept \cup t.rows ELSE ogKept
          /\ ogLeft' = IF t.alone THEN ogLeft ELSE ogLeft \cup Range(ogDb.work)
       \/ /\ ogDb.txn = "open"
          /\ ogDb' = OgRolledBack(ogDb)
          /\ UNCHANGED <<ogKept, ogLeft>>
    /\ UNCHANGED <<ogNext, ogImport, ogReader, ogUsed, ogDropped>>

OgTxRollback(t) ==
    /\ ogTx' = ogTx \ {t}
    /\ ogDb' = OgRolledBack(ogDb)
    /\ ogDropped' = IF t.alone THEN ogDropped \cup t.rows ELSE ogDropped
    /\ UNCHANGED <<ogNext, ogImport, ogReader, ogUsed, ogKept, ogLeft>>

OgTxSavepoint(t, name) ==
    /\ Len(ogDb.saves) < OgDepth
    /\ ogDb' = IF ogDb.txn = "open"
               THEN [ogDb EXCEPT !.saves = Append(@, [name |-> name, work |-> ogDb.work])]
               ELSE OgFail(ogDb)
    /\ UNCHANGED <<ogNext, ogTx, ogImport, ogReader, ogUsed, ogKept, ogDropped, ogLeft>>

OgTxRelease(t, name) ==
    /\ ogDb' = IF ogDb.txn = "open" /\ OgNamed(ogDb, name) # {}
               THEN [ogDb EXCEPT !.saves = SubSeq(@, 1, OgLast(ogDb, name) - 1)]
               ELSE OgFail(ogDb)
    /\ UNCHANGED <<ogNext, ogTx, ogImport, ogReader, ogUsed, ogKept, ogDropped, ogLeft>>

\* The id stays registered, the savepoint as well.
OgTxRollbackTo(t, name) ==
    /\ IF ogDb.txn # "none" /\ OgNamed(ogDb, name) # {}
       THEN LET at == OgLast(ogDb, name)
                undone == Range(ogDb.work) \ Range(ogDb.saves[at].work)
            IN  /\ ogDb' = [ogDb EXCEPT !.txn = "open", !.work = ogDb.saves[at].work,
                                        !.saves = SubSeq(@, 1, at)]
                /\ ogTx' = {[u EXCEPT !.rows = @ \ undone] : u \in ogTx}
                /\ ogDropped' = IF t.alone THEN ogDropped \cup (t.rows \cap undone) ELSE ogDropped
       ELSE /\ ogDb' = OgFail(ogDb)
            /\ UNCHANGED <<ogTx, ogDropped>>
    /\ UNCHANGED <<ogNext, ogImport, ogReader, ogUsed, ogKept, ogLeft>>

OgTransactions ==
    \E t \in ogTx :
        \/ OgTxCommit(t) \/ OgTxRollback(t)
        \/ \E name \in OgSaves : OgTxSavepoint(t, name) \/ OgTxRelease(t, name) \/ OgTxRollbackTo(t, name)
-----------------------------------------------------------------------------
(* exec/run, exec/batch *)

\* What the host may count on once it knows these rows were written.
OgWritten(rows) ==
    /\ ogTx' = IF ogDb.txn = "none" THEN ogTx ELSE {[t EXCEPT !.rows = @ \cup rows] : t \in ogTx}
    /\ ogKept' = IF ogDb.txn = "none" THEN ogKept \cup rows ELSE ogKept
    /\ UNCHANGED ogLeft

\* The request is answered with an error; nothing of what it wrote is undone.
OgFailedWith(rows) == ogLeft' = ogLeft \cup rows /\ UNCHANGED <<ogTx, ogKept>>

OgExecRun ==
    /\ ogNext <= OgRows
    /\ ogNext' = ogNext + 1
    /\ \/ ogDb.txn # "aborted" /\ ogDb' = OgInsert(ogDb, ogNext) /\ OgWritten({ogNext})
       \/ ogDb' = OgFail(ogDb) /\ OgFailedWith({})
    /\ UNCHANGED <<ogImport, ogReader, ogUsed, ogDropped>>

OgBatches == UNION {[1..n -> {"good", "bad"}] : n \in 1..2}

\* execute_batch: to the first error, which is the answer; in_transaction and stop_on_error
\* are not looked at.
OgRunBatch(statements) ==
    FoldLeft(LAMBDA s, st : IF s.failed THEN s
                            ELSE IF st = "good" /\ s.db.txn # "aborted"
                            THEN [s EXCEPT !.db = OgInsert(s.db, s.next), !.rows = @ \cup {s.next}, !.next = @ + 1]
                            ELSE [s EXCEPT !.db = OgFail(s.db), !.next = @ + 1, !.failed = TRUE],
             [db |-> ogDb, rows |-> {}, next |-> ogNext, failed |-> FALSE], statements)

OgExecBatch ==
    /\ ogUsed.job < OgJobs
    /\ ogUsed' = [ogUsed EXCEPT !.job = @ + 1]
    /\ \E statements \in OgBatches :
        /\ ogNext + Len(statements) <= OgRows + 1
        /\ LET ran == OgRunBatch(statements)
           IN  /\ ogDb' = ran.db
               /\ ogNext' = ran.next
               /\ IF ran.failed THEN OgFailedWith(ran.rows) ELSE OgWritten(ran.rows)
    /\ UNCHANGED <<ogImport, ogReader, ogDropped>>
-----------------------------------------------------------------------------
(* data/import_begin, _chunk, _commit, _abort.  A row is good, refused by  *)
(* the server or malformed (build_insert_sql fails and with it the         *)
(* request); a chunk ends early at abort_on_failures failures, counted     *)
(* among the tracked ones of this chunk.                                   *)

OgImportBegin(track, limit) ==
    /\ ogUsed.job < OgJobs
    /\ ogImport = {}
    /\ ogUsed' = [ogUsed EXCEPT !.job = @ + 1]
    /\ ogImport' = {[inserted |-> 0, failed |-> {}, next |-> 0, track |-> track, limit |-> limit,
                     tried |-> <<>>, rows |-> {}]}
    /\ UNCHANGED <<ogDb, ogNext, ogTx, ogReader, ogKept, ogDropped, ogLeft>>

OgChunks == UNION {[1..n -> {"good", "refused", "malformed"}] : n \in 1..2}

\* record_inserted, record_failed
OgTried(s, ok) ==
    LET imp == s.imp
    IN  [imp EXCEPT !.inserted = IF ok THEN @ + 1 ELSE @,
                    !.failed = IF ok \/ ~imp.track THEN @ ELSE @ \cup {imp.next},
                    !.next = @ + 1,
                    !.tried = Append(@, ok), !.rows = IF ok THEN @ \cup {s.next} ELSE @]

OgRunChunk(imp, rows) ==
    FoldLeft(LAMBDA s, kind :
                IF s.end # "none" THEN s
                ELSE IF kind = "malformed" THEN [s EXCEPT !.end = "error"]
                ELSE IF kind = "good" /\ s.db.txn # "aborted"
                THEN [s EXCEPT !.db = OgInsert(s.db, s.next), !.rows = @ \cup {s.next}, !.next = @ + 1,
                               !.imp = OgTried(s, TRUE)]
                ELSE [s EXCEPT !.db = OgFail(s.db), !.next = @ + 1, !.imp = OgTried(s, FALSE),
                               !.lost = @ + 1,
                               !.end = IF imp.track /\ imp.limit # OgNoMax /\ s.lost + 1 >= imp.limit
                                       THEN "break" ELSE "none"],
             [db |-> ogDb, imp |-> imp, rows |-> {}, next |-> ogNext, lost |-> 0, end |-> "none"], rows)

OgImportChunk ==
    /\ \E imp \in ogImport, rows \in OgChunks :
        /\ ogNext + Len(rows) <= OgRows + 1
        /\ LET ran == OgRunChunk(imp, rows)
           IN  /\ ogDb' = ran.db
               /\ ogImport' = {ran.imp}
               /\ ogNext' = ran.next
               /\ IF ran.end = "error" THEN OgFailedWith(ran.rows) ELSE OgWritten(ran.rows)
    /\ UNCHANGED <<ogReader, ogUsed, ogDropped>>

OgImportCommit ==
    /\ ogImport # {}
    /\ ogImport' = {}
    /\ UNCHANGED <<ogDb, ogNext, ogTx, ogReader, ogUsed, ogKept, ogDropped, ogLeft>>

\* Nothing is undone: the rows inserted so far stay, or are committed with their transaction.
OgImportAbort ==
    /\ \E imp \in ogImport : /\ ogLeft' = ogLeft \cup imp.rows
                             /\ ogKept' = ogKept \ imp.rows
                             /\ ogTx' = {[t EXCEPT !.rows = @ \ imp.rows] : t \in ogTx}
    /\ ogImport' = {}
    /\ UNCHANGED <<ogDb, ogNext, ogReader, ogUsed, ogDropped>>
-----------------------------------------------------------------------------
(* Cursors and export streams: the result is fetched once and cut up       *)

OgHeader == <<<<0, 0>>>>
OgRender(rows) == OgHeader \o FlattenSeq([i \in DOMAIN rows |-> <<<<rows[i], 1>>, <<rows[i], 2>>>>])
OgCut(rows, max) == IF max = OgNoMax \/ max > Len(rows) THEN rows ELSE SubSeq(rows, 1, max)

OgOpens(kind, buffer, all, max) ==
    /\ ogUsed.job < OgJobs /\ ogReader = {} /\ ogDb.txn # "aborted"
    /\ ogUsed' = [ogUsed EXCEPT !.job = @ + 1]
    /\ ogReader' = {[kind |-> kind, rows |-> buffer, next |-> 0, max |-> max, done |-> max = 0,
                     all |-> all, got |-> <<>>, ended |-> FALSE, cancelled |-> FALSE]}
    /\ UNCHANGED <<ogDb, ogNext, ogTx, ogImport, ogKept, ogDropped, ogLeft>>

OgQueryStart(max) == OgOpens("cursor", OgView, OgCut(OgView, max), max)
\* LIMIT max_rows is part of the statement.
OgExport(max) == OgOpens("stream", OgRender(OgCut(OgView, max)), OgRender(OgCut(OgView, max)), OgNoMax)

\* CursorState::fetch; n is clamped to at least 1.
OgFetched(r, n) ==
    LET asked == IF n < 1 THEN 1 ELSE n
        left == IF r.max = OgNoMax THEN Len(r.rows) ELSE r.max - r.next
        take == IF asked < left THEN asked ELSE left
        end == IF r.next + take > Len(r.rows) THEN Len(r.rows) ELSE r.next + take
        done == end >= Len(r.rows) \/ (r.max # OgNoMax /\ end >= r.max)
    IN  IF r.done THEN [r EXCEPT !.ended = TRUE]
        ELSE [r EXCEPT !.next = end, !.got = @ \o SubSeq(r.rows, r.next + 1, end),
                       !.done = done, !.ended = done]

\* StreamState::read
OgStreamed(r, n) ==
    LET asked == IF n < 1 THEN 1 ELSE n
        end == IF r.next + asked > Len(r.rows) THEN Len(r.rows) ELSE r.next + asked
    IN  [r EXCEPT !.next = end, !.got = @ \o SubSeq(r.rows, r.next + 1, end), !.ended = end >= Len(r.rows)]

OgRead ==
    /\ \E r \in ogReader :
        \/ /\ ~r.ended
           /\ \E n \in 0..OgPage : ogReader' = {IF r.kind = "cursor" THEN OgFetched(r, n) ELSE OgStreamed(r, n)}
        \/ /\ r.kind = "cursor"
           /\ ogReader' = {[r EXCEPT !.done = TRUE, !.cancelled = TRUE]}
        \/ ogReader' = {}
    /\ UNCHANGED <<ogDb, ogNext, ogTx, ogImport, ogUsed, ogKept, ogDropped, ogLeft>>

\* conn/close, or the server drops the session: both roll back; the next connection follows.
OgClose ==
    /\ ogDb' = OgRolledBack(ogDb)
    /\ ogTx' = {} /\ ogImport' = {} /\ ogReader' = {}
    /\ UNCHANGED <<ogNext, ogUsed, ogKept, ogDropped, ogLeft>>
-----------------------------------------------------------------------------
OgInit ==
    /\ ogDb = [rows |-> [i \in 1..OgStart |-> i], work |-> <<>>, txn |-> "none", saves |-> <<>>]
    /\ ogNext = OgStart + 1
    /\ ogTx = {} /\ ogImport = {} /\ ogReader = {}
    /\ ogUsed = [tx |-> 0, job |-> 0]
    /\ ogKept = 1..OgStart /\ ogDropped = {} /\ ogLeft = {}

OgNext ==
    \/ OgTxBegin \/ OgTransactions
    \/ OgExecRun \/ OgExecBatch
    \/ \E track \in BOOLEAN, limit \in {OgNoMax, 1} : OgImportBegin(track, limit)
    \/ OgImportChunk \/ OgImportCommit \/ OgImportAbort
    \/ \E max \in OgMaxRows : OgQueryStart(max) \/ OgExport(max)
    \/ OgRead
    \/ OgClose

OgSpec == OgInit /\ [][OgNext]_ogVars
-----------------------------------------------------------------------------
(* Properties *)

OgTypeOK ==
    /\ ogDb.txn \in {"none", "open", "aborted"}
    /\ Range(ogDb.rows) \cup Range(ogDb.work) \subseteq 1..OgRows
    /\ ogUsed.tx \in 0..OgTxs /\ ogUsed.job \in 0..OgJobs
    /\ Cardinality(ogImport) <= 1 /\ Cardinality(ogReader) <= 1

\* What the host was told is stored stays stored, and what it was told is undone stays undone,
\* as long as it has one transaction at a time: a statement, batch or import chunk acknowledged
\* outside a transaction, every row acknowledged inside one whose commit is acknowledged while
\* it is not aborted, and no row rolled back, to a savepoint or altogether.  Whatever else is
\* stored was written by a batch or a chunk that failed, by an import that was aborted or in
\* a transaction begun twice: none of these is undone, in_transaction or not
\* (handle_exec_batch, handle_data_import_abort).
OgPromisesKept ==
    /\ ogKept \subseteq Range(ogDb.rows)
    /\ ogDropped \cap Range(ogDb.rows) = {}
    /\ Range(ogDb.rows) \subseteq ogKept \cup ogLeft

\* A cursor hands out the rows there were at query/start, up to max_rows, each once and in
\* order, and a stream the bytes of the export, whatever is written, committed or rolled back
\* meanwhile and whatever sizes the host asks for; the end is announced with the last of them.
OgResultsAreWhole ==
    \A r \in ogReader :
        /\ IsPrefix(r.got, r.all)
        /\ r.ended /\ ~r.cancelled => r.got = r.all
        /\ r.got = r.all /\ r.got # <<>> => r.ended

\* An import's counts are those of the rows it tried: inserted counts the successes, and a
\* tracked failure carries the index of its row, over all chunks.
OgImportCountsAreTrue ==
    \A imp \in ogImport :
        /\ imp.inserted = Cardinality({i \in DOMAIN imp.tried : imp.tried[i]})
        /\ imp.track => imp.failed = {i - 1 : i \in {k \in DOMAIN imp.tried : ~imp.tried[k]}}
=============================================================================
