------------------------------- MODULE DuckDb -------------------------------
(***************************************************************************)
(* One connection of the DuckDB driver (src/extensions/ipc/duckdb/src:     *)
(* handlers.rs, state.rs, data_import.rs, data_import_support.rs).  A      *)
(* worker thread serves its requests one at a time, so a handler is one    *)
(* action.  The hard part is what several requests do together: exec/run,  *)
(* exec/batch, tx/*, data/import_* and the readers all share the one       *)
(* DuckDB transaction of the connection, and a reader (a cursor or an      *)
(* export stream) keeps no result: each page runs the query again with     *)
(* LIMIT and OFFSET.                                                       *)
(*                                                                         *)
(* The table is a sequence of row numbers.  Of DuckDB itself the model     *)
(* keeps the state of its transaction: a statement that fails may abort    *)
(* it, and a COMMIT may fail (a conflict with another connection); that    *)
(* of an aborted transaction either fails, with the transaction kept or    *)
(* gone, or passes and keeps nothing, as versions of DuckDB differ.        *)
(***************************************************************************)
EXTENDS Integers, Sequences, SequencesExt, FiniteSets

CONSTANTS
    DuStart,        \* rows in the table at first
    DuRows,         \* bound on the row numbers ever inserted
    DuPage,         \* largest page a cursor is asked for
    DuExportRows,   \* EXPORT_FETCH_ROWS
    DuMaxRows,      \* max_rows values; DuNoMax among them
    DuReaders,      \* bound on the readers opened
    DuJobs          \* bound on transactions, imports and batches

DuNoMax == -1

ASSUME DuAssumption ==
    /\ DuStart \in Nat /\ DuRows \in Nat /\ DuPage \in Nat /\ DuExportRows \in Nat \ {0}
    /\ DuMaxRows \subseteq Nat \cup {DuNoMax}

VARIABLES
    duDb,       \* DuckDB: rows (committed), work (in the transaction), txn, clean
    duNext,     \* next row number
    duTx,       \* the registered wire transaction: its rows, or absent ({} or {record})
    duImport,   \* the open import, {} or {record}
    duReader,   \* the open readers: cursors and export streams
    duUsed,     \* jobs begun so far
    duKept,     \* rows the host was told are stored
    duDropped   \* rows the host was told are not stored

duVars == <<duDb, duNext, duTx, duImport, duReader, duUsed, duKept, duDropped>>

-----------------------------------------------------------------------------
(* DuckDB, as the driver uses it *)

DuView == IF duDb.txn = "none" THEN duDb.rows ELSE duDb.work

DuBegin(db) == [db EXCEPT !.txn = "open", !.work = db.rows, !.clean = TRUE]

DuInsert(db, row) ==
    IF db.txn = "none" THEN [db EXCEPT !.rows = Append(@, row)]
    ELSE [db EXCEPT !.work = Append(@, row)]

DuFail(db, aborts) ==
    IF db.txn = "none" THEN db
    ELSE [db EXCEPT !.clean = FALSE, !.txn = IF aborts THEN "aborted" ELSE @]

DuRollback(db) == [db EXCEPT !.txn = "none", !.work = <<>>]

DuCommits(db) ==
    {[db |-> DuRollback(db), ok |-> FALSE]} \cup
    IF db.txn = "open"
    THEN {[db |-> [DuRollback(db) EXCEPT !.rows = db.work], ok |-> TRUE]}
    ELSE {[db |-> db, ok |-> FALSE], [db |-> DuRollback(db), ok |-> TRUE]}

-----------------------------------------------------------------------------
(* Readers.  CursorState and ExportStreamState page in the same way; a     *)
(* stream renders each page to bytes, two for a row and one for the CSV    *)
(* header, and hands them out from pending.  Every page runs the query     *)
(* again with LIMIT and OFFSET: one that fixes the order of its rows gives *)
(* the same sequence each time, another any order each time.               *)

DuReaderOf(kind, max, view, ordered) ==
    [kind |-> kind, ordered |-> ordered, next |-> 0, max |-> max, done |-> max = 0, cancelled |-> FALSE, pending |-> <<>>,
     header |-> FALSE, got |-> <<>>, ended |-> FALSE, view |-> view, still |-> TRUE]

\* remaining_max_rows caps what is asked for
DuLimit(r, asked) == IF r.max = DuNoMax \/ asked <= r.max - r.next THEN asked ELSE r.max - r.next

\* page_query_sql: what LIMIT and OFFSET cut out of the result; of one in no fixed order, any
\* rows of it.
DuPagesOf(r, limit) ==
    LET last == IF r.next + limit < Len(DuView) THEN r.next + limit ELSE Len(DuView)
        page == SubSeq(DuView, r.next + 1, last)
    IN  IF r.ordered THEN {page} ELSE {s \in [DOMAIN page -> Range(DuView)] : IsInjective(s)}

DuAdvance(r, fetched, requested) ==
    LET next == r.next + fetched
    IN  [r EXCEPT !.next = next, !.done = r.done \/ fetched < requested \/ next = r.max]

DuHeader == <<<<0, 0>>>>
DuRender(rows) == FlattenSeq([i \in DOMAIN rows |-> <<<<rows[i], 1>>, <<rows[i], 2>>>>])

\* fill_stream_buffer
DuFilled(r) ==
    LET limit == DuLimit(r, DuExportRows)
    IN  {DuAdvance([r EXCEPT !.pending = (IF r.header THEN <<>> ELSE DuHeader) \o DuRender(page),
                             !.header = TRUE], Len(page), limit) : page \in DuPagesOf(r, limit)}

\* every write disturbs the readers that are open: what they hand out is no longer followed
DuDisturbed == {[r EXCEPT !.still = FALSE, !.got = <<>>, !.view = <<>>] : r \in duReader}
DuGot(r, more) == IF r.still THEN r.got \o more ELSE <<>>

DuDrained(r, bytes) ==
    LET n == IF bytes < Len(r.pending) THEN bytes ELSE Len(r.pending)
    IN  [r EXCEPT !.pending = SubSeq(r.pending, n + 1, Len(r.pending)),
                  !.got = DuGot(r, SubSeq(r.pending, 1, n)),
                  !.ended = r.done /\ n = Len(r.pending)]

DuQuiet == UNCHANGED duReader
DuWrites == duReader' = DuDisturbed

DuQueryStart ==
    /\ Cardinality(duReader) < DuReaders
    /\ duDb.txn # "aborted"
    /\ \E max \in DuMaxRows, ordered \in BOOLEAN :
          duReader' = duReader \cup {DuReaderOf("cursor", max, DuView, ordered)}
    /\ UNCHANGED <<duDb, duNext, duTx, duImport, duUsed, duKept, duDropped>>

DuExport ==
    /\ Cardinality(duReader) < DuReaders
    /\ duDb.txn # "aborted"
    /\ \E max \in DuMaxRows, ordered \in BOOLEAN :
          duReader' = duReader \cup {DuReaderOf("stream", max, DuView, ordered)}
    /\ UNCHANGED <<duDb, duNext, duTx, duImport, duUsed, duKept, duDropped>>

\* fetch_cursor_page: n rows asked, 0 among the possible; a done cursor answers at once, and
\* a page that cannot be read puts the cursor back as it was
DuFetch(r, n) ==
    /\ r.kind = "cursor"
    /\ ~r.ended
    /\ LET limit == DuLimit(r, n)
           read == {[DuAdvance(r, Len(page), limit) EXCEPT !.got = DuGot(r, page)] : page \in DuPagesOf(r, limit)}
       IN  \E after \in IF r.done \/ limit = 0 \/ duDb.txn = "aborted" THEN {r} ELSE read :
              duReader' = (duReader \ {r}) \cup
                {[after EXCEPT !.ended = after.done]}

\* stream/read: fill when nothing is pending, then hand out at most the bytes asked
DuStreamRead(r, bytes) ==
    /\ r.kind = "stream"
    /\ ~r.ended
    /\ LET fills == r.pending = <<>> /\ ~r.done
       IN  /\ fills => duDb.txn # "aborted"
           /\ \E filled \in IF fills THEN DuFilled(r) ELSE {r} :
                 duReader' = (duReader \ {r}) \cup {DuDrained(filled, bytes)}

DuCursorCancel(r) ==
    /\ r.kind = "cursor"
    /\ duReader' = (duReader \ {r}) \cup {[r EXCEPT !.done = TRUE, !.cancelled = TRUE]}

DuReaderClose(r) == duReader' = duReader \ {r}

DuRead ==
    /\ \E r \in duReader :
        \/ \E n \in 0..DuPage : DuFetch(r, n)
        \/ \E bytes \in 1..3 : DuStreamRead(r, bytes)
        \/ DuCursorCancel(r)
        \/ DuReaderClose(r)
    /\ UNCHANGED <<duDb, duNext, duTx, duImport, duUsed, duKept, duDropped>>

-----------------------------------------------------------------------------
(* exec/run.  A request without tx_id passes validate_tx_for_conn always.  *)

DuExecRun(withTx) ==
    /\ withTx => duTx # {}
    /\ duNext <= DuRows
    /\ \/ /\ duDb.txn # "aborted"
          /\ duDb' = DuInsert(duDb, duNext)
          /\ duTx' = IF withTx THEN {[rows |-> t.rows \cup {duNext}] : t \in duTx} ELSE duTx
          /\ duKept' = IF duTx = {} /\ duImport = {} THEN duKept \cup {duNext} ELSE duKept
          /\ DuWrites
       \/ /\ \E aborts \in BOOLEAN : duDb' = DuFail(duDb, aborts)
          /\ UNCHANGED <<duTx, duKept>>
          /\ DuQuiet
    /\ duNext' = duNext + 1
    /\ UNCHANGED <<duImport, duUsed, duDropped>>

\* exec/run of a DELETE of the first row, outside any transaction
DuExecDelete ==
    /\ duDb.txn = "none"
    /\ duDb.rows # <<>>
    /\ duDb' = [duDb EXCEPT !.rows = Tail(@)]
    /\ duKept' = duKept \ {Head(duDb.rows)}
    /\ DuWrites
    /\ UNCHANGED <<duNext, duTx, duImport, duUsed, duDropped>>

-----------------------------------------------------------------------------
(* exec/batch *)

DuBatches == UNION {[1..n -> {"good", "bad"}] : n \in 1..2}

\* run_exec_batch: each statement in turn, to the first error when stop_on_error
DuRunBatch(db, statements, stop, aborts) ==
    LET Step(s, st) ==
            IF s.errors /\ stop THEN s
            ELSE IF st = "good" /\ s.db.txn # "aborted"
            THEN [s EXCEPT !.db = DuInsert(s.db, s.next), !.rows = @ \cup {s.next}, !.next = @ + 1]
            ELSE [s EXCEPT !.db = DuFail(s.db, aborts), !.errors = TRUE, !.next = @ + 1]
    IN  FoldLeft(Step, [db |-> db, rows |-> {}, errors |-> FALSE, next |-> duNext], statements)

\* Fault: a batch commits although a statement failed.
DuBatchCommand_commits(ran) == "COMMIT"

DuBatchCommand(ran) == IF ran.errors THEN "ROLLBACK" ELSE "COMMIT"

DuExecBatch(statements, inTx, stop) ==
    /\ duUsed < DuJobs
    /\ duNext + Len(statements) <= DuRows + 1
    /\ duUsed' = duUsed + 1
    /\ duNext' = duNext + Len(statements)
    /\ \E aborts \in BOOLEAN :
        IF inTx /\ duDb.txn # "none"
        THEN /\ duDb' = DuFail(duDb, aborts)
             /\ UNCHANGED <<duKept, duDropped>>
             /\ DuQuiet
        ELSE LET ran == DuRunBatch(IF inTx THEN DuBegin(duDb) ELSE duDb, statements, stop, aborts)
             IN  /\ DuWrites
                 /\ IF ~inTx
                    THEN /\ duDb' = ran.db
                         /\ duKept' = IF duTx = {} /\ duImport = {} THEN duKept \cup ran.rows ELSE duKept
                         /\ UNCHANGED duDropped
                    ELSE IF DuBatchCommand(ran) = "ROLLBACK"
                    THEN /\ duDb' = DuRollback(ran.db)
                         /\ duDropped' = duDropped \cup ran.rows
                         /\ UNCHANGED duKept
                    ELSE \E c \in DuCommits(ran.db) :
                         /\ duDb' = c.db
                         /\ duKept' = IF c.ok /\ ran.db.clean THEN duKept \cup ran.rows ELSE duKept
                         /\ duDropped' = IF c.ok /\ ran.errors THEN duDropped \cup ran.rows ELSE duDropped
    /\ UNCHANGED <<duTx, duImport>>

-----------------------------------------------------------------------------
(* tx/begin, tx/commit, tx/rollback.  The transaction stays registered     *)
(* when its COMMIT or ROLLBACK fails.                                      *)

DuTxBegin ==
    /\ duUsed < DuJobs
    /\ duTx = {}
    /\ duUsed' = duUsed + 1
    /\ \/ /\ duDb.txn = "none"
          /\ duDb' = DuBegin(duDb)
          /\ duTx' = {[rows |-> {}]}
       \/ /\ duDb.txn # "none"
          /\ \E aborts \in BOOLEAN : duDb' = DuFail(duDb, aborts)
          /\ duTx' = duTx
    /\ DuQuiet
    /\ UNCHANGED <<duNext, duImport, duKept, duDropped>>

DuTxCommit ==
    /\ \E t \in duTx, c \in DuCommits(duDb) :
        /\ duDb.txn # "none"
        /\ duDb' = c.db
        /\ duTx' = IF c.ok THEN {} ELSE duTx
        /\ duKept' = IF c.ok /\ duDb.clean THEN duKept \cup t.rows ELSE duKept
    /\ DuWrites
    /\ UNCHANGED <<duNext, duImport, duUsed, duDropped>>

DuTxRollback ==
    /\ duDb.txn # "none"
    /\ \E t \in duTx :
        /\ duDb' = DuRollback(duDb)
        /\ duDropped' = duDropped \cup t.rows
    /\ duTx' = {}
    /\ DuWrites
    /\ UNCHANGED <<duNext, duImport, duUsed, duKept>>

-----------------------------------------------------------------------------
(* data/import_*.  The import's BEGIN is not registered as a wire          *)
(* transaction; import_chunk is refused past its failure threshold but the *)
(* rows before stay in the transaction until import_abort.                 *)

DuImportBegin(limit) ==
    /\ duUsed < DuJobs
    /\ duTx = {}
    /\ duUsed' = duUsed + 1
    /\ \/ /\ duDb.txn = "none"
          /\ duDb' = DuBegin(duDb)
          /\ duImport' = {[rows |-> {}, inserted |-> 0, failed |-> 0, limit |-> limit]}
       \/ /\ duDb.txn # "none"
          /\ \E aborts \in BOOLEAN : duDb' = DuFail(duDb, aborts)
          /\ duImport' = duImport
    /\ DuQuiet
    /\ UNCHANGED <<duNext, duTx, duKept, duDropped>>

DuChunks == UNION {[1..n -> {"good", "short", "refused"}] : n \in 1..2}

\* run_import_chunk: a row of the wrong length is counted without asking DuckDB
DuRunChunk(imp, rows, aborts) ==
    LET Step(s, kind) ==
            IF s.stopped THEN s
            ELSE IF kind = "good" /\ s.db.txn # "aborted"
            THEN [s EXCEPT !.db = DuInsert(s.db, s.next), !.imp.rows = @ \cup {s.next},
                           !.imp.inserted = @ + 1, !.next = @ + 1]
            ELSE [s EXCEPT !.db = IF kind = "short" THEN @ ELSE DuFail(@, aborts),
                           !.imp.failed = @ + 1, !.next = @ + 1,
                           !.stopped = imp.limit # DuNoMax /\ s.imp.failed + 1 > imp.limit]
    IN  FoldLeft(Step, [db |-> duDb, imp |-> imp, next |-> duNext, stopped |-> FALSE], rows)

DuImportChunk ==
    /\ \E imp \in duImport, rows \in DuChunks, aborts \in BOOLEAN :
        /\ duNext + Len(rows) <= DuRows + 1
        /\ LET ran == DuRunChunk(imp, rows, aborts)
           IN  /\ duDb' = ran.db
               /\ duImport' = {ran.imp}
               /\ duNext' = ran.next
    /\ DuWrites
    /\ UNCHANGED <<duTx, duUsed, duKept, duDropped>>

\* the import is forgotten before COMMIT or ROLLBACK is tried
DuImportCommit ==
    /\ duDb.txn # "none"
    /\ \E imp \in duImport, c \in DuCommits(duDb) :
        /\ duDb' = c.db
        /\ duKept' = IF c.ok /\ duDb.clean THEN duKept \cup imp.rows ELSE duKept
    /\ duImport' = {}
    /\ DuWrites
    /\ UNCHANGED <<duNext, duTx, duUsed, duDropped>>

DuImportAbort ==
    /\ duDb.txn # "none"
    /\ \E imp \in duImport :
        /\ duDb' = DuRollback(duDb)
        /\ duDropped' = duDropped \cup imp.rows
    /\ duImport' = {}
    /\ DuWrites
    /\ UNCHANGED <<duNext, duTx, duUsed, duKept>>

\* conn/close: the worker ends and DuckDB rolls an open transaction back; what follows is the
\* next connection to the same file
DuClose ==
    /\ duDb' = DuRollback(duDb)
    /\ duTx' = {}
    /\ duImport' = {}
    /\ duReader' = {}
    /\ UNCHANGED <<duNext, duUsed, duKept, duDropped>>

-----------------------------------------------------------------------------
DuInit ==
    /\ duDb = [rows |-> [i \in 1..DuStart |-> i], work |-> <<>>, txn |-> "none", clean |-> TRUE]
    /\ duNext = DuStart + 1
    /\ duTx = {}
    /\ duImport = {}
    /\ duReader = {}
    /\ duUsed = 0
    /\ duKept = 1..DuStart
    /\ duDropped = {}

DuNext ==
    \/ DuQueryStart \/ DuExport \/ DuRead
    \/ \E withTx \in BOOLEAN : DuExecRun(withTx)
    \/ DuExecDelete
    \/ \E statements \in DuBatches, inTx, stop \in BOOLEAN : DuExecBatch(statements, inTx, stop)
    \/ DuTxBegin \/ DuTxCommit \/ DuTxRollback
    \/ \E limit \in {DuNoMax, 0} : DuImportBegin(limit)
    \/ DuImportChunk \/ DuImportCommit \/ DuImportAbort
    \/ DuClose

DuSpec == DuInit /\ [][DuNext]_duVars

-----------------------------------------------------------------------------
(* Properties *)

\* The connection's state has its type (ConnectionState).
DuTypeOK ==
    /\ duDb.txn \in {"none", "open", "aborted"}
    /\ Range(duDb.rows) \subseteq 1..DuRows /\ Range(duDb.work) \subseteq 1..DuRows
    /\ Cardinality(duTx) <= 1 /\ Cardinality(duImport) <= 1
    /\ duUsed \in 0..DuJobs /\ duNext \in 1..DuRows + 1

\* What the host was told is stored is stored and what it was told is not is not, however
\* exec/run, exec/batch, transactions and imports follow one another on the connection: an
\* acknowledged commit in whose transaction no statement failed kept all its rows, and a
\* rolled back transaction, aborted import or failed batch left none
\* (handle_exec_batch, handle_tx_commit, handle_data_import_commit, handle_data_import_abort).
DuPromisesKept ==
    /\ duKept \subseteq Range(duDb.rows)
    /\ duDropped \cap Range(duDb.rows) = {}

\* The rows a reader is to hand out.
DuAsked(r) == IF r.max = DuNoMax \/ r.max > Len(r.view) THEN r.view ELSE SubSeq(r.view, 1, r.max)

\* A cursor read while nobody writes, whatever page sizes the host asks for, says done only
\* when it has handed out as many rows as there were at query/start, up to max_rows, all of
\* them rows of the result; when the query fixes the order of its rows these are exactly the
\* rows, in order and each once.  Without an ORDER BY a row may come twice and another never
\* (fetch_cursor_page, page_query_sql, CursorState::advance).
DuPagesAreWhole ==
    \A r \in duReader :
        r.kind = "cursor" /\ r.still =>
            /\ Range(r.got) \subseteq Range(r.view) /\ Len(r.got) <= Len(DuAsked(r))
            /\ r.ended /\ ~r.cancelled => Len(r.got) = Len(DuAsked(r))
            /\ r.ordered => IsPrefix(r.got, DuAsked(r))

\* An export read in pieces of any size is one header and then as many rows as there were, no
\* row cut in two, and ends only when all of it was handed out; byte for byte the rows there
\* were when the query fixes their order (handle_stream_read, fill_stream_buffer).
DuExportIsWhole ==
    \A r \in duReader :
        r.kind = "stream" /\ r.still =>
            LET all == IF r.max = 0 THEN <<>> ELSE DuHeader \o DuRender(DuAsked(r))
            IN  /\ Len(r.got) <= Len(all) /\ (r.ended => Len(r.got) = Len(all))
                /\ \A i \in DOMAIN r.got :
                      /\ r.got[i] \in Range(all) \cup Range(DuRender(r.view)) /\ r.got[i][2] = all[i][2]
                      /\ r.got[i][2] = 2 => r.got[i][1] = r.got[i - 1][1]
                /\ r.ordered => IsPrefix(r.got, all)
=============================================================================
