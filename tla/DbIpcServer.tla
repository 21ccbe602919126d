----------------------------- MODULE DbIpcServer ------------------------------
(***************************************************************************)
(* The Go database runtime: internal/dbipc/server.go behind the loop of    *)
(* internal/ipc/socket.go.  Requests are handled one at a time (one        *)
(* connection, one loop, and Server.mu), so a handler is one action.  What *)
(* makes it hard is that the host may send any request at any time, with   *)
(* ids that are long gone, and that every call into the database may fail. *)
(*                                                                         *)
(* delivered, received, asked and batches are what the host has seen and   *)
(* asked for; only the properties read them.                               *)
(***************************************************************************)
EXTENDS Naturals, Sequences, FiniteSets, Functions

-------------------------------------------------------------------------------
(***************************************************************************)
(* What the Go database drivers see of database/sql and of the database    *)
(* behind it (external code, modelled from how internal/dbipc uses it).    *)
(*                                                                         *)
(*   pools    the sql.DB handles that are open, named by the conn_id they  *)
(*            were opened for                                              *)
(*   rows     the sql.Rows handed out, named by their cursor number        *)
(*   sqltx    the sql.Tx handed out, named by their transaction number     *)
(*   durable  the statements whose effect is visible to everyone           *)
(*   nextStmt numbers the executed statements, so that they can be told    *)
(*            apart                                                        *)
(*                                                                         *)
(* A sql.Tx is finished by the first Commit or Rollback, whatever that     *)
(* call returns; finishing it closes the rows that were opened in it, and  *)
(* reading them afterwards fails.  A closed sql.Rows never fails to close. *)
(***************************************************************************)

CONSTANTS MaxConns, MaxCursors, MaxTxs, MaxImports,  \* bounds on the ids handed out
          MaxStatements,                             \* bound on executed statements
          MaxResult,                                 \* largest query result
          SavepointNames,
          None

ASSUME BoundsAreNaturals ==
  /\ MaxConns \in Nat /\ MaxCursors \in Nat /\ MaxTxs \in Nat
  /\ MaxImports \in Nat /\ MaxStatements \in Nat /\ MaxResult \in Nat

ASSUME NoneIsNothing ==
  /\ None \notin Nat
  /\ None \notin SavepointNames

VARIABLES pools, rows, sqltx, durable, nextStmt

sqlVars == <<pools, rows, sqltx, durable, nextStmt>>

ConnIds   == 1 .. MaxConns
CursorIds == 1 .. MaxCursors
TxIds     == 1 .. MaxTxs
ImportIds == 1 .. MaxImports

\* An open result: the next row that Next would read, and the transaction it
\* belongs to, if any.  "dead": closed with an error that Err keeps returning.
Rows == [conn : ConnIds, tx : TxIds \cup {None}, total : 0 .. MaxResult,
         next : Nat, status : {"open", "closed", "dead"}]

\* One entry of a transaction's work: a statement or a savepoint (or, once the
\* savepoint is released, neither).
Work == [stmt : Nat, save : SavepointNames \cup {None}]
Statement(n)  == [stmt |-> n, save |-> None]
Savepoint(sp) == [stmt |-> 0, save |-> sp]

Tx == [conn : ConnIds, status : {"active", "committed", "aborted"}, work : Seq(Work)]

\* Who executed a durable statement: a transaction, an import, or neither.
Owners == [kind : {"tx"}, id : TxIds] \cup [kind : {"import"}, id : ImportIds]
            \cup [kind : {"auto", "batch"}, id : {0}]
Autocommit  == [kind |-> "auto", id |-> 0]
Batch       == [kind |-> "batch", id |-> 0]
OfTx(t)     == [kind |-> "tx", id |-> t]
OfImport(i) == [kind |-> "import", id |-> i]

SqlTypeOK ==
  /\ pools \subseteq ConnIds
  /\ DOMAIN rows \subseteq CursorIds /\ rows \in [DOMAIN rows -> Rows]
  /\ DOMAIN sqltx \subseteq TxIds /\ sqltx \in [DOMAIN sqltx -> Tx]
  /\ durable \subseteq [stmt : Nat, owner : Owners]
  /\ nextStmt \in Nat

SqlInit ==
  /\ pools = {}
  /\ rows = << >>
  /\ sqltx = << >>
  /\ durable = {}
  /\ nextStmt = 1

-----------------------------------------------------------------------------
\* f with x mapped to v.
Put(f, x, v) == [y \in DOMAIN f \cup {x} |-> IF y = x THEN v ELSE f[y]]

\* f without the keys in S.
Drop(f, S) == Restrict(f, DOMAIN f \ S)

-----------------------------------------------------------------------------
Active(t) == sqltx[t].status = "active"

\* The rows after the cursors in S have been closed.
Closed(S) == [c \in DOMAIN rows |->
                IF c \in S THEN [rows[c] EXCEPT !.status = "closed"] ELSE rows[c]]

\* r after the transactions in T have been finished.
Finished(r, T) == [c \in DOMAIN r |->
                     IF r[c].tx \in T /\ r[c].status = "open"
                     THEN [r[c] EXCEPT !.status = "dead"] ELSE r[c]]

\* The active transactions of T end with the given status.
EndTxs(T, status) == [t \in DOMAIN sqltx |->
                        IF t \in T /\ Active(t)
                        THEN [sqltx[t] EXCEPT !.status = status] ELSE sqltx[t]]

\* The statements a transaction makes durable when it commits.
WorkOf(t) == {[stmt |-> sqltx[t].work[i].stmt, owner |-> OfTx(t)] :
                 i \in {j \in DOMAIN sqltx[t].work : sqltx[t].work[j].stmt # 0}}

\* Where the savepoint sp was last set in w.
MarksOf(w, sp) == {i \in DOMAIN w : w[i].save = sp}
LastMark(w, sp) == CHOOSE i \in MarksOf(w, sp) : \A j \in MarksOf(w, sp) : j <= i

\* ROLLBACK TO SAVEPOINT forgets what came after the savepoint and keeps it.
RolledBackTo(w, sp) == SubSeq(w, 1, LastMark(w, sp))

\* RELEASE SAVEPOINT forgets the savepoint and the later ones, and no statement.
Released(w, sp) ==
  [i \in DOMAIN w |-> IF i >= LastMark(w, sp) THEN [w[i] EXCEPT !.save = None] ELSE w[i]]

\* The statements numbered by ks, counted from the next number, as owner's.
Fresh(ks, owner) == {[stmt |-> nextStmt + k - 1, owner |-> owner] : k \in ks}
-------------------------------------------------------------------------------
(* The server *)

CONSTANTS Databases,   \* values of conn/use
          StreamIds,   \* stream ids the host may choose
          MaxBatch     \* longest batch and longest import chunk

ASSUME MaxBatchIsNatural == MaxBatch \in Nat

VARIABLES serving, initialized, reply,
          conns, cursors, txs, imports, streams,
          nextConnID, nextCursor, nextTx, nextImport,
          delivered, received, asked, batches

tables   == <<conns, cursors, txs, imports, streams>>
counters == <<nextConnID, nextCursor, nextTx, nextImport>>
hostVars == <<delivered, received, asked, batches>>
vars == <<serving, initialized, reply, tables, counters, hostVars, sqlVars>>

Limits == 0 .. MaxResult \cup {None}

\* cursorState; rows is whether the pointer is set (the sql.Rows itself is
\* rows[c] of database/sql).
Cursors == [conn : ConnIds, rows : BOOLEAN, maxRows : Limits, fetched : Nat, done : BOOLEAN]
Imports == [conn : ConnIds, inserted : Nat, failed : Nat]
Streams == [len : 0 .. MaxResult, offset : Nat]

\* The error codes of errors.go.  The host is told which; no property tells them
\* apart, so reply keeps only that it was an error.
ErrorCodes == {"NotInitialized", "ServerIncompatible", "InvalidRequest", "MethodNotFound",
               "InvalidParams", "UnknownConnID", "UnknownCursorID", "ConnectionFailed",
               "SQLSyntax", "NotSupported"}
Reply(outcome) == reply' = IF outcome \in ErrorCodes THEN "error" ELSE outcome

TypeOK ==
  /\ serving \in BOOLEAN /\ initialized \in BOOLEAN
  /\ reply \in {"none", "ok", "error"}
  /\ DOMAIN conns \subseteq ConnIds /\ conns \in [DOMAIN conns -> Databases]
  /\ DOMAIN cursors \subseteq CursorIds /\ cursors \in [DOMAIN cursors -> Cursors]
  /\ DOMAIN txs \subseteq TxIds /\ txs \in [DOMAIN txs -> ConnIds]
  /\ DOMAIN imports \subseteq ImportIds /\ imports \in [DOMAIN imports -> Imports]
  /\ DOMAIN streams \subseteq StreamIds /\ streams \in [DOMAIN streams -> Streams]
  /\ nextConnID \in 1 .. MaxConns + 1 /\ nextCursor \in 1 .. MaxCursors + 1
  /\ nextTx \in 1 .. MaxTxs + 1 /\ nextImport \in 1 .. MaxImports + 1
  /\ SqlTypeOK

NewServer ==
  /\ serving = TRUE /\ initialized = FALSE /\ reply = "none"
  /\ conns = << >> /\ cursors = << >> /\ txs = << >> /\ imports = << >> /\ streams = << >>
  /\ nextConnID = 1 /\ nextCursor = 1 /\ nextTx = 1 /\ nextImport = 1
  /\ delivered = << >> /\ received = << >> /\ asked = << >> /\ batches = {}

Init == NewServer /\ SqlInit

-----------------------------------------------------------------------------
(* Handle *)

\* The loop runs and the request is not answered with ErrNotInitialized.
Ready == serving /\ initialized

\* An answer that leaves everything else as it was.
Answer(outcome) ==
  /\ Reply(outcome)
  /\ UNCHANGED <<serving, initialized, tables, counters, hostVars, sqlVars>>

\* Requests that fail before a handler touches anything: a version that is not
\* 2.0, an unknown method, params that do not decode, a business method before
\* init.
Rejected ==
  /\ serving
  /\ \/ Answer("InvalidRequest")
     \/ ~initialized /\ Answer("NotInitialized")
     \/ initialized /\ (Answer("InvalidParams") \/ Answer("MethodNotFound"))

HandleInit ==
  /\ serving
  /\ \/ Answer("ServerIncompatible")
     \/ /\ initialized' = TRUE /\ Reply("ok")
        /\ UNCHANGED <<serving, tables, counters, hostVars, sqlVars>>

HandlePing == serving /\ Answer("ok")

\* ServeConnected skips a message without an id.
Notification == serving /\ Answer("none")

\* ReadFrame or WriteFrame fails: the loop returns and the process exits.
HostGone ==
  /\ serving
  /\ serving' = FALSE
  /\ UNCHANGED <<initialized, reply, tables, counters, hostVars, sqlVars>>

-----------------------------------------------------------------------------
(* Closing what a connection owns.  The entries go whether or not closing   *)
(* them failed; a failure is only reported.                                 *)

closeCursorsForConn(c) == {x \in DOMAIN cursors : cursors[x].conn = c}
rollbackTxsForConn(c)  == {t \in DOMAIN txs : txs[t] = c}
\* Fault: closing a connection forgets its imports.
dropImportsForConn_none(c) == {}
dropImportsForConn(c)  == {i \in DOMAIN imports : imports[i].conn = c}

\* Rolling back a transaction that is already finished fails (sql.ErrTxDone).
RollbackFails(T) == \E t \in T : ~Active(t)

\* cursor.rows is set, so Close is called on it.
HasRows(S) == {c \in S : cursors[c].rows}

\* Closes the cursors S, rolls back the transactions T, drops the imports I and
\* closes the connections C; errors is whether a call that may fail did.
Close(S, T, I, C, errors) ==
  /\ cursors' = Drop(cursors, S)
  /\ txs' = Drop(txs, T)
  /\ imports' = Drop(imports, I)
  /\ conns' = Drop(conns, C)
  /\ pools' = pools \ C
  /\ rows' = Finished(Closed(HasRows(S)), T)
  /\ sqltx' = EndTxs(T, "aborted")
  /\ Reply(IF errors \/ RollbackFails(T) THEN "ConnectionFailed" ELSE "ok")

\* closeAll, then ServeConnected leaves its loop.
HandleShutdown ==
  /\ serving
  /\ \E errors \in BOOLEAN :
        Close(DOMAIN cursors, DOMAIN txs, DOMAIN imports, DOMAIN conns, errors)
  /\ streams' = << >>
  /\ serving' = FALSE
  /\ UNCHANGED <<initialized, counters, hostVars, durable, nextStmt>>

-----------------------------------------------------------------------------
(* conn/* *)

\* The test connection is closed again on every path.
handleConnTest ==
  /\ Ready
  /\ \E r \in {"ok", "InvalidParams", "ConnectionFailed"} : Answer(r)

\* A pool that does not answer the ping is closed again.
handleConnOpen_from_zero ==
  /\ Ready
  /\ nextConnID <= MaxConns
  /\ \E db \in Databases : conns' = Put(conns, nextConnID - 1, db)
  /\ pools' = pools \cup {nextConnID - 1}
  /\ nextConnID' = nextConnID + 1
  /\ Reply("ok")
  /\ UNCHANGED <<serving, initialized, cursors, txs, imports, streams, nextCursor,
                 nextTx, nextImport, hostVars, rows, sqltx, durable, nextStmt>>
handleConnOpen ==
  /\ Ready
  /\ \/ \E r \in {"InvalidParams", "ConnectionFailed"} : Answer(r)
     \/ /\ nextConnID <= MaxConns
        /\ \E db \in Databases : conns' = Put(conns, nextConnID, db)
        /\ pools' = pools \cup {nextConnID}
        /\ nextConnID' = nextConnID + 1
        /\ Reply("ok")
        /\ UNCHANGED <<serving, initialized, cursors, txs, imports, streams, nextCursor,
                       nextTx, nextImport, hostVars, rows, sqltx, durable, nextStmt>>

handleConnClose(c) ==
  /\ Ready
  /\ \/ c \notin DOMAIN conns /\ Answer("UnknownConnID")
     \/ /\ c \in DOMAIN conns
        /\ \E errors \in BOOLEAN :
             Close(closeCursorsForConn(c), rollbackTxsForConn(c), dropImportsForConn(c), {c}, errors)
        /\ UNCHANGED <<serving, initialized, streams, counters, hostVars, durable, nextStmt>>

handleConnPing(c) ==
  /\ Ready
  /\ \/ c \notin DOMAIN conns /\ Answer("UnknownConnID")
     \/ c \in DOMAIN conns /\ \E r \in {"ok", "ConnectionFailed"} : Answer(r)

handleConnUse(c, db) ==
  /\ Ready
  /\ \/ c \notin DOMAIN conns /\ Answer("UnknownConnID")
     \/ /\ c \in DOMAIN conns
        /\ conns' = Put(conns, c, db)
        /\ Reply("ok")
        /\ UNCHANGED <<serving, initialized, cursors, txs, imports, streams, counters,
                       hostVars, sqlVars>>

\* A schema method runs a query on the pool, reads its rows to the end and closes
\* them before it answers.
QueryObjects(c) ==
  \/ c \notin DOMAIN conns /\ Answer("UnknownConnID")
  \/ c \in DOMAIN conns /\ \E r \in {"ok", "SQLSyntax", "InvalidParams", "NotSupported"} : Answer(r)

handleSchema(c) == Ready /\ QueryObjects(c)

handleSchemaObjectView(c) == Ready /\ QueryObjects(c)

\* ddl/* only builds SQL, with the quotes of the connection if one is named.
handleDdlBuild ==
  /\ Ready
  /\ \E r \in {"ok", "InvalidParams", "NotSupported"} : Answer(r)

-----------------------------------------------------------------------------
(* query/start, cursor/* *)

\* txForRequest: the transaction exists and belongs to the connection.
TxForRequest_any_connection(t, c) == t \in DOMAIN txs
TxForRequest(t, c) == t \in DOMAIN txs /\ txs[t] = c

\* The query succeeds; its result has total rows.
QueryStarts(c, t, max, total) ==
  /\ nextCursor <= MaxCursors
  /\ rows' = Put(rows, nextCursor, [conn |-> c, tx |-> t, total |-> total,
                                    next |-> 1, status |-> "open"])
  /\ cursors' = Put(cursors, nextCursor, [conn |-> c, rows |-> TRUE, maxRows |-> max,
                                          fetched |-> 0, done |-> FALSE])
  /\ delivered' = Put(delivered, nextCursor,
                      [got |-> << >>, max |-> max, failed |-> FALSE, ended |-> FALSE])
  /\ nextCursor' = nextCursor + 1
  /\ Reply("ok")
  /\ UNCHANGED <<serving, initialized, conns, txs, imports, streams, nextConnID, nextTx,
                 nextImport, received, asked, batches, pools, sqltx, durable, nextStmt>>

handleQueryStart(c, t, max) ==
  /\ Ready
  /\ \/ c \notin DOMAIN conns /\ Answer("UnknownConnID")
     \/ /\ c \in DOMAIN conns
        /\ \/ t # None /\ ~TxForRequest(t, c) /\ Answer("InvalidParams")
           \/ (t = None \/ TxForRequest(t, c)) /\ Answer("SQLSyntax")
           \/ /\ t = None \/ (TxForRequest(t, c) /\ Active(t))
              /\ \E total \in 0 .. MaxResult : QueryStarts(c, t, max, total)

MinOf(a, b) == IF a <= b THEN a ELSE b

\* How many rows fetchRows may still read for a batch of n, and how many there are.
Wanted(cur, n) ==
  IF cur.maxRows = None \/ cur.fetched + n <= cur.maxRows THEN n ELSE cur.maxRows - cur.fetched
Left(r) == r.total + 1 - r.next

\* The rows numbered from .. from + k - 1.
Numbers(from, k) == [i \in 1 .. k |-> from + i - 1]

\* fetchRows without an error: k rows, read to the end of the result (eof) or
\* up to max_rows; then the rows are closed.  Close may fail if there were more.
FetchSucceeds(c, n) ==
  LET cur == cursors[c]
      r == rows[c]
      k == MinOf(Wanted(cur, n), Left(r))
      eof == Left(r) < Wanted(cur, n)
      done == eof \/ (cur.maxRows # None /\ cur.fetched + k >= cur.maxRows)
  IN /\ rows' = [rows EXCEPT ![c].next = @ + k,
                             ![c].status = IF done THEN "closed" ELSE @]
     /\ \/ /\ cursors' = [cursors EXCEPT ![c].fetched = @ + k, ![c].done = done, ![c].rows = ~done]
           /\ delivered' = [delivered EXCEPT ![c].got = @ \o Numbers(r.next, k), ![c].ended = done]
           /\ Reply("ok")
        \/ /\ done /\ ~eof
           /\ cursors' = [cursors EXCEPT ![c].fetched = @ + k, ![c].done = TRUE]
           /\ delivered' = [delivered EXCEPT ![c].failed = TRUE]
           /\ Reply("SQLSyntax")

\* fetchRows fails after it has read k rows, which are lost: Scan rejects a row
\* (the result stays open behind it) or Next fails (the result is dead).
FetchFails(c, n) ==
  \E k \in 0 .. MaxResult :
     /\ k < Wanted(cursors[c], n)
     /\ \/ k < Left(rows[c]) /\ rows' = [rows EXCEPT ![c].next = @ + k + 1]
        \/ k <= Left(rows[c]) /\ rows' = [rows EXCEPT ![c].next = @ + k, ![c].status = "dead"]
     /\ delivered' = [delivered EXCEPT ![c].failed = TRUE]
     /\ Reply("SQLSyntax")
     /\ UNCHANGED cursors

handleCursorFetch(c, n) ==
  /\ Ready
  /\ \/ c \notin DOMAIN cursors /\ Answer("UnknownCursorID")
     \/ /\ c \in DOMAIN cursors
        /\ \/ (cursors[c].done \/ ~cursors[c].rows) /\ Answer("ok")
           \/ /\ ~cursors[c].done /\ cursors[c].rows
              /\ \/ rows[c].status = "open" /\ (FetchSucceeds(c, n) \/ FetchFails(c, n))
                 \/ /\ rows[c].status = "dead"
                    /\ delivered' = [delivered EXCEPT ![c].failed = TRUE]
                    /\ Reply("SQLSyntax")
                    /\ UNCHANGED <<rows, cursors>>
              /\ UNCHANGED <<serving, initialized, conns, txs, imports, streams, counters,
                             received, asked, batches, pools, sqltx, durable, nextStmt>>

\* closeCursor: the pointer is cleared and the cursor done even if Close fails,
\* which it can only do on rows that were still open.
closeCursor_without_Close(c, keep) ==
  /\ rows' = rows
  /\ Reply("ok")
  /\ cursors' = IF keep THEN [cursors EXCEPT ![c].rows = FALSE, ![c].done = TRUE]
                        ELSE Drop(cursors, {c})
closeCursor(c, keep) ==
  /\ rows' = Closed(HasRows({c}))
  /\ \/ /\ cursors[c].rows /\ rows[c].status = "open"
        /\ Reply("SQLSyntax")
        /\ cursors' = [cursors EXCEPT ![c].rows = FALSE, ![c].done = TRUE]
     \/ /\ Reply("ok")
        /\ cursors' = IF keep THEN [cursors EXCEPT ![c].rows = FALSE, ![c].done = TRUE]
                              ELSE Drop(cursors, {c})

handleCursorClose(c) ==
  /\ Ready
  /\ \/ c \notin DOMAIN cursors /\ Answer("UnknownCursorID")
     \/ /\ c \in DOMAIN cursors
        /\ closeCursor(c, FALSE)
        /\ UNCHANGED <<serving, initialized, conns, txs, imports, streams, counters,
                       hostVars, pools, sqltx, durable, nextStmt>>

\* The id stays known until cursor/close.
handleCursorCancel(c) ==
  /\ Ready
  /\ \/ c \notin DOMAIN cursors /\ Answer("UnknownCursorID")
     \/ /\ c \in DOMAIN cursors
        /\ closeCursor(c, TRUE)
        /\ UNCHANGED <<serving, initialized, conns, txs, imports, streams, counters,
                       hostVars, pools, sqltx, durable, nextStmt>>

-----------------------------------------------------------------------------
(* exec/*, tx/* *)

\* A statement fails without effect ("exec"), has its effect but no row count
\* ("affected"), or works.
Results == {"ok", "exec", "affected"}

\* Outside a transaction the statement is visible at once, inside it becomes part
\* of the transaction's work; a finished transaction executes nothing.
Execute(t, c) ==
  \/ t = None /\ durable' = durable \cup Fresh({1}, Autocommit) /\ UNCHANGED sqltx
  \/ /\ TxForRequest(t, c) /\ Active(t)
     /\ sqltx' = [sqltx EXCEPT ![t].work = Append(@, Statement(nextStmt))]
     /\ UNCHANGED durable

handleExecRun(c, t, result) ==
  /\ Ready
  /\ \/ c \notin DOMAIN conns /\ Answer("UnknownConnID")
     \/ /\ c \in DOMAIN conns
        /\ \/ t # None /\ ~TxForRequest(t, c) /\ Answer("InvalidParams")
           \/ (t = None \/ TxForRequest(t, c)) /\ Answer("SQLSyntax")
           \/ /\ result # "exec"
              /\ nextStmt <= MaxStatements
              /\ Execute(t, c)
              /\ nextStmt' = nextStmt + 1
              /\ Reply(IF result = "ok" THEN "ok" ELSE "SQLSyntax")
              /\ UNCHANGED <<serving, initialized, tables, counters, hostVars, pools, rows>>

\* The statements of a batch that are executed, and the ones that have an effect.
Attempted(results, stop) ==
  {k \in DOMAIN results : ~stop \/ \A j \in 1 .. k - 1 : results[j] = "ok"}
Effective(results, stop) == {k \in Attempted(results, stop) : results[k] # "exec"}

\* errorsOut is not empty.
BatchFailed_by_last(results, stop) == results[Len(results)] # "ok"
BatchFailed(results, stop) == \E k \in Attempted(results, stop) : results[k] # "ok"

\* In a transaction any error rolls everything back; a failed commit leaves it
\* open whether the database committed.
handleExecBatch(c, results, stop, in_transaction) ==
  /\ Ready
  /\ \/ c \notin DOMAIN conns /\ Answer("UnknownConnID")
     \/ c \in DOMAIN conns /\ in_transaction /\ Answer("SQLSyntax")
     \/ /\ c \in DOMAIN conns
        /\ nextStmt + Len(results) <= MaxStatements + 1
        /\ LET failed == BatchFailed(results, stop)
               effect == Fresh(Effective(results, stop), Batch)
           IN \/ /\ ~in_transaction
                 /\ durable' = durable \cup effect /\ Reply("ok")
              \/ /\ in_transaction /\ failed
                 /\ durable' = durable /\ (Reply("ok") \/ Reply("SQLSyntax"))
              \/ /\ in_transaction /\ ~failed
                 /\ \/ durable' = durable \cup effect /\ (Reply("ok") \/ Reply("SQLSyntax"))
                    \/ durable' = durable /\ Reply("SQLSyntax")
        /\ nextStmt' = nextStmt + Len(results)
        /\ batches' = IF in_transaction
                      THEN batches \cup {[first |-> nextStmt, size |-> Len(results)]} ELSE batches
        /\ UNCHANGED <<serving, initialized, tables, counters, delivered, received, asked,
                       pools, rows, sqltx>>

handleTxBegin(c) ==
  /\ Ready
  /\ \/ c \notin DOMAIN conns /\ Answer("UnknownConnID")
     \/ c \in DOMAIN conns /\ Answer("SQLSyntax")
     \/ /\ c \in DOMAIN conns
        /\ nextTx <= MaxTxs
        /\ sqltx' = Put(sqltx, nextTx, [conn |-> c, status |-> "active", work |-> << >>])
        /\ txs' = Put(txs, nextTx, c)
        /\ nextTx' = nextTx + 1
        /\ Reply("ok")
        /\ UNCHANGED <<serving, initialized, conns, cursors, imports, streams, nextConnID,
                       nextCursor, nextImport, hostVars, pools, rows, durable, nextStmt>>

\* A failed commit answers an error and keeps the entry, although the sql.Tx is
\* finished; the database may or may not have committed.
handleTxCommit(t) ==
  /\ Ready
  /\ \/ t \notin DOMAIN txs /\ Answer("InvalidParams")
     \/ t \in DOMAIN txs /\ ~Active(t) /\ Answer("SQLSyntax")
     \/ /\ t \in DOMAIN txs /\ Active(t)
        /\ \/ /\ sqltx' = EndTxs({t}, "committed")
              /\ durable' = durable \cup WorkOf(t)
              /\ \/ Reply("ok") /\ txs' = Drop(txs, {t})
                 \/ Reply("SQLSyntax") /\ txs' = txs
           \/ /\ sqltx' = EndTxs({t}, "aborted")
              /\ Reply("SQLSyntax")
              /\ UNCHANGED <<durable, txs>>
        /\ rows' = Finished(rows, {t})
        /\ asked' = Put(asked, t, reply')
        /\ UNCHANGED <<serving, initialized, conns, cursors, imports, streams, counters,
                       delivered, received, batches, pools, nextStmt>>

handleTxRollback(t) ==
  /\ Ready
  /\ \/ t \notin DOMAIN txs /\ Answer("InvalidParams")
     \/ t \in DOMAIN txs /\ ~Active(t) /\ Answer("SQLSyntax")
     \/ /\ t \in DOMAIN txs /\ Active(t)
        /\ sqltx' = EndTxs({t}, "aborted")
        /\ \/ Reply("ok") /\ txs' = Drop(txs, {t})
           \/ Reply("SQLSyntax") /\ txs' = txs
        /\ rows' = Finished(rows, {t})
        /\ UNCHANGED <<serving, initialized, conns, cursors, imports, streams, counters,
                       hostVars, pools, durable, nextStmt>>

\* tx/savepoint, tx/release and tx/rollback with to_savepoint execute one SQL
\* statement in the transaction, which turns its work into work.
InTransaction(t, work) ==
  /\ sqltx' = [sqltx EXCEPT ![t].work = work]
  /\ Reply("ok")
  /\ UNCHANGED <<serving, initialized, tables, counters, hostVars, pools, rows, durable, nextStmt>>

handleTxSavepoint(t, sp) ==
  /\ Ready
  /\ \/ t \notin DOMAIN txs /\ Answer("InvalidParams")
     \/ t \in DOMAIN txs /\ (Answer("SQLSyntax") \/ Answer("InvalidParams"))
     \/ /\ t \in DOMAIN txs /\ Active(t)
        /\ Len(sqltx[t].work) < MaxStatements
        /\ InTransaction(t, Append(sqltx[t].work, Savepoint(sp)))

handleTxRelease(t, sp) ==
  /\ Ready
  /\ \/ t \notin DOMAIN txs /\ Answer("InvalidParams")
     \/ t \in DOMAIN txs /\ (Answer("SQLSyntax") \/ Answer("InvalidParams"))
     \/ /\ t \in DOMAIN txs /\ Active(t) /\ MarksOf(sqltx[t].work, sp) # {}
        /\ InTransaction(t, Released(sqltx[t].work, sp))

handleTxRollbackTo(t, sp) ==
  /\ Ready
  /\ \/ t \notin DOMAIN txs /\ Answer("InvalidParams")
     \/ t \in DOMAIN txs /\ Answer("SQLSyntax")
     \/ /\ t \in DOMAIN txs /\ Active(t) /\ MarksOf(sqltx[t].work, sp) # {}
        /\ InTransaction(t, RolledBackTo(sqltx[t].work, sp))

-----------------------------------------------------------------------------
(* data/*, stream/* *)

\* The whole result is read into memory; a stream of the same id is replaced.
handleDataExport(c, s, len) ==
  /\ Ready
  /\ \/ c \notin DOMAIN conns /\ Answer("UnknownConnID")
     \/ c \in DOMAIN conns /\ (Answer("InvalidParams") \/ Answer("NotSupported"))
     \/ /\ c \in DOMAIN conns
        /\ streams' = Put(streams, s, [len |-> len, offset |-> 0])
        /\ received' = Put(received, s, [bytes |-> << >>, len |-> len, ended |-> FALSE])
        /\ Reply("ok")
        /\ UNCHANGED <<serving, initialized, conns, cursors, txs, imports, counters,
                       delivered, asked, batches, sqlVars>>

\* Where the chunk that is read next ends, and whether it is the last one.
ChunkEnd(st, maxBytes) == MinOf(st.offset + maxBytes, st.len)
\* Fault: the last byte is taken for sent one chunk too early.
LastChunk_early(st, end) == end + 1 >= st.len
LastChunk(st, end) == end >= st.len

\* streamReadChunk; the stream is forgotten with its last byte.
handleStreamRead(s, maxBytes) ==
  /\ Ready
  /\ \/ s \notin DOMAIN streams /\ Answer("InvalidParams")
     \/ /\ s \in DOMAIN streams
        /\ LET st == streams[s]
               end == ChunkEnd(st, maxBytes)
               done == LastChunk(st, end)
           IN /\ streams' = IF done THEN Drop(streams, {s}) ELSE [streams EXCEPT ![s].offset = end]
              /\ received' = [received EXCEPT
                                ![s].bytes = @ \o Numbers(st.offset + 1, end - st.offset),
                                ![s].ended = done]
        /\ Reply("ok")
        /\ UNCHANGED <<serving, initialized, conns, cursors, txs, imports, counters,
                       delivered, asked, batches, sqlVars>>

handleStreamClose(s) ==
  /\ Ready
  /\ streams' = Drop(streams, {s})
  /\ Reply("ok")
  /\ UNCHANGED <<serving, initialized, conns, cursors, txs, imports, counters, hostVars, sqlVars>>

handleDataImportBegin(c) ==
  /\ Ready
  /\ \/ c \notin DOMAIN conns /\ Answer("UnknownConnID")
     \/ c \in DOMAIN conns /\ Answer("NotSupported")
     \/ /\ c \in DOMAIN conns
        /\ nextImport <= MaxImports
        /\ imports' = Put(imports, nextImport, [conn |-> c, inserted |-> 0, failed |-> 0])
        /\ nextImport' = nextImport + 1
        /\ Reply("ok")
        /\ UNCHANGED <<serving, initialized, conns, cursors, txs, streams, nextConnID,
                       nextCursor, nextTx, hostVars, sqlVars>>

\* What a chunk of n rows adds to imp.inserted when the rows in bad fail.
Inserted(n, bad) == Cardinality((1 .. n) \ bad)

\* Each of the n rows is an INSERT of its own outside any transaction; the rows
\* in bad fail and the others stay.
handleDataImportChunk(i, n, bad) ==
  /\ Ready
  /\ \/ i \notin DOMAIN imports /\ Answer("InvalidParams")
     \/ i \in DOMAIN imports /\ imports[i].conn \notin DOMAIN conns /\ Answer("UnknownConnID")
     \/ i \in DOMAIN imports /\ imports[i].conn \in DOMAIN conns /\ Answer("InvalidParams")
     \/ /\ i \in DOMAIN imports /\ imports[i].conn \in DOMAIN conns
        /\ nextStmt + n <= MaxStatements + 1
        /\ durable' = durable \cup Fresh((1 .. n) \ bad, OfImport(i))
        /\ imports' = [imports EXCEPT ![i].inserted = @ + Inserted(n, bad),
                                      ![i].failed = @ + Cardinality(bad)]
        /\ nextStmt' = nextStmt + n
        /\ Reply("ok")
        /\ UNCHANGED <<serving, initialized, conns, cursors, txs, streams, counters,
                       hostVars, pools, rows, sqltx>>

\* data/import_commit and data/import_abort both only forget the import.
ForgetImport(i) ==
  /\ imports' = Drop(imports, {i})
  /\ Reply("ok")
  /\ UNCHANGED <<serving, initialized, conns, cursors, txs, streams, counters, hostVars, sqlVars>>

handleDataImportCommit(i) ==
  /\ Ready
  /\ \/ i \notin DOMAIN imports /\ Answer("InvalidParams")
     \/ i \in DOMAIN imports /\ ForgetImport(i)

handleDataImportAbort(i) == Ready /\ ForgetImport(i)

-----------------------------------------------------------------------------
BatchResults == UNION {[1 .. n -> Results] : n \in 1 .. MaxBatch}

ConnRequest ==
  \/ handleConnTest \/ handleConnOpen \/ handleDdlBuild
  \/ \E c \in ConnIds :
        \/ handleConnClose(c) \/ handleConnPing(c)
        \/ handleSchema(c) \/ handleSchemaObjectView(c)
        \/ \E db \in Databases : handleConnUse(c, db)

CursorRequest ==
  \/ \E c \in ConnIds, t \in TxIds \cup {None}, max \in Limits : handleQueryStart(c, t, max)
  \/ \E c \in CursorIds :
        \/ \E n \in 1 .. MaxResult + 1 : handleCursorFetch(c, n)
        \/ handleCursorClose(c) \/ handleCursorCancel(c)

ExecRequest ==
  \E c \in ConnIds :
     \/ \E t \in TxIds \cup {None}, result \in Results : handleExecRun(c, t, result)
     \/ \E results \in BatchResults, stop \in BOOLEAN, in_transaction \in BOOLEAN :
           handleExecBatch(c, results, stop, in_transaction)

TxRequest ==
  \/ \E c \in ConnIds : handleTxBegin(c)
  \/ \E t \in TxIds :
        \/ handleTxCommit(t) \/ handleTxRollback(t)
        \/ \E sp \in SavepointNames :
              handleTxSavepoint(t, sp) \/ handleTxRelease(t, sp) \/ handleTxRollbackTo(t, sp)

DataRequest ==
  \/ \E c \in ConnIds :
        \/ handleDataImportBegin(c)
        \/ \E s \in StreamIds, len \in 0 .. MaxResult : handleDataExport(c, s, len)
  \/ \E s \in StreamIds :
        \/ \E maxBytes \in 1 .. MaxResult + 1 : handleStreamRead(s, maxBytes)
        \/ handleStreamClose(s)
  \/ \E i \in ImportIds :
        \/ \E n \in 0 .. MaxBatch : \E bad \in SUBSET (1 .. n) : handleDataImportChunk(i, n, bad)
        \/ handleDataImportCommit(i) \/ handleDataImportAbort(i)

Next ==
  \/ Rejected \/ HandleInit \/ HandlePing \/ HandleShutdown \/ Notification \/ HostGone
  \/ ConnRequest \/ CursorRequest \/ ExecRequest \/ TxRequest \/ DataRequest

Spec == Init /\ [][Next]_vars

-----------------------------------------------------------------------------
(* Properties *)

\* Every cursor, transaction and import the server knows belongs to a connection
\* that is still open: conn/close takes all of them with it (handleConnClose).
OwnedByOpenConnection ==
  /\ \A c \in DOMAIN cursors : cursors[c].conn \in DOMAIN conns
  /\ \A t \in DOMAIN txs : txs[t] \in DOMAIN conns
  /\ \A i \in DOMAIN imports : imports[i].conn \in DOMAIN conns

\* Nothing is open in database/sql that no id leads to: pools, results and
\* transactions are closed on every path that forgets them, failures included.
NothingLeaks ==
  /\ pools = DOMAIN conns
  /\ \A c \in DOMAIN rows :
        rows[c].status = "open" => c \in DOMAIN cursors /\ cursors[c].rows /\ ~cursors[c].done
  /\ \A t \in DOMAIN sqltx : Active(t) => t \in DOMAIN txs

\* A result that can still be read and was opened in a transaction lives on the
\* connection of that transaction, and the transaction is not finished
\* (txForRequest; Commit and Rollback end the results of a transaction).
ResultsFollowTheirTransaction ==
  \A c \in DOMAIN rows :
     rows[c].status = "open" /\ rows[c].tx # None =>
        /\ rows[c].tx \in DOMAIN txs /\ Active(rows[c].tx)
        /\ txs[rows[c].tx] = cursors[c].conn

\* What cursor/fetch hands out: rows in the order of the result, none twice and
\* never more than max_rows, errors or not.  Without an error there is no gap,
\* and done means that nothing up to max_rows is missing (handleCursorFetch,
\* fetchRows).
RowsArriveInOrder ==
  \A c \in DOMAIN delivered :
     LET d == delivered[c]
         k == Len(d.got)
     IN /\ \A i \in 1 .. k - 1 : d.got[i] < d.got[i + 1]
        /\ d.max # None => k <= d.max
        /\ ~d.failed => d.got = Numbers(1, k)
        /\ ~d.failed /\ d.ended =>
              k = IF d.max = None THEN rows[c].total ELSE MinOf(d.max, rows[c].total)

\* The chunks of stream/read put together are the exported bytes, from the first
\* to the last one when done was answered (streamReadChunk).
StreamArrivesWhole ==
  \A s \in DOMAIN received :
     LET r == received[s]
     IN /\ r.bytes = Numbers(1, Len(r.bytes))
        /\ r.ended => Len(r.bytes) = r.len
        /\ s \in DOMAIN streams => Len(r.bytes) = streams[s].offset /\ ~r.ended

\* What a transaction did is visible only if the host asked to commit it, and
\* then all of it, and if the commit was answered without an error it is visible:
\* whatever closes the connection or the server and whatever fails
\* (handleTxCommit, rollbackTxsForConn, closeAll).  asked[t] is the answer.
TransactionsAreAtomic ==
  \A t \in DOMAIN sqltx :
     LET mine == {d \in durable : d.owner = OfTx(t)}
     IN \/ mine = {} /\ (t \in DOMAIN asked => asked[t] = "error" \/ WorkOf(t) = {})
        \/ mine = WorkOf(t) /\ t \in DOMAIN asked /\ ~Active(t)

\* A batch with in_transaction leaves all of its statements behind or none
\* (handleExecBatch).
BatchesAreAtomic ==
  \A b \in batches :
     LET all == b.first .. b.first + b.size - 1
         mine == {d.stmt : d \in durable} \cap all
     IN mine = {} \/ mine = all

\* The number an import reports is the number of rows it has put into the table,
\* over all chunks and whatever rows failed (handleDataImportChunk).
ImportCountsAreTrue ==
  \A i \in DOMAIN imports :
     imports[i].inserted = Cardinality({d \in durable : d.owner = OfImport(i)})

\* What the host groups, a transaction or a batch, takes effect as a whole or not
\* at all (handleTxCommit, handleExecBatch).
WorkIsAtomic == TransactionsAreAtomic /\ BatchesAreAtomic

\* What crosses in pieces arrives whole: the rows of a cursor, the bytes of a stream
\* and the rows of an import (handleCursorFetch, streamReadChunk,
\* handleDataImportChunk).
PiecesAddUp == RowsArriveInOrder /\ StreamArrivesWhole /\ ImportCountsAreTrue
===============================================================================
