--------------------------- MODULE BufferedDrivers ---------------------------
(***************************************************************************)
(* The ClickHouse and TDengine drivers (src/extensions/ipc/clickhouse/src  *)
(* and tdengine/src: driver.rs, handlers.rs, state.rs and the session):    *)
(* the handshake, the connections of the process, conn/use, exec/run,      *)
(* exec/batch and cursors over a result that is fetched whole.  Neither    *)
(* has transactions; a statement takes effect at once, in the database the *)
(* connection has chosen.  A ClickHouse statement can be abandoned by its  *)
(* timeout, and the server may still execute it later.                     *)
(*                                                                         *)
(* A database holds one table, a sequence of row numbers.  The server and  *)
(* its other clients, who create and drop databases, are external.         *)
(***************************************************************************)
EXTENDS Integers, Sequences, SequencesExt, FiniteSets

CONSTANTS
    BdKinds,        \* subset of {"clickhouse", "tdengine"}
    BdConns,        \* connection ids, each issued once
    BdDatabases,
    BdRows,         \* bound on the row numbers ever written
    BdDefault,      \* DEFAULT_CURSOR_FETCH_SIZE
    BdMaxRows       \* max_rows values; BdNone among them

BdNone == -1        \* an optional number that is not given

ASSUME BdAssumption ==
    /\ BdKinds \subseteq {"clickhouse", "tdengine"}
    /\ BdRows \in Nat /\ BdDefault \in Nat \ {0}

VARIABLES
    bdKind,     \* which driver this process is
    bdReady,    \* initialized
    bdConn,     \* connection -> [st, db, cursor]: db the chosen database, a set of at most one
    bdTables,   \* existing database -> its rows
    bdLate,     \* abandoned statements the server may still execute: [db, row]
    bdNext,     \* next row number
    bdKept      \* rows acknowledged by exec/run, exec/batch and query/start: [db, row, via]

bdVars == <<bdKind, bdReady, bdConn, bdTables, bdLate, bdNext, bdKept>>
BdExists == DOMAIN bdTables
BdClosed == [st |-> "closed", db |-> {}, cursor |-> {}]
\* A request is served in the connection's database; one that was dropped fails every request
\* of a ClickHouse session, which names it in each of them.
BdServed(c) == bdConn[c].st = "open" /\ bdConn[c].db # {} /\ bdConn[c].db \subseteq BdExists
BdDb(c) == CHOOSE d \in BdDatabases : d \in bdConn[c].db
-------------------------------------------------------------------------------
(* init, conn/open, conn/use, conn/close *)

BdHandshake ==
    /\ ~bdReady
    /\ bdReady' = TRUE
    /\ UNCHANGED <<bdKind, bdConn, bdTables, bdLate, bdNext, bdKept>>

\* connect runs a test query with the configured database, if there is one.
BdOpen(c, db) ==
    /\ bdReady /\ bdConn[c].st = "new"
    /\ db \subseteq BdExists
    /\ bdConn' = [bdConn EXCEPT ![c] = [st |-> "open", db |-> db, cursor |-> {}]]
    /\ UNCHANGED <<bdKind, bdReady, bdTables, bdLate, bdNext, bdKept>>

BdTakesUp(c, d) ==
    /\ bdConn' = [bdConn EXCEPT ![c].db = {d}]
    /\ UNCHANGED <<bdKind, bdReady, bdTables, bdLate, bdNext, bdKept>>

\* use_database asks system.databases, in the old database, and rebuilds the client for the
\* new one.  A failure leaves the choice as it was.
ClickhouseUse(c, d) ==
    /\ bdKind = "clickhouse" /\ bdConn[c].st = "open"
    /\ bdConn[c].db \subseteq BdExists
    /\ d \in BdExists
    /\ BdTakesUp(c, d)

\* use_database sends USE.
TdengineUse(c, d) ==
    /\ bdKind = "tdengine" /\ bdConn[c].st = "open"
    /\ d \in BdExists
    /\ BdTakesUp(c, d)

BdClose(c) ==
    /\ bdConn[c].st = "open"
    /\ bdConn' = [bdConn EXCEPT ![c] = BdClosed]
    /\ UNCHANGED <<bdKind, bdReady, bdTables, bdLate, bdNext, bdKept>>
-------------------------------------------------------------------------------
(* query/start, cursor/fetch, cursor/cancel, cursor/close *)

BdCut(rows, max) == IF max = BdNone \/ max > Len(rows) THEN rows ELSE SubSeq(rows, 1, max)

BdQuery(c, max) ==
    /\ BdServed(c) /\ bdConn[c].cursor = {}
    /\ LET rows == BdCut(bdTables[BdDb(c)], max)
       IN  bdConn' = [bdConn EXCEPT ![c].cursor =
                        {[rows |-> rows, next |-> 0, done |-> rows = <<>>, all |-> rows,
                          got |-> <<>>, ended |-> FALSE, cancelled |-> FALSE]}]
    /\ UNCHANGED <<bdKind, bdReady, bdTables, bdLate, bdNext, bdKept>>

BdWritten(c, times) ==
    /\ BdServed(c) /\ bdNext <= BdRows
    /\ bdTables' = [bdTables EXCEPT ![BdDb(c)] = @ \o [i \in 1..times |-> bdNext]]
    /\ bdNext' = bdNext + 1
    /\ UNCHANGED <<bdKind, bdReady, bdConn, bdLate>>

\* An INSERT sent as a query.  ClickHouse refuses it as a query, or executes it and sends no
\* JSON; either way query_typed then executes it as a statement and answers an empty result,
\* or fails with that statement when the first attempt may have been executed.
ClickhouseQueryWrites(c) ==
    /\ bdKind = "clickhouse"
    /\ \/ /\ \E times \in 1..2 : BdWritten(c, times)
          /\ bdKept' = bdKept \cup {[db |-> BdDb(c), row |-> bdNext, via |-> "query"]}
       \/ BdWritten(c, 1) /\ UNCHANGED bdKept

\* TDengine executes it and answers an error, for want of a result set.
TdengineQueryWrites(c) == bdKind = "tdengine" /\ BdWritten(c, 1) /\ UNCHANGED bdKept

\* page_size: 0 and a missing number mean the default.
BdPageSize(n) == IF n <= 0 THEN BdDefault ELSE n

\* CursorState::fetch; a buffer read to its end is freed.
BdFetched(k, n) ==
    LET end == IF k.next + n > Len(k.rows) THEN Len(k.rows) ELSE k.next + n
        all == end >= Len(k.rows)
    IN  IF k.done THEN [k EXCEPT !.ended = TRUE]
        ELSE [k EXCEPT !.got = @ \o SubSeq(k.rows, k.next + 1, end),
                       !.rows = IF all THEN <<>> ELSE @, !.next = IF all THEN 0 ELSE end,
                       !.done = all, !.ended = all]

BdCursor(c) ==
    /\ bdConn[c].st = "open"
    /\ \E k \in bdConn[c].cursor :
          \/ /\ Len(k.got) <= Len(k.all)
             /\ \E n \in BdNone..2 : bdConn' = [bdConn EXCEPT ![c].cursor = {BdFetched(k, BdPageSize(n))}]
          \/ bdConn' = [bdConn EXCEPT ![c].cursor = {[k EXCEPT !.rows = <<>>, !.next = 0, !.done = TRUE,
                                                               !.cancelled = TRUE]}]
          \/ bdConn' = [bdConn EXCEPT ![c].cursor = {}]
    /\ UNCHANGED <<bdKind, bdReady, bdTables, bdLate, bdNext, bdKept>>
-------------------------------------------------------------------------------
(* exec/run, exec/batch *)

BdStatements == UNION {[1..n -> {"good", "bad", "slow"}] : n \in 1..2}

\* exec_statement: it takes effect, fails, or is abandoned after timeout_ms (ClickHouse).
BdExecuted(s, st) ==
    IF s.stopped THEN s
    ELSE IF st = "good" THEN [s EXCEPT !.rows = Append(@, s.next), !.ok = @ \cup {s.next}, !.next = @ + 1]
    ELSE [s EXCEPT !.late = IF st = "slow" THEN @ \cup {s.next} ELSE @, !.next = @ + 1, !.stopped = s.stop]

BdExec(c, statements, stop) ==
    /\ BdServed(c)
    /\ bdNext + Len(statements) <= BdRows + 1
    /\ bdKind = "tdengine" => \A i \in DOMAIN statements : statements[i] # "slow"
    /\ LET d == BdDb(c)
           ran == FoldLeft(BdExecuted, [rows |-> bdTables[d], ok |-> {}, late |-> {}, next |-> bdNext,
                                        stop |-> stop, stopped |-> FALSE], statements)
       IN  /\ bdTables' = [bdTables EXCEPT ![d] = ran.rows]
           /\ bdKept' = bdKept \cup {[db |-> d, row |-> r, via |-> "exec"] : r \in ran.ok}
           /\ bdLate' = bdLate \cup {[db |-> d, row |-> r] : r \in ran.late}
           /\ bdNext' = ran.next
    /\ UNCHANGED <<bdKind, bdReady, bdConn>>
-------------------------------------------------------------------------------
(* The server *)

BdLateLands(l) ==
    /\ bdLate' = bdLate \ {l}
    /\ \/ UNCHANGED bdTables
       \/ l.db \in BdExists /\ bdTables' = [bdTables EXCEPT ![l.db] = Append(@, l.row)]
    /\ UNCHANGED <<bdKind, bdReady, bdConn, bdNext, bdKept>>

BdDrops(d) ==
    /\ d \in BdExists
    /\ bdTables' = [e \in BdExists \ {d} |-> bdTables[e]]
    /\ bdKept' = {k \in bdKept : k.db # d}
    /\ UNCHANGED <<bdKind, bdReady, bdConn, bdLate, bdNext>>

BdCreates(d) ==
    /\ d \notin BdExists
    /\ bdTables' = [e \in BdExists \cup {d} |-> IF e = d THEN <<>> ELSE bdTables[e]]
    /\ UNCHANGED <<bdKind, bdReady, bdConn, bdLate, bdNext, bdKept>>

BdInit ==
    /\ bdKind \in BdKinds
    /\ bdReady = FALSE
    /\ bdConn = [c \in BdConns |-> [st |-> "new", db |-> {}, cursor |-> {}]]
    /\ bdTables = [d \in BdDatabases |-> <<>>]
    /\ bdLate = {} /\ bdNext = 1 /\ bdKept = {}

BdNext ==
    \/ BdHandshake
    \/ \E c \in BdConns :
          \/ \E db \in {{}} \cup {{d} : d \in BdDatabases} : BdOpen(c, db)
          \/ \E d \in BdDatabases : ClickhouseUse(c, d) \/ TdengineUse(c, d)
          \/ BdClose(c)
          \/ \E max \in BdMaxRows : BdQuery(c, max)
          \/ ClickhouseQueryWrites(c) \/ TdengineQueryWrites(c)
          \/ BdCursor(c)
          \/ \E statements \in BdStatements, stop \in BOOLEAN : BdExec(c, statements, stop)
    \/ \E l \in bdLate : BdLateLands(l)
    \/ \E d \in BdDatabases : BdDrops(d) \/ BdCreates(d)

BdSpec == BdInit /\ [][BdNext]_bdVars
-------------------------------------------------------------------------------
(* Properties *)

BdTypeOK ==
    /\ bdKind \in BdKinds /\ bdReady \in BOOLEAN
    /\ \A c \in BdConns : /\ bdConn[c].st \in {"new", "open", "closed"}
                          /\ bdConn[c].db \subseteq BdDatabases /\ Cardinality(bdConn[c].db) <= 1
                          /\ bdConn[c].st # "open" => bdConn[c].cursor = {}
    /\ BdExists \subseteq BdDatabases /\ bdNext \in 1..BdRows + 1

\* A statement that was acknowledged took effect in the database its connection had chosen and
\* in no other, whatever statements time out, run late or fail around it and however the
\* connections switch; one sent to exec/run or exec/batch exactly once, one sent to ClickHouse
\* as a query once or, since query_typed repeats what gave no JSON, twice (exec_statement,
\* handle_exec_batch, query_typed, use_database).
BdAcknowledgedOnce ==
    \A k \in bdKept :
        /\ k.db \in BdExists
        /\ \A d \in BdExists : Cardinality({i \in DOMAIN bdTables[d] : bdTables[d][i] = k.row})
                                \in IF d # k.db THEN {0} ELSE IF k.via = "exec" THEN {1} ELSE {1, 2}

\* A cursor hands out the rows its database had at query/start, up to max_rows, each once and
\* in order, and ends with the last, whatever the page sizes, and although the connection
\* switches its database or the database is dropped meanwhile (CursorState).
BdCursorsAreWhole ==
    \A c \in BdConns : \A k \in bdConn[c].cursor :
        /\ IsPrefix(k.got, k.all)
        /\ k.ended /\ ~k.cancelled => k.got = k.all

\* A connection changes its database only for one that exists at that moment, and keeps the
\* cursor it has open (handle_conn_use).
BdUseIsChecked ==
    \A c \in BdConns : bdConn[c].st = "open" /\ bdConn'[c].db # bdConn[c].db /\ bdConn'[c].st = "open" =>
         bdConn'[c].db \subseteq BdExists /\ bdConn'[c].cursor = bdConn[c].cursor
=============================================================================
