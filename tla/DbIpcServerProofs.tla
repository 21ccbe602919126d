-------------------------- MODULE DbIpcServerProofs --------------------------
(***************************************************************************)
(* The safety properties of DbIpcServer for every number of ids,           *)
(* statements and rows.                                                    *)
(*                                                                         *)
(* First who owns what (IInv): what a connection owns goes with it,        *)
(* nothing stays open in database/sql without an id that leads to it, and  *)
(* a result lives exactly as long as its transaction.  Then, on top of it, *)
(* what the host gets (PiecesInv): rows, streams and import counts arrive  *)
(* whole, and transactions and batches take effect as a whole or not at    *)
(* all.                                                                    *)
(***************************************************************************)
EXTENDS DbIpcServer, TLAPS, SequenceTheorems, FiniteSetTheorems,
        WellFoundedInduction

-----------------------------------------------------------------------------
(* Tables *)

\* Put changes one entry of a table and leaves the others.
LEMMA PutProperties ==
  ASSUME NEW f, NEW x, NEW v, NEW R, f \in [DOMAIN f -> R], v \in R
  PROVE  /\ Put(f, x, v) \in [DOMAIN f \cup {x} -> R]
         /\ DOMAIN Put(f, x, v) = DOMAIN f \cup {x}
         /\ Put(f, x, v)[x] = v
         /\ \A y \in DOMAIN f : y # x => Put(f, x, v)[y] = f[y]
  BY DEF Put

\* Drop removes entries from a table and leaves the others.
LEMMA DropProperties ==
  ASSUME NEW f, NEW S, NEW R, f \in [DOMAIN f -> R]
  PROVE  /\ Drop(f, S) \in [DOMAIN f \ S -> R]
         /\ DOMAIN Drop(f, S) = DOMAIN f \ S
         /\ \A y \in DOMAIN f \ S : Drop(f, S)[y] = f[y]
  BY DEF Drop, Restrict

\* The empty table.
LEMMA EmptyTable ==
  ASSUME NEW f, NEW R, f = << >>
  PROVE  DOMAIN f = {} /\ f \in [DOMAIN f -> R]
<1>1. << >> \in Seq(R)
  OBVIOUS
<1>2. << >> \in [1 .. Len(<< >>) -> R]
  BY <1>1, LenProperties
<1>3. 1 .. Len(<< >>) = {} /\ DOMAIN << >> = {}
  OBVIOUS
<1>4. QED
  BY <1>2, <1>3

-----------------------------------------------------------------------------
(* The operations of database/sql *)

\* sql.Rows.Close changes the status of the closed results.
LEMMA ClosedProperties ==
  ASSUME rows \in [DOMAIN rows -> Rows], NEW S
  PROVE  /\ Closed(S) \in [DOMAIN rows -> Rows]
         /\ DOMAIN Closed(S) = DOMAIN rows
         /\ \A c \in DOMAIN rows :
               /\ Closed(S)[c].tx = rows[c].tx
               /\ Closed(S)[c].next = rows[c].next /\ Closed(S)[c].total = rows[c].total
               /\ Closed(S)[c].status = IF c \in S THEN "closed" ELSE rows[c].status
  BY DEF Closed, Rows

\* Finishing transactions kills the open results of exactly those transactions.
LEMMA FinishedProperties ==
  ASSUME NEW r, r \in [DOMAIN r -> Rows], NEW T
  PROVE  /\ Finished(r, T) \in [DOMAIN r -> Rows]
         /\ DOMAIN Finished(r, T) = DOMAIN r
         /\ \A c \in DOMAIN r :
               /\ Finished(r, T)[c].tx = r[c].tx
               /\ Finished(r, T)[c].next = r[c].next /\ Finished(r, T)[c].total = r[c].total
               /\ Finished(r, T)[c].status = "open" => r[c].status = "open" /\ r[c].tx \notin T
  BY DEF Finished, Rows

\* A finished transaction keeps its connection and its work.
LEMMA EndTxsProperties ==
  ASSUME sqltx \in [DOMAIN sqltx -> Tx], NEW T, NEW status \in {"committed", "aborted"}
  PROVE  /\ EndTxs(T, status) \in [DOMAIN sqltx -> Tx]
         /\ DOMAIN EndTxs(T, status) = DOMAIN sqltx
         /\ \A t \in DOMAIN sqltx :
               EndTxs(T, status)[t].status = "active" <=> t \notin T /\ sqltx[t].status = "active"
  BY DEF EndTxs, Active, Tx

-----------------------------------------------------------------------------
(* The inductive invariant *)

\* Ids are handed out in order, so that a new one names nothing yet.
IdsInOrder ==
  /\ \A c \in DOMAIN cursors : c \in DOMAIN rows
  /\ \A c \in DOMAIN rows : c < nextCursor
  /\ \A t \in DOMAIN txs : t \in DOMAIN sqltx
  /\ \A t \in DOMAIN sqltx : t < nextTx

\* A cursor never reads past its result or its limit.
WithinLimits ==
  /\ \A c \in DOMAIN rows : 1 <= rows[c].next /\ rows[c].next <= rows[c].total + 1
  /\ \A c \in DOMAIN cursors :
        cursors[c].maxRows # None => cursors[c].fetched <= cursors[c].maxRows

Ownership ==
  /\ OwnedByOpenConnection
  /\ NothingLeaks
  /\ ResultsFollowTheirTransaction

IInv == TypeOK /\ IdsInOrder /\ WithinLimits /\ Ownership

\* An answer changes nothing but the reply.
LEMMA AnswerKeepsIInv ==
  ASSUME IInv, NEW outcome \in ErrorCodes \cup {"none", "ok"}, Answer(outcome)
  PROVE  IInv'
<1>1. reply' \in {"none", "ok", "error"}
  BY DEF Answer, Reply, ErrorCodes
<1>2. UNCHANGED <<serving, initialized, conns, cursors, txs, imports, streams, nextConnID, nextCursor, nextTx,
                  nextImport, pools, rows, sqltx, durable, nextStmt>>
  BY DEF Answer, tables, counters, sqlVars
<1>3. TypeOK'
  BY <1>1, <1>2 DEF IInv, TypeOK, SqlTypeOK
<1>4. IdsInOrder' /\ WithinLimits'
  BY <1>2 DEF IInv, IdsInOrder, WithinLimits
<1>5. Ownership'
  BY <1>2 DEF IInv, Ownership, OwnedByOpenConnection, NothingLeaks,
              ResultsFollowTheirTransaction, Active
<1>6. QED
  BY <1>3, <1>4, <1>5 DEF IInv

\* The server starts empty.
LEMMA InitEstablishesIInv == Init => IInv
<1> SUFFICES ASSUME Init PROVE IInv
  OBVIOUS
<1> USE DEF Init, NewServer, SqlInit
<1>1. /\ DOMAIN conns = {} /\ conns \in [DOMAIN conns -> Databases]
      /\ DOMAIN cursors = {} /\ cursors \in [DOMAIN cursors -> Cursors]
      /\ DOMAIN txs = {} /\ txs \in [DOMAIN txs -> ConnIds]
      /\ DOMAIN imports = {} /\ imports \in [DOMAIN imports -> Imports]
      /\ DOMAIN streams = {} /\ streams \in [DOMAIN streams -> Streams]
  BY EmptyTable
<1>2. /\ DOMAIN rows = {} /\ rows \in [DOMAIN rows -> Rows]
      /\ DOMAIN sqltx = {} /\ sqltx \in [DOMAIN sqltx -> Tx]
  BY EmptyTable
<1>3. SqlTypeOK
  BY <1>2 DEF SqlTypeOK
<1>4. TypeOK
  <2>1. /\ nextConnID \in 1 .. MaxConns + 1 /\ nextCursor \in 1 .. MaxCursors + 1
        /\ nextTx \in 1 .. MaxTxs + 1 /\ nextImport \in 1 .. MaxImports + 1
    BY BoundsAreNaturals
  <2>2. serving \in BOOLEAN /\ initialized \in BOOLEAN /\ reply \in {"none", "ok", "error"}
    OBVIOUS
  <2>3. QED
    BY <1>1, <1>3, <2>1, <2>2 DEF TypeOK
<1>5. IdsInOrder /\ WithinLimits
  BY <1>1, <1>2 DEF IdsInOrder, WithinLimits
<1>6. Ownership
  BY <1>1, <1>2 DEF Ownership, OwnedByOpenConnection, NothingLeaks, ResultsFollowTheirTransaction
<1>7. QED
  BY <1>4, <1>5, <1>6 DEF IInv

-----------------------------------------------------------------------------
(* Closing *)

\* What Close leaves in the tables.
TablesAfterClose(S, T, I, C) ==
  /\ cursors' \in [DOMAIN cursors \ S -> Cursors] /\ DOMAIN cursors' = DOMAIN cursors \ S
  /\ \A c \in DOMAIN cursors \ S : cursors'[c] = cursors[c]
  /\ txs' \in [DOMAIN txs \ T -> ConnIds] /\ DOMAIN txs' = DOMAIN txs \ T
  /\ \A t \in DOMAIN txs \ T : txs'[t] = txs[t]
  /\ imports' \in [DOMAIN imports \ I -> Imports] /\ DOMAIN imports' = DOMAIN imports \ I
  /\ \A i \in DOMAIN imports \ I : imports'[i] = imports[i]
  /\ conns' \in [DOMAIN conns \ C -> Databases] /\ DOMAIN conns' = DOMAIN conns \ C

\* It leaves the entries of the other connections.
LEMMA CloseTables ==
  ASSUME TypeOK, NEW S, NEW T, NEW I, NEW C, NEW errors, Close(S, T, I, C, errors)
  PROVE  TablesAfterClose(S, T, I, C)
<1>1. /\ cursors' = Drop(cursors, S) /\ txs' = Drop(txs, T)
      /\ imports' = Drop(imports, I) /\ conns' = Drop(conns, C)
  BY DEF Close
<1>2. /\ cursors \in [DOMAIN cursors -> Cursors] /\ txs \in [DOMAIN txs -> ConnIds]
      /\ imports \in [DOMAIN imports -> Imports] /\ conns \in [DOMAIN conns -> Databases]
  BY DEF TypeOK
<1>3. QED
  BY <1>1, <1>2, DropProperties DEF TablesAfterClose

\* What Close leaves open in database/sql.
RowsAfterClose(S, T) ==
  /\ rows' \in [DOMAIN rows -> Rows] /\ DOMAIN rows' = DOMAIN rows
  /\ \A c \in DOMAIN rows :
        /\ rows'[c].tx = rows[c].tx
        /\ rows'[c].next = rows[c].next /\ rows'[c].total = rows[c].total
        /\ rows'[c].status = "open" =>
              rows[c].status = "open" /\ c \notin HasRows(S) /\ rows[c].tx \notin T

\* No result of a closed cursor or of a finished transaction stays open.
LEMMA CloseRows ==
  ASSUME TypeOK, NEW S, NEW T, NEW I, NEW C, NEW errors, Close(S, T, I, C, errors)
  PROVE  RowsAfterClose(S, T)
<1>1. rows \in [DOMAIN rows -> Rows]
  BY DEF TypeOK, SqlTypeOK
<1>2. rows' = Finished(Closed(HasRows(S)), T)
  BY DEF Close
<1> DEFINE r == Closed(HasRows(S))
<1>3. /\ r \in [DOMAIN rows -> Rows] /\ DOMAIN r = DOMAIN rows
        /\ \A c \in DOMAIN rows :
               /\ r[c].tx = rows[c].tx
               /\ r[c].next = rows[c].next /\ r[c].total = rows[c].total
               /\ r[c].status = IF c \in HasRows(S) THEN "closed" ELSE rows[c].status
  BY <1>1, ClosedProperties
<1> HIDE DEF r
<1>4. r \in [DOMAIN r -> Rows]
  BY <1>3
<1>5. /\ Finished(r, T) \in [DOMAIN r -> Rows]
        /\ DOMAIN Finished(r, T) = DOMAIN r
        /\ \A c \in DOMAIN r :
               /\ Finished(r, T)[c].tx = r[c].tx
               /\ Finished(r, T)[c].next = r[c].next /\ Finished(r, T)[c].total = r[c].total
               /\ Finished(r, T)[c].status = "open" => r[c].status = "open" /\ r[c].tx \notin T
  BY <1>4, FinishedProperties
<1>6. rows' = Finished(r, T)
  BY <1>2 DEF r
<1>7. QED
  BY <1>3, <1>5, <1>6 DEF RowsAfterClose

\* Closing connections together with exactly what they own keeps the invariant.
LEMMA CloseKeepsIInv ==
  ASSUME IInv, NEW S, NEW T, NEW I, NEW C, NEW errors, Close(S, T, I, C, errors),
         \A c \in DOMAIN cursors : c \in S <=> cursors[c].conn \in C,
         \A t \in DOMAIN txs : t \in T <=> txs[t] \in C,
         \A i \in DOMAIN imports : imports[i].conn \in C => i \in I,
         S \subseteq DOMAIN cursors,
         streams' \in [DOMAIN streams' -> Streams], DOMAIN streams' \subseteq StreamIds,
         serving' \in BOOLEAN,
         UNCHANGED <<initialized, counters, durable, nextStmt>>
  PROVE  IInv'
<1> USE DEF IInv
<1>1. /\ UNCHANGED <<initialized, nextConnID, nextCursor, nextTx, nextImport, durable, nextStmt>>
      /\ reply' \in {"none", "ok", "error"}
  BY DEF Close, counters, Reply, ErrorCodes
<1>2. TablesAfterClose(S, T, I, C)
  BY CloseTables
<1>3. RowsAfterClose(S, T)
  BY CloseRows
<1>4. /\ sqltx' \in [DOMAIN sqltx -> Tx] /\ DOMAIN sqltx' = DOMAIN sqltx
      /\ \A t \in DOMAIN sqltx :
            sqltx'[t].status = "active" <=> t \notin T /\ sqltx[t].status = "active"
  BY EndTxsProperties DEF Close, TypeOK, SqlTypeOK
<1>5. pools' = pools \ C
  BY DEF Close
<1>6. SqlTypeOK'
  BY <1>1, <1>3, <1>4, <1>5 DEF TypeOK, SqlTypeOK, RowsAfterClose
<1>7. TypeOK'
  BY <1>1, <1>2, <1>6 DEF TypeOK, TablesAfterClose
<1>8. IdsInOrder' /\ WithinLimits'
  <2>1. IdsInOrder'
    BY <1>1, <1>2, <1>3, <1>4 DEF IdsInOrder, TablesAfterClose, RowsAfterClose
  <2>2. \A c \in DOMAIN rows' : 1 <= rows'[c].next /\ rows'[c].next <= rows'[c].total + 1
    BY <1>3 DEF WithinLimits, RowsAfterClose
  <2>3. \A c \in DOMAIN cursors' :
           cursors'[c].maxRows # None => cursors'[c].fetched <= cursors'[c].maxRows
    BY <1>2 DEF WithinLimits, TablesAfterClose
  <2>4. QED
    BY <2>1, <2>2, <2>3 DEF WithinLimits
<1>9. OwnedByOpenConnection'
  BY <1>2 DEF Ownership, OwnedByOpenConnection, TablesAfterClose
<1>10. NothingLeaks'
  <2>1. pools' = DOMAIN conns'
    BY <1>2, <1>5 DEF Ownership, NothingLeaks, TablesAfterClose
  <2>2. ASSUME NEW c \in DOMAIN rows', rows'[c].status = "open"
        PROVE  c \in DOMAIN cursors' /\ cursors'[c].rows /\ ~cursors'[c].done
    <3>1. /\ c \in DOMAIN rows /\ rows[c].status = "open" /\ c \notin HasRows(S)
      BY <2>2, <1>3 DEF RowsAfterClose
    <3>2. c \in DOMAIN cursors /\ cursors[c].rows /\ ~cursors[c].done
      BY <3>1 DEF Ownership, NothingLeaks
    <3>3. c \notin S
      BY <3>1, <3>2 DEF HasRows
    <3>4. c \in DOMAIN cursors' /\ cursors'[c] = cursors[c]
      BY <3>2, <3>3, <1>2 DEF TablesAfterClose
    <3>5. QED
      BY <3>2, <3>4
  <2>3. ASSUME NEW t \in DOMAIN sqltx', Active(t)' PROVE t \in DOMAIN txs'
    BY <2>3, <1>2, <1>4 DEF TablesAfterClose, Ownership, NothingLeaks, Active
  <2>4. QED
    BY <2>1, <2>2, <2>3 DEF NothingLeaks
<1>11. ResultsFollowTheirTransaction'
  <2> SUFFICES ASSUME NEW c \in DOMAIN rows', rows'[c].status = "open", rows'[c].tx # None
               PROVE  /\ rows'[c].tx \in DOMAIN txs' /\ sqltx'[rows'[c].tx].status = "active"
                      /\ txs'[rows'[c].tx] = cursors'[c].conn
    BY DEF ResultsFollowTheirTransaction, Active
  <2>1. /\ c \in DOMAIN rows /\ rows[c].status = "open" /\ rows'[c].tx = rows[c].tx
        /\ rows[c].tx # None /\ rows[c].tx \notin T
    BY <1>3 DEF RowsAfterClose
  <2>2. /\ rows[c].tx \in DOMAIN txs /\ sqltx[rows[c].tx].status = "active"
        /\ txs[rows[c].tx] = cursors[c].conn
    BY <2>1 DEF Ownership, ResultsFollowTheirTransaction, Active
  <2>3. c \in DOMAIN cursors'
    BY <1>10 DEF NothingLeaks
  <2>4. rows[c].tx \in DOMAIN sqltx
    BY <2>2 DEF IdsInOrder
  <2>5. QED
    BY <2>1, <2>2, <2>3, <2>4, <1>2, <1>4 DEF TablesAfterClose
<1>12. QED
  BY <1>7, <1>8, <1>9, <1>10, <1>11 DEF Ownership

\* shutdown closes every connection.
LEMMA HandleShutdownKeepsIInv == IInv /\ HandleShutdown => IInv'
<1> SUFFICES ASSUME IInv, HandleShutdown PROVE IInv'
  OBVIOUS
<1>1. PICK errors \in BOOLEAN :
        Close(DOMAIN cursors, DOMAIN txs, DOMAIN imports, DOMAIN conns, errors)
  BY DEF HandleShutdown
<1>2. DOMAIN streams' = {} /\ streams' \in [DOMAIN streams' -> Streams]
  BY EmptyTable DEF HandleShutdown
<1>3. serving' \in BOOLEAN
  BY DEF HandleShutdown
<1>4. UNCHANGED <<initialized, counters, durable, nextStmt>>
  BY DEF HandleShutdown
<1>5. /\ \A c \in DOMAIN cursors : cursors[c].conn \in DOMAIN conns
      /\ \A t \in DOMAIN txs : txs[t] \in DOMAIN conns
  BY DEF IInv, Ownership, OwnedByOpenConnection
<1>6. QED
  BY <1>1, <1>2, <1>3, <1>4, <1>5, CloseKeepsIInv

\* conn/close takes along exactly what the connection owns.
LEMMA HandleConnCloseKeepsIInv ==
  ASSUME IInv, NEW c \in ConnIds, handleConnClose(c)
  PROVE  IInv'
<1>1. CASE Answer("UnknownConnID")
  BY <1>1, AnswerKeepsIInv DEF ErrorCodes
<1>2. CASE ~Answer("UnknownConnID")
  <2>1. PICK errors \in BOOLEAN : Close(closeCursorsForConn(c), rollbackTxsForConn(c),
                                        dropImportsForConn(c), {c}, errors)
    BY <1>2 DEF handleConnClose
  <2>2. UNCHANGED <<serving, initialized, streams, counters, durable, nextStmt>>
    BY <1>2 DEF handleConnClose
  <2>3. /\ streams' \in [DOMAIN streams' -> Streams] /\ DOMAIN streams' \subseteq StreamIds
        /\ serving' \in BOOLEAN
    BY <2>2 DEF IInv, TypeOK
  <2>4. /\ \A x \in DOMAIN cursors : x \in closeCursorsForConn(c) <=> cursors[x].conn \in {c}
        /\ \A t \in DOMAIN txs : t \in rollbackTxsForConn(c) <=> txs[t] \in {c}
        /\ \A i \in DOMAIN imports : imports[i].conn \in {c} => i \in dropImportsForConn(c)
        /\ closeCursorsForConn(c) \subseteq DOMAIN cursors
    BY DEF closeCursorsForConn, rollbackTxsForConn, dropImportsForConn
  <2>5. QED
    BY <2>1, <2>2, <2>3, <2>4, CloseKeepsIInv
<1>3. QED
  BY <1>1, <1>2

-----------------------------------------------------------------------------
(* Requests that touch neither cursors nor connections *)

\* The part of the invariant beyond the types reads no statement, stream, count
\* or work.
LEMMA FrameKeepsRest ==
  ASSUME IInv,
         UNCHANGED <<conns, cursors, txs, nextCursor, nextTx, pools, rows>>,
         DOMAIN sqltx' = DOMAIN sqltx,
         \A t \in DOMAIN sqltx : sqltx'[t].status = sqltx[t].status,
         \A i \in DOMAIN imports' : imports'[i].conn \in DOMAIN conns
  PROVE  IdsInOrder' /\ WithinLimits' /\ Ownership'
<1> USE DEF IInv
<1>1. IdsInOrder'
  BY DEF IdsInOrder
<1>2. WithinLimits'
  BY DEF WithinLimits
<1>3. OwnedByOpenConnection'
  BY DEF Ownership, OwnedByOpenConnection
<1>4. NothingLeaks'
  BY DEF Ownership, NothingLeaks, Active
<1>5. ResultsFollowTheirTransaction'
  <2> SUFFICES ASSUME NEW c \in DOMAIN rows, rows[c].status = "open", rows[c].tx # None
               PROVE  /\ rows[c].tx \in DOMAIN txs /\ sqltx'[rows[c].tx].status = "active"
                      /\ txs[rows[c].tx] = cursors[c].conn
    BY DEF ResultsFollowTheirTransaction, Active
  <2>1. /\ rows[c].tx \in DOMAIN txs /\ sqltx[rows[c].tx].status = "active"
        /\ txs[rows[c].tx] = cursors[c].conn
    BY DEF Ownership, ResultsFollowTheirTransaction, Active
  <2>2. rows[c].tx \in DOMAIN sqltx
    BY <2>1 DEF IdsInOrder
  <2>3. QED
    BY <2>1, <2>2
<1>6. QED
  BY <1>1, <1>2, <1>3, <1>4, <1>5 DEF Ownership

\* Imports keep their connections when they are only forgotten or counted.
LEMMA ImportsStayOwned ==
  ASSUME IInv, DOMAIN imports' \subseteq DOMAIN imports,
         \A i \in DOMAIN imports' : imports'[i].conn = imports[i].conn
  PROVE  \A i \in DOMAIN imports' : imports'[i].conn \in DOMAIN conns
  BY DEF IInv, Ownership, OwnedByOpenConnection

\* init only sets the flag.
LEMMA HandleInitKeepsIInv == IInv /\ HandleInit => IInv'
<1> SUFFICES ASSUME IInv, HandleInit PROVE IInv'
  OBVIOUS
<1>1. CASE Answer("ServerIncompatible")
  BY <1>1, AnswerKeepsIInv DEF ErrorCodes
<1>2. CASE ~Answer("ServerIncompatible")
  <2>1. UNCHANGED <<serving, conns, cursors, txs, imports, streams, nextConnID, nextCursor, nextTx,
                    nextImport, pools, rows, sqltx, durable, nextStmt>>
    BY <1>2 DEF HandleInit, tables, counters, sqlVars
  <2>2. initialized' \in BOOLEAN
    BY <1>2 DEF HandleInit
  <2>3. reply' \in {"none", "ok", "error"}
    BY <1>2 DEF HandleInit, Reply
  <2>4. TypeOK'
    BY <2>1, <2>2, <2>3 DEF IInv, TypeOK, SqlTypeOK
  <2>5. IdsInOrder' /\ WithinLimits' /\ Ownership'
    BY <2>1, ImportsStayOwned, FrameKeepsRest
  <2>6. QED
    BY <2>4, <2>5 DEF IInv
<1>3. QED
  BY <1>1, <1>2

\* The end of the loop leaves everything as it is.
LEMMA HostGoneKeepsIInv == IInv /\ HostGone => IInv'
<1> SUFFICES ASSUME IInv, HostGone PROVE IInv'
  OBVIOUS
<1>1. UNCHANGED <<initialized, reply, conns, cursors, txs, imports, streams, nextConnID, nextCursor,
                  nextTx, nextImport, pools, rows, sqltx, durable, nextStmt>>
  BY DEF HostGone, tables, counters, sqlVars
<1>2. serving' \in BOOLEAN
  BY DEF HostGone
<1>3. TypeOK'
  BY <1>1, <1>2 DEF IInv, TypeOK, SqlTypeOK
<1>4. IdsInOrder' /\ WithinLimits' /\ Ownership'
  BY <1>1, ImportsStayOwned, FrameKeepsRest
<1>5. QED
  BY <1>3, <1>4 DEF IInv

\* Export streams.
LEMMA StreamsKeepIInv ==
  ASSUME IInv, streams' \in [DOMAIN streams' -> Streams], DOMAIN streams' \subseteq StreamIds,
         Reply("ok"),
         UNCHANGED <<serving, initialized, conns, cursors, txs, imports, counters, sqlVars>>
  PROVE  IInv'
<1>1. UNCHANGED <<serving, initialized, conns, cursors, txs, imports, nextConnID, nextCursor, nextTx,
                  nextImport, pools, rows, sqltx, durable, nextStmt>>
  BY DEF counters, sqlVars
<1>2. reply' \in {"none", "ok", "error"}
  BY DEF Reply
<1>3. TypeOK'
  BY <1>1, <1>2 DEF IInv, TypeOK, SqlTypeOK
<1>4. IdsInOrder' /\ WithinLimits' /\ Ownership'
  BY <1>1, ImportsStayOwned, FrameKeepsRest
<1>5. QED
  BY <1>3, <1>4 DEF IInv

\* data/export.
LEMMA HandleDataExportKeepsIInv ==
  ASSUME IInv, NEW c \in ConnIds, NEW st \in StreamIds, NEW len \in 0 .. MaxResult,
         handleDataExport(c, st, len)
  PROVE  IInv'
<1>1. CASE Answer("UnknownConnID") \/ Answer("InvalidParams") \/ Answer("NotSupported")
  BY <1>1, AnswerKeepsIInv DEF ErrorCodes
<1>2. CASE ~(Answer("UnknownConnID") \/ Answer("InvalidParams") \/ Answer("NotSupported"))
  <2>1. /\ streams' = Put(streams, st, [len |-> len, offset |-> 0]) /\ Reply("ok")
        /\ UNCHANGED <<serving, initialized, conns, cursors, txs, imports, counters, sqlVars>>
    BY <1>2 DEF handleDataExport
  <2>2. [len |-> len, offset |-> 0] \in Streams
    BY DEF Streams
  <2>3. streams \in [DOMAIN streams -> Streams] /\ DOMAIN streams \subseteq StreamIds
    BY DEF IInv, TypeOK
  <2>4. streams' \in [DOMAIN streams \cup {st} -> Streams] /\ DOMAIN streams' = DOMAIN streams \cup {st}
    BY <2>1, <2>2, <2>3, PutProperties
  <2>5. streams' \in [DOMAIN streams' -> Streams] /\ DOMAIN streams' \subseteq StreamIds
    BY <2>3, <2>4
  <2>6. QED
    BY <2>1, <2>5, StreamsKeepIInv
<1>3. QED
  BY <1>1, <1>2

\* stream/read moves the offset forward or forgets the stream.
LEMMA HandleStreamReadKeepsIInv ==
  ASSUME IInv, NEW st \in StreamIds, NEW maxBytes \in 1 .. MaxResult + 1,
         handleStreamRead(st, maxBytes)
  PROVE  IInv'
<1>1. CASE Answer("InvalidParams")
  BY <1>1, AnswerKeepsIInv DEF ErrorCodes
<1>2. CASE ~Answer("InvalidParams")
  <2> DEFINE end == ChunkEnd(streams[st], maxBytes)
  <2>1. /\ st \in DOMAIN streams /\ Reply("ok")
        /\ UNCHANGED <<serving, initialized, conns, cursors, txs, imports, counters, sqlVars>>
        /\ \/ streams' = Drop(streams, {st})
           \/ streams' = [streams EXCEPT ![st].offset = end]
    BY <1>2 DEF handleStreamRead
  <2>2. streams \in [DOMAIN streams -> Streams] /\ DOMAIN streams \subseteq StreamIds
    BY DEF IInv, TypeOK
  <2>3. end \in Nat
    BY <2>1, <2>2, BoundsAreNaturals DEF ChunkEnd, MinOf, Streams
  <2>4. CASE streams' = Drop(streams, {st})
    BY <2>1, <2>2, <2>4, DropProperties, StreamsKeepIInv, ZenonT(30)
  <2>5. CASE streams' = [streams EXCEPT ![st].offset = end]
    <3>1. streams' \in [DOMAIN streams' -> Streams] /\ DOMAIN streams' = DOMAIN streams
      BY <2>1, <2>2, <2>3, <2>5 DEF Streams
    <3>2. QED
      BY <2>1, <2>2, <3>1, StreamsKeepIInv
  <2>6. QED
    BY <2>1, <2>4, <2>5
<1>3. QED
  BY <1>1, <1>2

\* stream/close.
LEMMA HandleStreamCloseKeepsIInv ==
  ASSUME IInv, NEW st \in StreamIds, handleStreamClose(st)
  PROVE  IInv'
<1>1. streams \in [DOMAIN streams -> Streams] /\ DOMAIN streams \subseteq StreamIds
  BY DEF IInv, TypeOK
<1>2. streams' = Drop(streams, {st})
  BY DEF handleStreamClose
<1>3. streams' \in [DOMAIN streams' -> Streams] /\ DOMAIN streams' \subseteq StreamIds
  BY <1>1, <1>2, DropProperties, ZenonT(30)
<1>4. QED
  BY <1>3, StreamsKeepIInv DEF handleStreamClose

-----------------------------------------------------------------------------
(* Statements and imports *)

\* The numbers of executed statements are statements of their owner.
LEMMA FreshType ==
  ASSUME nextStmt \in Nat, NEW ks, \A k \in ks : k \in Nat /\ k >= 1, NEW owner \in Owners
  PROVE  Fresh(ks, owner) \subseteq [stmt : Nat, owner : Owners]
  BY DEF Fresh

\* Whoever executes a statement is an owner.
LEMMA OwnersType ==
  /\ Autocommit \in Owners /\ Batch \in Owners
  /\ \A i \in ImportIds : OfImport(i) \in Owners
  /\ \A t \in TxIds : OfTx(t) \in Owners
<1>1. /\ Autocommit \in [kind : {"auto", "batch"}, id : {0}]
      /\ Batch \in [kind : {"auto", "batch"}, id : {0}]
  BY DEF Autocommit, Batch
<1>2. \A i \in ImportIds : OfImport(i) \in [kind : {"import"}, id : ImportIds]
  BY DEF OfImport
<1>3. \A t \in TxIds : OfTx(t) \in [kind : {"tx"}, id : TxIds]
  BY DEF OfTx
<1>4. QED
  BY <1>1, <1>2, <1>3, Zenon DEF Owners

\* exec/run and exec/batch leave the tables alone.
LEMMA StatementsKeepIInv ==
  ASSUME IInv, durable' \subseteq [stmt : Nat, owner : Owners], nextStmt' \in Nat,
         sqltx' \in [DOMAIN sqltx -> Tx], DOMAIN sqltx' = DOMAIN sqltx,
         \A t \in DOMAIN sqltx : sqltx'[t].status = sqltx[t].status,
         reply' \in {"none", "ok", "error"},
         UNCHANGED <<serving, initialized, tables, counters, pools, rows>>
  PROVE  IInv'
<1>1. UNCHANGED <<serving, initialized, conns, cursors, txs, imports, streams, nextConnID, nextCursor,
                  nextTx, nextImport, pools, rows>>
  BY DEF tables, counters
<1>2. TypeOK'
  BY <1>1 DEF IInv, TypeOK, SqlTypeOK
<1>3. \A i \in DOMAIN imports' : imports'[i].conn \in DOMAIN conns
  BY <1>1, ImportsStayOwned
<1>4. IdsInOrder' /\ WithinLimits' /\ Ownership'
  BY <1>1, <1>3, FrameKeepsRest
<1>5. QED
  BY <1>2, <1>4 DEF IInv

\* Replacing the work of one transaction leaves every status.
LEMMA WorkKeepsStatus ==
  ASSUME sqltx \in [DOMAIN sqltx -> Tx], NEW t \in DOMAIN sqltx, NEW w \in Seq(Work)
  PROVE  /\ [sqltx EXCEPT ![t].work = w] \in [DOMAIN sqltx -> Tx]
         /\ DOMAIN [sqltx EXCEPT ![t].work = w] = DOMAIN sqltx
         /\ \A u \in DOMAIN sqltx : [sqltx EXCEPT ![t].work = w][u].status = sqltx[u].status
  BY DEF Tx

\* exec/run.
LEMMA HandleExecRunKeepsIInv ==
  ASSUME IInv, NEW c \in ConnIds, NEW t \in TxIds \cup {None}, NEW result \in Results,
         handleExecRun(c, t, result)
  PROVE  IInv'
<1> USE DEF IInv
<1>1. CASE Answer("UnknownConnID") \/ Answer("InvalidParams") \/ Answer("SQLSyntax")
  BY <1>1, AnswerKeepsIInv DEF ErrorCodes
<1>2. CASE ~(Answer("UnknownConnID") \/ Answer("InvalidParams") \/ Answer("SQLSyntax"))
  <2>1. /\ Execute(t, c) /\ nextStmt' = nextStmt + 1
        /\ Reply(IF result = "ok" THEN "ok" ELSE "SQLSyntax")
        /\ UNCHANGED <<serving, initialized, tables, counters, pools, rows>>
    BY <1>2 DEF handleExecRun
  <2>2. reply' \in {"none", "ok", "error"}
    BY <2>1 DEF Reply, ErrorCodes
  <2>3. /\ nextStmt \in Nat /\ durable \subseteq [stmt : Nat, owner : Owners]
        /\ sqltx \in [DOMAIN sqltx -> Tx] /\ nextStmt' \in Nat
    BY <2>1 DEF TypeOK, SqlTypeOK
  <2>4. CASE t = None /\ durable' = durable \cup Fresh({1}, Autocommit) /\ UNCHANGED sqltx
    <3>1. Fresh({1}, Autocommit) \subseteq [stmt : Nat, owner : Owners]
      <4>1. \A k \in {1} : k \in Nat /\ k >= 1
        OBVIOUS
      <4>2. QED
        BY <2>3, <4>1, FreshType, OwnersType
    <3>2. durable' \subseteq [stmt : Nat, owner : Owners]
      BY <2>3, <2>4, <3>1
    <3>3. QED
      BY <2>1, <2>2, <2>3, <2>4, <3>2, StatementsKeepIInv
  <2>5. CASE /\ TxForRequest(t, c)
             /\ sqltx' = [sqltx EXCEPT ![t].work = Append(@, Statement(nextStmt))]
             /\ UNCHANGED durable
    <3>1. t \in DOMAIN sqltx
      BY <2>5 DEF IdsInOrder, TxForRequest
    <3>2. Append(sqltx[t].work, Statement(nextStmt)) \in Seq(Work)
      <4>1. sqltx[t].work \in Seq(Work)
        BY <2>3, <3>1 DEF Tx
      <4>2. Statement(nextStmt) \in Work
        BY <2>3 DEF Statement, Work
      <4>3. QED
        BY <4>1, <4>2, AppendProperties
    <3>3. sqltx' = [sqltx EXCEPT ![t].work = Append(sqltx[t].work, Statement(nextStmt))]
      BY <2>5
    <3>4. /\ sqltx' \in [DOMAIN sqltx -> Tx] /\ DOMAIN sqltx' = DOMAIN sqltx
          /\ \A u \in DOMAIN sqltx : sqltx'[u].status = sqltx[u].status
      BY <2>3, <3>1, <3>2, <3>3, WorkKeepsStatus
    <3>5. QED
      BY <2>1, <2>2, <2>3, <2>5, <3>4, StatementsKeepIInv
  <2>6. \/ t = None /\ durable' = durable \cup Fresh({1}, Autocommit) /\ UNCHANGED sqltx
        \/ /\ TxForRequest(t, c)
           /\ sqltx' = [sqltx EXCEPT ![t].work = Append(@, Statement(nextStmt))]
           /\ UNCHANGED durable
    BY <2>1 DEF Execute
  <2>7. QED
    BY <2>4, <2>5, <2>6
<1>3. QED
  BY <1>1, <1>2

\* exec/batch.
LEMMA HandleExecBatchKeepsIInv ==
  ASSUME IInv, NEW c \in ConnIds, NEW results \in BatchResults, NEW stop \in BOOLEAN,
         NEW in_transaction \in BOOLEAN, handleExecBatch(c, results, stop, in_transaction)
  PROVE  IInv'
<1> USE DEF IInv
<1>1. CASE Answer("UnknownConnID") \/ Answer("SQLSyntax")
  BY <1>1, AnswerKeepsIInv DEF ErrorCodes
<1>2. CASE ~(Answer("UnknownConnID") \/ Answer("SQLSyntax"))
  <2> DEFINE effect == Fresh(Effective(results, stop), Batch)
  <2>1. /\ durable' = durable \/ durable' = durable \cup effect
        /\ Reply("ok") \/ Reply("SQLSyntax")
        /\ nextStmt' = nextStmt + Len(results)
        /\ UNCHANGED <<serving, initialized, tables, counters, pools, rows, sqltx>>
    BY <1>2 DEF handleExecBatch
  <2>2. reply' \in {"none", "ok", "error"}
    BY <2>1 DEF Reply, ErrorCodes
  <2>3. /\ nextStmt \in Nat /\ durable \subseteq [stmt : Nat, owner : Owners]
        /\ sqltx \in [DOMAIN sqltx -> Tx]
    BY DEF TypeOK, SqlTypeOK
  <2>4. PICK n \in 1 .. MaxBatch : results \in [1 .. n -> Results]
    BY DEF BatchResults
  <2>5. results \in Seq(Results) /\ Len(results) \in Nat /\ DOMAIN results = 1 .. n
    BY <2>4, MaxBatchIsNatural
  <2>6. \A k \in Effective(results, stop) : k \in Nat /\ k >= 1
    BY <2>5, MaxBatchIsNatural DEF Effective, Attempted
  <2>7. effect \subseteq [stmt : Nat, owner : Owners]
    BY <2>3, <2>6, FreshType, OwnersType
  <2>8. durable' \subseteq [stmt : Nat, owner : Owners] /\ nextStmt' \in Nat
    BY <2>1, <2>3, <2>5, <2>7
  <2>9. QED
    BY <2>1, <2>2, <2>3, <2>8, StatementsKeepIInv
<1>3. QED
  BY <1>1, <1>2

\* The imports table changes.
LEMMA ImportsKeepIInv ==
  ASSUME IInv, imports' \in [DOMAIN imports' -> Imports], DOMAIN imports' \subseteq ImportIds,
         \A i \in DOMAIN imports' : imports'[i].conn \in DOMAIN conns,
         durable' \subseteq [stmt : Nat, owner : Owners], nextStmt' \in Nat,
         nextImport' \in 1 .. MaxImports + 1, Reply("ok"),
         UNCHANGED <<serving, initialized, conns, cursors, txs, streams, nextConnID, nextCursor,
                     nextTx, pools, rows, sqltx>>
  PROVE  IInv'
<1>1. reply' \in {"none", "ok", "error"}
  BY DEF Reply
<1>2. TypeOK'
  BY <1>1 DEF IInv, TypeOK, SqlTypeOK
<1>3. IdsInOrder' /\ WithinLimits' /\ Ownership'
  BY FrameKeepsRest
<1>4. QED
  BY <1>2, <1>3 DEF IInv

\* data/import_begin starts an import for an open connection.
LEMMA HandleDataImportBeginKeepsIInv ==
  ASSUME IInv, NEW c \in ConnIds, handleDataImportBegin(c)
  PROVE  IInv'
<1>1. CASE Answer("UnknownConnID") \/ Answer("NotSupported")
  BY <1>1, AnswerKeepsIInv DEF ErrorCodes
<1>2. CASE ~(Answer("UnknownConnID") \/ Answer("NotSupported"))
  <2> DEFINE new == [conn |-> c, inserted |-> 0, failed |-> 0]
  <2>1. /\ c \in DOMAIN conns /\ nextImport <= MaxImports
        /\ imports' = Put(imports, nextImport, new) /\ nextImport' = nextImport + 1 /\ Reply("ok")
        /\ UNCHANGED <<serving, initialized, conns, cursors, txs, streams, nextConnID,
                       nextCursor, nextTx, pools, rows, sqltx, durable, nextStmt>>
    BY <1>2 DEF handleDataImportBegin, sqlVars
  <2>2. /\ imports \in [DOMAIN imports -> Imports] /\ DOMAIN imports \subseteq ImportIds
        /\ nextImport \in 1 .. MaxImports + 1
        /\ durable \subseteq [stmt : Nat, owner : Owners] /\ nextStmt \in Nat
    BY DEF IInv, TypeOK, SqlTypeOK
  <2>3. new \in Imports /\ new.conn = c
    BY DEF Imports
  <2> HIDE DEF new
  <2>4. /\ imports' \in [DOMAIN imports \cup {nextImport} -> Imports]
        /\ DOMAIN imports' = DOMAIN imports \cup {nextImport}
        /\ imports'[nextImport] = new
        /\ \A i \in DOMAIN imports : i # nextImport => imports'[i] = imports[i]
    <3>1. imports' = Put(imports, nextImport, new) /\ imports \in [DOMAIN imports -> Imports]
      BY <2>1, <2>2
    <3> DEFINE f == Put(imports, nextImport, new)
    <3>2. /\ f \in [DOMAIN imports \cup {nextImport} -> Imports]
          /\ DOMAIN f = DOMAIN imports \cup {nextImport}
          /\ f[nextImport] = new
          /\ \A i \in DOMAIN imports : i # nextImport => f[i] = imports[i]
      BY <3>1, <2>3 DEF Put
    <3>3. QED
      BY <3>1, <3>2
  <2>5. nextImport' \in 1 .. MaxImports + 1 /\ nextImport \in ImportIds
    BY <2>1, <2>2, BoundsAreNaturals DEF ImportIds
  <2>6. imports' \in [DOMAIN imports' -> Imports] /\ DOMAIN imports' \subseteq ImportIds
    BY <2>2, <2>4, <2>5
  <2>7. \A i \in DOMAIN imports : imports[i].conn \in DOMAIN conns
    BY DEF IInv, Ownership, OwnedByOpenConnection
  <2>8. \A i \in DOMAIN imports' : imports'[i].conn \in DOMAIN conns
    BY <2>1, <2>3, <2>4, <2>7
  <2>9. QED
    BY <2>1, <2>2, <2>5, <2>6, <2>8, ImportsKeepIInv
<1>3. QED
  BY <1>1, <1>2

\* data/import_commit and data/import_abort.
LEMMA ForgetImportKeepsIInv ==
  ASSUME IInv, NEW i \in ImportIds, ForgetImport(i)
  PROVE  IInv'
<1>1. /\ imports' = Drop(imports, {i}) /\ Reply("ok")
      /\ UNCHANGED <<serving, initialized, conns, cursors, txs, streams, nextConnID, nextCursor,
                     nextTx, nextImport, pools, rows, sqltx, durable, nextStmt>>
  BY DEF ForgetImport, counters, sqlVars
<1>2. /\ imports \in [DOMAIN imports -> Imports] /\ DOMAIN imports \subseteq ImportIds
      /\ durable \subseteq [stmt : Nat, owner : Owners] /\ nextStmt \in Nat
      /\ nextImport \in 1 .. MaxImports + 1
  BY DEF IInv, TypeOK, SqlTypeOK
<1>3. /\ imports' \in [DOMAIN imports \ {i} -> Imports] /\ DOMAIN imports' = DOMAIN imports \ {i}
      /\ \A j \in DOMAIN imports \ {i} : imports'[j] = imports[j]
  BY <1>1, <1>2, DropProperties
<1>4. \A j \in DOMAIN imports' : imports'[j].conn \in DOMAIN conns
  BY <1>3, ImportsStayOwned
<1>5. QED
  BY <1>1, <1>2, <1>3, <1>4, ImportsKeepIInv

\* data/import_chunk counts the rows and leaves the import with its connection.
LEMMA HandleDataImportChunkKeepsIInv ==
  ASSUME IInv, NEW i \in ImportIds, NEW n \in 0 .. MaxBatch, NEW bad \in SUBSET (1 .. n),
         handleDataImportChunk(i, n, bad)
  PROVE  IInv'
<1>1. CASE Answer("UnknownConnID") \/ Answer("InvalidParams")
  BY <1>1, AnswerKeepsIInv DEF ErrorCodes
<1>2. CASE ~(Answer("UnknownConnID") \/ Answer("InvalidParams"))
  <2>1. /\ i \in DOMAIN imports /\ Reply("ok")
        /\ durable' = durable \cup Fresh((1 .. n) \ bad, OfImport(i))
        /\ imports' = [imports EXCEPT ![i].inserted = @ + Inserted(n, bad),
                                      ![i].failed = @ + Cardinality(bad)]
        /\ nextStmt' = nextStmt + n
        /\ UNCHANGED <<serving, initialized, conns, cursors, txs, streams, nextConnID, nextCursor,
                       nextTx, nextImport, pools, rows, sqltx>>
    BY <1>2 DEF handleDataImportChunk, counters
  <2>2. /\ imports \in [DOMAIN imports -> Imports] /\ DOMAIN imports \subseteq ImportIds
        /\ durable \subseteq [stmt : Nat, owner : Owners] /\ nextStmt \in Nat
        /\ nextImport \in 1 .. MaxImports + 1
    BY DEF IInv, TypeOK, SqlTypeOK
  <2>3. n \in Nat
    BY MaxBatchIsNatural
  <2>4. Inserted(n, bad) \in Nat /\ Cardinality(bad) \in Nat
    <3>1. IsFiniteSet(1 .. n)
      BY <2>3, FS_Interval
    <3>2. IsFiniteSet(bad) /\ IsFiniteSet((1 .. n) \ bad)
      BY <3>1, FS_Subset
    <3>3. QED
      BY <3>2, FS_CardinalityType DEF Inserted
  <2> DEFINE a == Inserted(n, bad)
             b == Cardinality(bad)
  <2>5. imports' = [imports EXCEPT ![i].inserted = @ + a, ![i].failed = @ + b]
    BY <2>1
  <2>6. a \in Nat /\ b \in Nat
    BY <2>4
  <2> HIDE DEF a, b
  <2>7. /\ imports' \in [DOMAIN imports -> Imports] /\ DOMAIN imports' = DOMAIN imports
        /\ \A j \in DOMAIN imports : imports'[j].conn = imports[j].conn
    <3>1. imports[i] \in Imports
      BY <2>1, <2>2
    <3> DEFINE new == [imports[i] EXCEPT !.inserted = @ + a, !.failed = @ + b]
    <3>2. imports' = [imports EXCEPT ![i] = new]
      BY <2>5
    <3>3. new \in Imports /\ new.conn = imports[i].conn
      <4>1. imports[i].inserted + a \in Nat /\ imports[i].failed + b \in Nat
        BY <2>6, <3>1 DEF Imports
      <4> DEFINE x == imports[i].inserted + a
                 y == imports[i].failed + b
      <4>2. new = [imports[i] EXCEPT !.inserted = x, !.failed = y]
        OBVIOUS
      <4>3. x \in Nat /\ y \in Nat
        BY <4>1
      <4> HIDE DEF x, y
      <4>4. QED
        BY <4>2, <4>3, <3>1 DEF Imports
    <3> HIDE DEF new
    <3>4. QED
      BY <2>2, <3>2, <3>3
  <2>8. \A j \in DOMAIN imports' : imports'[j].conn \in DOMAIN conns
    BY <2>7, ImportsStayOwned
  <2>9. durable' \subseteq [stmt : Nat, owner : Owners] /\ nextStmt' \in Nat
    <3>1. \A k \in (1 .. n) \ bad : k \in Nat /\ k >= 1
      BY <2>3
    <3>2. Fresh((1 .. n) \ bad, OfImport(i)) \subseteq [stmt : Nat, owner : Owners]
      BY <2>2, <3>1, FreshType, OwnersType
    <3>3. durable' \subseteq [stmt : Nat, owner : Owners]
      BY <2>1, <2>2, <3>2, Zenon
    <3>4. nextStmt' \in Nat
      BY <2>1, <2>2, <2>3
    <3>5. QED
      BY <3>3, <3>4
  <2>10. QED
    BY <2>1, <2>2, <2>7, <2>8, <2>9, ImportsKeepIInv
<1>3. QED
  BY <1>1, <1>2

-----------------------------------------------------------------------------
(* Cursors *)

\* A step of one cursor that neither opens a result nor changes its owner.
LEMMA OneCursorKeepsIInv ==
  ASSUME IInv, NEW c \in DOMAIN cursors, NEW r \in Rows, NEW cur \in Cursors,
         rows' = [rows EXCEPT ![c] = r],
         cursors' = [cursors EXCEPT ![c] = cur] \/ (cursors' = Drop(cursors, {c}) /\ r.status # "open"),
         r.tx = rows[c].tx, cur.conn = cursors[c].conn,
         1 <= r.next, r.next <= r.total + 1,
         cur.maxRows # None => cur.fetched <= cur.maxRows,
         r.status = "open" => rows[c].status = "open" /\ cur.rows /\ ~cur.done,
         reply' \in {"none", "ok", "error"},
         UNCHANGED <<serving, initialized, conns, txs, imports, streams, counters, pools, sqltx,
                     durable, nextStmt>>
  PROVE  IInv'
<1> USE DEF IInv
<1>1. UNCHANGED <<nextConnID, nextCursor, nextTx, nextImport>>
  BY DEF counters
<1>2. /\ rows \in [DOMAIN rows -> Rows] /\ cursors \in [DOMAIN cursors -> Cursors]
      /\ c \in DOMAIN rows
  BY DEF TypeOK, SqlTypeOK, IdsInOrder
<1>3. /\ rows' \in [DOMAIN rows -> Rows] /\ DOMAIN rows' = DOMAIN rows /\ rows'[c] = r
      /\ \A x \in DOMAIN rows : x # c => rows'[x] = rows[x]
  BY <1>2
<1>4. /\ cursors' \in [DOMAIN cursors' -> Cursors] /\ DOMAIN cursors' \subseteq DOMAIN cursors
      /\ \A x \in DOMAIN cursors : x # c => x \in DOMAIN cursors' /\ cursors'[x] = cursors[x]
      /\ c \in DOMAIN cursors' => cursors'[c] = cur
      /\ r.status = "open" => c \in DOMAIN cursors'
  <2>1. CASE cursors' = [cursors EXCEPT ![c] = cur]
    BY <1>2, <2>1
  <2>2. CASE cursors' = Drop(cursors, {c}) /\ r.status # "open"
    <3>1. /\ cursors' \in [DOMAIN cursors \ {c} -> Cursors] /\ DOMAIN cursors' = DOMAIN cursors \ {c}
          /\ \A x \in DOMAIN cursors \ {c} : cursors'[x] = cursors[x]
      <4>1. cursors' = Drop(cursors, {c}) /\ cursors \in [DOMAIN cursors -> Cursors]
        BY <1>2, <2>2
      <4>2. QED
        BY <4>1 DEF Drop, Restrict
    <3>2. QED
      BY <2>2, <3>1
  <2>3. QED
    BY <2>1, <2>2
<1>5. SqlTypeOK'
  BY <1>3 DEF TypeOK, SqlTypeOK
<1>6. TypeOK'
  BY <1>1, <1>4, <1>5 DEF TypeOK
<1>7. IdsInOrder'
  BY <1>1, <1>3, <1>4 DEF IdsInOrder
<1>8. WithinLimits'
  BY <1>3, <1>4 DEF WithinLimits
<1>9. OwnedByOpenConnection'
  BY <1>4 DEF Ownership, OwnedByOpenConnection
<1>10. \A x \in DOMAIN rows' : rows'[x].status = "open" =>
          x \in DOMAIN cursors' /\ cursors'[x].rows /\ ~cursors'[x].done
  BY <1>3, <1>4 DEF Ownership, NothingLeaks
<1>11. NothingLeaks'
  BY <1>10 DEF Ownership, NothingLeaks, Active
<1>12. ResultsFollowTheirTransaction'
  <2> SUFFICES ASSUME NEW x \in DOMAIN rows', rows'[x].status = "open", rows'[x].tx # None
               PROVE  /\ rows'[x].tx \in DOMAIN txs /\ sqltx[rows'[x].tx].status = "active"
                      /\ txs[rows'[x].tx] = cursors'[x].conn
    BY DEF ResultsFollowTheirTransaction, Active
  <2>1. x \in DOMAIN rows /\ rows[x].status = "open" /\ rows'[x].tx = rows[x].tx
    BY <1>3
  <2>2. cursors'[x].conn = cursors[x].conn
    BY <1>4, <1>10
  <2>3. QED
    BY <2>1, <2>2 DEF Ownership, ResultsFollowTheirTransaction, Active
<1>13. QED
  BY <1>6, <1>7, <1>8, <1>9, <1>11, <1>12 DEF Ownership

\* closeCursor, as cursor/close and cursor/cancel call it.
LEMMA CloseCursorKeepsIInv ==
  ASSUME IInv, NEW c \in DOMAIN cursors, NEW keep \in BOOLEAN, closeCursor(c, keep),
         UNCHANGED <<serving, initialized, conns, txs, imports, streams, counters, pools, sqltx,
                     durable, nextStmt>>
  PROVE  IInv'
<1> USE DEF IInv
<1>1. /\ rows \in [DOMAIN rows -> Rows] /\ cursors \in [DOMAIN cursors -> Cursors]
      /\ c \in DOMAIN rows /\ cursors[c] \in Cursors /\ rows[c] \in Rows
  BY DEF TypeOK, SqlTypeOK, IdsInOrder
<1>2. rows' = Closed(HasRows({c})) /\ reply' \in {"none", "ok", "error"}
  BY DEF closeCursor, Reply, ErrorCodes
<1> DEFINE cur == [cursors[c] EXCEPT !.rows = FALSE, !.done = TRUE]
<1>3. cursors' = [cursors EXCEPT ![c] = cur] \/ cursors' = Drop(cursors, {c})
  BY DEF closeCursor
<1>4. /\ cur \in Cursors /\ cur.conn = cursors[c].conn
      /\ cur.maxRows = cursors[c].maxRows /\ cur.fetched = cursors[c].fetched
  BY <1>1 DEF Cursors
<1>5. cur.maxRows # None => cur.fetched <= cur.maxRows
  BY <1>4 DEF WithinLimits
<1> HIDE DEF cur
<1> DEFINE r == IF cursors[c].rows THEN [rows[c] EXCEPT !.status = "closed"] ELSE rows[c]
<1>6. rows' = [rows EXCEPT ![c] = r]
  BY <1>1, <1>2 DEF Closed, HasRows
<1>7. r \in Rows /\ r.tx = rows[c].tx /\ r.next = rows[c].next /\ r.total = rows[c].total
  BY <1>1 DEF Rows
<1>8. r.status # "open"
  <2>1. CASE cursors[c].rows
    BY <1>1, <2>1 DEF Rows
  <2>2. CASE ~cursors[c].rows
    BY <1>1, <2>2 DEF Ownership, NothingLeaks
  <2>3. QED
    BY <2>1, <2>2
<1> HIDE DEF r
<1>9. 1 <= r.next /\ r.next <= r.total + 1
  BY <1>1, <1>7 DEF WithinLimits
<1> HIDE DEF IInv
<1>10. cursors' = [cursors EXCEPT ![c] = cur] \/ (cursors' = Drop(cursors, {c}) /\ r.status # "open")
  BY <1>3, <1>8
<1>11. r.status = "open" => rows[c].status = "open" /\ cur.rows /\ ~cur.done
  BY <1>8
<1>12. /\ r \in Rows /\ cur \in Cursors /\ r.tx = rows[c].tx /\ cur.conn = cursors[c].conn
       /\ reply' \in {"none", "ok", "error"}
  BY <1>2, <1>4, <1>7
<1>13. QED
  BY <1>5, <1>6, <1>9, <1>10, <1>11, <1>12, OneCursorKeepsIInv, Zenon

\* cursor/close closes the result and forgets the cursor unless that failed.
LEMMA HandleCursorCloseKeepsIInv ==
  ASSUME IInv, NEW c \in CursorIds, handleCursorClose(c)
  PROVE  IInv'
<1>1. CASE Answer("UnknownCursorID")
  BY <1>1, AnswerKeepsIInv DEF ErrorCodes
<1>2. CASE ~Answer("UnknownCursorID")
  BY <1>2, CloseCursorKeepsIInv DEF handleCursorClose
<1>3. QED
  BY <1>1, <1>2

\* cursor/cancel closes the result and keeps the cursor.
LEMMA HandleCursorCancelKeepsIInv ==
  ASSUME IInv, NEW c \in CursorIds, handleCursorCancel(c)
  PROVE  IInv'
<1>1. CASE Answer("UnknownCursorID")
  BY <1>1, AnswerKeepsIInv DEF ErrorCodes
<1>2. CASE ~Answer("UnknownCursorID")
  BY <1>2, CloseCursorKeepsIInv DEF handleCursorCancel
<1>3. QED
  BY <1>1, <1>2

\* What fetchRows may still read is never negative.
LEMMA FetchBounds ==
  ASSUME IInv, NEW c \in DOMAIN cursors, NEW n \in 1 .. MaxResult + 1
  PROVE  /\ Wanted(cursors[c], n) \in Nat /\ Left(rows[c]) \in Nat
         /\ MinOf(Wanted(cursors[c], n), Left(rows[c])) \in Nat
         /\ MinOf(Wanted(cursors[c], n), Left(rows[c])) <= Wanted(cursors[c], n)
         /\ MinOf(Wanted(cursors[c], n), Left(rows[c])) <= Left(rows[c])
         /\ cursors[c].maxRows # None => cursors[c].fetched + Wanted(cursors[c], n) <= cursors[c].maxRows
<1>1. cursors[c] \in Cursors /\ c \in DOMAIN rows /\ rows[c] \in Rows
  BY DEF IInv, TypeOK, SqlTypeOK, IdsInOrder
<1> DEFINE max == cursors[c].maxRows
           got == cursors[c].fetched
<1>2. got \in Nat /\ (max # None => max \in Nat) /\ n \in Nat
  BY <1>1, BoundsAreNaturals DEF Cursors, Limits
<1>3. max # None => got <= max
  BY DEF IInv, WithinLimits
<1>4. Wanted(cursors[c], n) = IF max = None \/ got + n <= max THEN n ELSE max - got
  BY DEF Wanted
<1> HIDE DEF max, got
<1>5. Wanted(cursors[c], n) \in Nat /\ (max # None => got + Wanted(cursors[c], n) <= max)
  BY <1>2, <1>3, <1>4
<1>6. rows[c].next \in Nat /\ rows[c].total \in Nat
  BY <1>1, BoundsAreNaturals DEF Rows
<1>7. rows[c].next <= rows[c].total + 1
  BY <1>1 DEF IInv, WithinLimits
<1>8. Left(rows[c]) \in Nat
  BY <1>6, <1>7 DEF Left
<1>9. QED
  BY <1>5, <1>8 DEF MinOf, max, got

\* A fetch that reads k rows of the result, counts d of them and leaves the
\* result open, closes it or finds it dead.
FetchReads(c, k, d, status, done, hasRows) ==
  /\ k \in Nat /\ d \in Nat /\ k <= Left(rows[c])
  /\ status \in {"open", "closed", "dead"} /\ done \in BOOLEAN /\ hasRows \in BOOLEAN
  /\ rows[c].status = "open"
  /\ status = "open" => hasRows /\ ~done
  /\ cursors[c].maxRows # None => cursors[c].fetched + d <= cursors[c].maxRows
  /\ rows' = [rows EXCEPT ![c] = [rows[c] EXCEPT !.next = rows[c].next + k, !.status = status]]
  /\ cursors' = [cursors EXCEPT ![c] = [cursors[c] EXCEPT !.fetched = cursors[c].fetched + d,
                                                          !.done = done, !.rows = hasRows]]

\* Such a fetch reads within the result and the limit.
LEMMA FetchKeepsIInv ==
  ASSUME IInv, NEW c \in DOMAIN cursors, NEW k, NEW d, NEW status, NEW done, NEW hasRows,
         FetchReads(c, k, d, status, done, hasRows),
         reply' \in {"none", "ok", "error"},
         UNCHANGED <<serving, initialized, conns, txs, imports, streams, counters, pools, sqltx,
                     durable, nextStmt>>
  PROVE  IInv'
<1>0. /\ k \in Nat /\ d \in Nat /\ k <= Left(rows[c])
      /\ status \in {"open", "closed", "dead"} /\ done \in BOOLEAN /\ hasRows \in BOOLEAN
      /\ rows[c].status = "open"
      /\ status = "open" => hasRows /\ ~done
      /\ cursors[c].maxRows # None => cursors[c].fetched + d <= cursors[c].maxRows
  BY DEF FetchReads
<1>1. cursors[c] \in Cursors /\ c \in DOMAIN rows /\ rows[c] \in Rows
  BY DEF IInv, TypeOK, SqlTypeOK, IdsInOrder
<1> DEFINE next == rows[c].next + k
           fetched == cursors[c].fetched + d
<1>2. rows[c].next \in Nat /\ rows[c].total \in Nat /\ 1 <= rows[c].next
  BY <1>1, BoundsAreNaturals DEF Rows, IInv, WithinLimits
<1>3. next \in Nat /\ 1 <= next /\ next <= rows[c].total + 1
  BY <1>0, <1>2 DEF Left
<1>4. cursors[c].fetched \in Nat
  BY <1>1 DEF Cursors
<1>5. fetched \in Nat /\ (cursors[c].maxRows # None => fetched <= cursors[c].maxRows)
  BY <1>0, <1>4
<1> DEFINE r == [rows[c] EXCEPT !.next = next, !.status = status]
           cur == [cursors[c] EXCEPT !.fetched = fetched, !.done = done, !.rows = hasRows]
<1>6. rows' = [rows EXCEPT ![c] = r] /\ cursors' = [cursors EXCEPT ![c] = cur]
  BY DEF FetchReads
<1> HIDE DEF next, fetched
<1>7. /\ r \in Rows /\ r.tx = rows[c].tx /\ r.next = next /\ r.total = rows[c].total
      /\ r.status = status
  BY <1>0, <1>1, <1>3 DEF Rows
<1>8. /\ cur \in Cursors /\ cur.conn = cursors[c].conn /\ cur.maxRows = cursors[c].maxRows
      /\ cur.fetched = fetched /\ cur.rows = hasRows /\ cur.done = done
  BY <1>0, <1>1, <1>5 DEF Cursors
<1> HIDE DEF r, cur
<1>9. r.status = "open" => rows[c].status = "open" /\ cur.rows /\ ~cur.done
  BY <1>0, <1>7, <1>8
<1>10. 1 <= r.next /\ r.next <= r.total + 1 /\ (cur.maxRows # None => cur.fetched <= cur.maxRows)
  BY <1>3, <1>5, <1>7, <1>8
<1>11. r \in Rows /\ cur \in Cursors /\ r.tx = rows[c].tx /\ cur.conn = cursors[c].conn
  BY <1>7, <1>8
<1>12. QED
  BY <1>6, <1>9, <1>10, <1>11, OneCursorKeepsIInv

\* cursor/fetch.
LEMMA HandleCursorFetchKeepsIInv ==
  ASSUME IInv, NEW c \in CursorIds, NEW n \in 1 .. MaxResult + 1, handleCursorFetch(c, n)
  PROVE  IInv'
<1>1. CASE Answer("UnknownCursorID") \/ Answer("ok")
  BY <1>1, AnswerKeepsIInv DEF ErrorCodes
<1>2. CASE ~(Answer("UnknownCursorID") \/ Answer("ok"))
  <2>1. /\ c \in DOMAIN cursors /\ ~cursors[c].done /\ cursors[c].rows
        /\ UNCHANGED <<serving, initialized, conns, txs, imports, streams, counters, pools, sqltx,
                       durable, nextStmt>>
        /\ \/ rows[c].status = "open" /\ (FetchSucceeds(c, n) \/ FetchFails(c, n))
           \/ Reply("SQLSyntax") /\ UNCHANGED <<rows, cursors>>
    BY <1>2 DEF handleCursorFetch
  <2>2. cursors[c] \in Cursors /\ c \in DOMAIN rows /\ rows[c] \in Rows
    BY <2>1 DEF IInv, TypeOK, SqlTypeOK, IdsInOrder
  <2>3. /\ rows \in [DOMAIN rows -> Rows] /\ cursors \in [DOMAIN cursors -> Cursors]
    BY DEF IInv, TypeOK, SqlTypeOK
  <2> DEFINE w == Wanted(cursors[c], n)
             left == Left(rows[c])
             m == MinOf(w, left)
  <2>4. /\ w \in Nat /\ left \in Nat /\ m \in Nat /\ m <= w /\ m <= left
        /\ cursors[c].maxRows # None => cursors[c].fetched + w <= cursors[c].maxRows
    BY <2>1, FetchBounds
  <2>5. CASE rows[c].status = "open" /\ FetchSucceeds(c, n)
    <3> DEFINE eof == left < w
               done == eof \/ (cursors[c].maxRows # None /\ cursors[c].fetched + m >= cursors[c].maxRows)
               status == IF done THEN "closed" ELSE "open"
    <3>1. reply' \in {"none", "ok", "error"}
      BY <2>5 DEF FetchSucceeds, Reply, ErrorCodes
    <3>2. /\ rows' = [rows EXCEPT ![c].next = @ + m, ![c].status = IF done THEN "closed" ELSE @]
          /\ \/ cursors' = [cursors EXCEPT ![c].fetched = @ + m, ![c].done = done, ![c].rows = ~done]
             \/ done /\ cursors' = [cursors EXCEPT ![c].fetched = @ + m, ![c].done = TRUE]
      BY <2>5 DEF FetchSucceeds
    <3>3. done \in BOOLEAN /\ status \in {"open", "closed", "dead"} /\ (status = "open" => ~done)
      OBVIOUS
    <3>4. cursors[c].maxRows # None => cursors[c].fetched + m <= cursors[c].maxRows
      <4>1. cursors[c].fetched \in Nat /\ (cursors[c].maxRows # None => cursors[c].maxRows \in Nat)
        BY <2>2, BoundsAreNaturals DEF Cursors, Limits
      <4> HIDE DEF w, left, m
      <4>2. QED
        BY <2>4, <4>1
    <3> HIDE DEF done, m, left, w
    <3>5. rows' = [rows EXCEPT ![c] = [rows[c] EXCEPT !.next = rows[c].next + m, !.status = status]]
      BY <2>3, <2>5, <3>2
    <3>6. CASE cursors' = [cursors EXCEPT ![c].fetched = @ + m, ![c].done = done, ![c].rows = ~done]
      <4>1. cursors' = [cursors EXCEPT ![c] = [cursors[c] EXCEPT !.fetched = cursors[c].fetched + m,
                                                                 !.done = done, !.rows = ~done]]
        BY <3>6
      <4>2. (~done) \in BOOLEAN /\ (status = "open" => (~done) /\ ~done)
        BY <3>3
      <4>3. FetchReads(c, m, m, status, done, ~done)
        BY <2>4, <2>5, <3>3, <3>4, <3>5, <4>1, <4>2 DEF left, FetchReads
      <4>4. QED
        BY <2>1, <3>1, <4>3, FetchKeepsIInv
    <3>7. CASE done /\ cursors' = [cursors EXCEPT ![c].fetched = @ + m, ![c].done = TRUE]
      <4>1. cursors[c].rows \in BOOLEAN
        BY <2>2 DEF Cursors
      <4>2. cursors[c].rows = TRUE /\ done = TRUE
        BY <2>1, <3>3, <3>7, <4>1, Zenon
      <4>3. [cursors[c] EXCEPT !.fetched = cursors[c].fetched + m, !.done = TRUE]
              = [cursors[c] EXCEPT !.fetched = cursors[c].fetched + m, !.done = done, !.rows = done]
        BY <2>2, <4>2 DEF Cursors
      <4>4. cursors' = [cursors EXCEPT ![c] = [cursors[c] EXCEPT !.fetched = cursors[c].fetched + m,
                                                                 !.done = done, !.rows = done]]
        BY <3>7, <4>3
      <4>5. status = "open" => done /\ ~done
        BY <3>7
      <4>6. FetchReads(c, m, m, status, done, done)
        BY <2>4, <2>5, <3>3, <3>4, <3>5, <4>4, <4>5 DEF left, FetchReads
      <4>7. QED
        BY <2>1, <3>1, <4>6, FetchKeepsIInv
    <3>8. QED
      BY <3>2, <3>6, <3>7
  <2>6. CASE rows[c].status = "open" /\ FetchFails(c, n)
    <3>1. PICK k \in 0 .. MaxResult :
             /\ UNCHANGED cursors /\ Reply("SQLSyntax")
             /\ \/ k < left /\ rows' = [rows EXCEPT ![c].next = @ + k + 1]
                \/ k <= left /\ rows' = [rows EXCEPT ![c].next = @ + k, ![c].status = "dead"]
      BY <2>6 DEF FetchFails
    <3>2. reply' \in {"none", "ok", "error"}
      BY <3>1 DEF Reply, ErrorCodes
    <3>3. /\ cursors[c].fetched \in Nat /\ cursors[c].rows \in BOOLEAN /\ cursors[c].done \in BOOLEAN
          /\ (cursors[c].maxRows # None => cursors[c].fetched + 0 <= cursors[c].maxRows)
      <4>1. /\ cursors[c].fetched \in Nat /\ cursors[c].rows \in BOOLEAN /\ cursors[c].done \in BOOLEAN
        BY <2>2 DEF Cursors
      <4>2. cursors[c].maxRows # None => cursors[c].fetched <= cursors[c].maxRows
        BY <2>1 DEF IInv, WithinLimits
      <4>3. QED
        BY <4>1, <4>2
    <3>4. cursors' = [cursors EXCEPT ![c] = [cursors[c] EXCEPT !.fetched = cursors[c].fetched + 0,
                                         !.done = cursors[c].done, !.rows = cursors[c].rows]]
      <4>1. cursors[c].fetched + 0 = cursors[c].fetched
        BY <3>3
      <4>2. [cursors[c] EXCEPT !.fetched = cursors[c].fetched, !.done = cursors[c].done,
                               !.rows = cursors[c].rows] = cursors[c]
        BY <2>2 DEF Cursors
      <4>3. cursors' = [cursors EXCEPT ![c] = cursors[c]]
        BY <2>3, <3>1
      <4>4. QED
        BY <4>1, <4>2, <4>3
    <3>5. k \in Nat /\ k + 1 \in Nat /\ rows[c].next \in Nat
      BY <2>2, BoundsAreNaturals DEF Rows
    <3> HIDE DEF left
    <3>6. CASE k < left /\ rows' = [rows EXCEPT ![c].next = @ + k + 1]
      <4>1. k + 1 <= left
        BY <2>4, <3>5, <3>6
      <4>2. rows' = [rows EXCEPT ![c] = [rows[c] EXCEPT !.next = rows[c].next + (k + 1),
                                                        !.status = "open"]]
        <5>1. rows[c].next + k + 1 = rows[c].next + (k + 1)
          BY <3>5
        <5>2. [rows[c] EXCEPT !.next = rows[c].next + k + 1]
                = [rows[c] EXCEPT !.next = rows[c].next + k + 1, !.status = "open"]
          BY <2>2, <2>6 DEF Rows
        <5>3. rows' = [rows EXCEPT ![c] = [rows[c] EXCEPT !.next = rows[c].next + k + 1]]
          BY <3>6
        <5>4. QED
          BY <5>1, <5>2, <5>3
      <4>3. FetchReads(c, k + 1, 0, "open", cursors[c].done, cursors[c].rows)
        BY <2>1, <2>6, <3>3, <3>4, <3>5, <4>1, <4>2 DEF left, FetchReads
      <4>4. QED
        BY <2>1, <3>2, <4>3, FetchKeepsIInv
    <3>7. CASE k <= left /\ rows' = [rows EXCEPT ![c].next = @ + k, ![c].status = "dead"]
      <4>1. rows' = [rows EXCEPT ![c] = [rows[c] EXCEPT !.next = rows[c].next + k, !.status = "dead"]]
        BY <3>7
      <4>2. FetchReads(c, k, 0, "dead", cursors[c].done, cursors[c].rows)
        BY <2>6, <3>3, <3>4, <3>5, <3>7, <4>1 DEF left, FetchReads
      <4>3. QED
        BY <2>1, <3>2, <4>2, FetchKeepsIInv
    <3>8. QED
      BY <3>1, <3>6, <3>7
  <2>7. CASE Reply("SQLSyntax") /\ UNCHANGED <<rows, cursors>>
    <3>1. reply' \in {"none", "ok", "error"}
      BY <2>7 DEF Reply, ErrorCodes
    <3>2. TypeOK'
      BY <2>1, <2>7, <3>1 DEF IInv, TypeOK, SqlTypeOK, counters
    <3>3. UNCHANGED <<conns, cursors, txs, nextCursor, nextTx, pools, rows, sqltx, imports>>
      BY <2>1, <2>7 DEF counters
    <3>4. IdsInOrder' /\ WithinLimits' /\ Ownership'
      BY <3>3, ImportsStayOwned, FrameKeepsRest
    <3>5. QED
      BY <3>2, <3>4 DEF IInv
  <2>8. QED
    BY <2>1, <2>5, <2>6, <2>7
<1>3. QED
  BY <1>1, <1>2

\* What a table looks like after an entry with a new key.
Grown(f, g, x, v, R) ==
  /\ g \in [DOMAIN f \cup {x} -> R] /\ DOMAIN g = DOMAIN f \cup {x} /\ g[x] = v
  /\ \A y \in DOMAIN f : y # x => g[y] = f[y]

\* Put makes such a table.
LEMMA PutGrows ==
  ASSUME NEW f, NEW x, NEW v, NEW R, f \in [DOMAIN f -> R], v \in R, NEW g, g = Put(f, x, v)
  PROVE  Grown(f, g, x, v, R)
  BY DEF Put, Grown

\* query/start opens a result under a number no cursor has had, in a transaction
\* of the same connection or in none.
LEMMA HandleQueryStartKeepsIInv ==
  ASSUME IInv, NEW c \in ConnIds, NEW t \in TxIds \cup {None}, NEW max \in Limits,
         handleQueryStart(c, t, max)
  PROVE  IInv'
<1> USE DEF IInv
<1>1. CASE Answer("UnknownConnID") \/ Answer("InvalidParams") \/ Answer("SQLSyntax")
  BY <1>1, AnswerKeepsIInv DEF ErrorCodes
<1>2. CASE ~(Answer("UnknownConnID") \/ Answer("InvalidParams") \/ Answer("SQLSyntax"))
  <2>0. /\ c \in DOMAIN conns
        /\ t = None \/ (TxForRequest(t, c) /\ Active(t))
        /\ \E k \in 0 .. MaxResult : QueryStarts(c, t, max, k)
    BY <1>2 DEF handleQueryStart
  <2> PICK total \in 0 .. MaxResult : QueryStarts(c, t, max, total)
    BY <2>0
  <2> DEFINE n == nextCursor
             r == [conn |-> c, tx |-> t, total |-> total, next |-> 1, status |-> "open"]
             cur == [conn |-> c, rows |-> TRUE, maxRows |-> max, fetched |-> 0, done |-> FALSE]
  <2>1. /\ c \in DOMAIN conns /\ n <= MaxCursors
        /\ t = None \/ (TxForRequest(t, c) /\ Active(t))
        /\ rows' = Put(rows, n, r) /\ cursors' = Put(cursors, n, cur)
        /\ nextCursor' = n + 1 /\ Reply("ok")
        /\ UNCHANGED <<serving, initialized, conns, txs, imports, streams, nextConnID,
                       nextTx, nextImport, pools, sqltx, durable, nextStmt>>
    BY <2>0 DEF QueryStarts
  <2>2. /\ rows \in [DOMAIN rows -> Rows] /\ cursors \in [DOMAIN cursors -> Cursors]
        /\ DOMAIN rows \subseteq CursorIds /\ DOMAIN cursors \subseteq CursorIds
        /\ n \in 1 .. MaxCursors + 1
    BY DEF TypeOK, SqlTypeOK
  <2>3. /\ r \in Rows /\ r.tx = t /\ r.next = 1 /\ r.total = total /\ r.status = "open"
        /\ total \in Nat
    BY BoundsAreNaturals DEF Rows
  <2>4. cur \in Cursors /\ cur.conn = c /\ cur.maxRows = max /\ cur.fetched = 0
    BY DEF Cursors
  <2>5. cur.rows /\ ~cur.done
    BY Zenon
  <2> HIDE DEF r, cur
  <2>6. Grown(rows, rows', n, r, Rows)
    BY <2>1, <2>2, <2>3, PutGrows
  <2>7. Grown(cursors, cursors', n, cur, Cursors)
    BY <2>1, <2>2, <2>4, PutGrows
  <2>8. n \in CursorIds /\ n + 1 \in 1 .. MaxCursors + 1 /\ n < n + 1 /\ n \in Nat
    BY <2>1, <2>2, BoundsAreNaturals DEF CursorIds
  <2>9. /\ rows' \in [DOMAIN rows' -> Rows] /\ DOMAIN rows' \subseteq CursorIds
        /\ cursors' \in [DOMAIN cursors' -> Cursors] /\ DOMAIN cursors' \subseteq CursorIds
    BY <2>2, <2>6, <2>7, <2>8 DEF Grown
  <2>10. reply' \in {"none", "ok", "error"}
    BY <2>1 DEF Reply
  <2>11. SqlTypeOK'
    BY <2>1, <2>9 DEF TypeOK, SqlTypeOK
  <2>12. TypeOK'
    BY <2>1, <2>8, <2>9, <2>10, <2>11 DEF TypeOK
  <2>13. n \notin DOMAIN rows /\ n \notin DOMAIN cursors
    BY <2>8 DEF IdsInOrder
  <2>14. IdsInOrder'
    <3>1. \A x \in DOMAIN cursors' : x \in DOMAIN rows'
      BY <2>6, <2>7 DEF IdsInOrder, Grown
    <3>2. \A x \in DOMAIN rows' : x < nextCursor'
      <4>1. \A x \in DOMAIN rows : x \in Nat /\ x < n
        BY <2>2, BoundsAreNaturals DEF IdsInOrder, CursorIds
      <4>2. QED
        BY <2>1, <2>6, <2>8, <4>1 DEF Grown
    <3>3. QED
      BY <2>1, <3>1, <3>2 DEF IdsInOrder
  <2>15. WithinLimits'
    <3>1. \A x \in DOMAIN rows' : 1 <= rows'[x].next /\ rows'[x].next <= rows'[x].total + 1
      BY <2>3, <2>6 DEF Grown, WithinLimits
    <3>2. max # None => 0 <= max
      BY BoundsAreNaturals DEF Limits
    <3>3. \A x \in DOMAIN cursors' :
             cursors'[x].maxRows # None => cursors'[x].fetched <= cursors'[x].maxRows
      BY <2>4, <2>7, <3>2 DEF Grown, WithinLimits
    <3>4. QED
      BY <3>1, <3>3 DEF WithinLimits
  <2>16. OwnedByOpenConnection'
    BY <2>1, <2>4, <2>7 DEF Grown, Ownership, OwnedByOpenConnection
  <2>17. NothingLeaks'
    <3>1. \A x \in DOMAIN rows' : rows'[x].status = "open" =>
             x \in DOMAIN cursors' /\ cursors'[x].rows /\ ~cursors'[x].done
      <4>1. \A x \in DOMAIN rows : rows[x].status = "open" =>
               x \in DOMAIN cursors /\ cursors[x].rows /\ ~cursors[x].done
        BY DEF Ownership, NothingLeaks
      <4>2. QED
        BY <2>5, <2>6, <2>7, <2>13, <4>1 DEF Grown
    <3>2. QED
      BY <2>1, <3>1 DEF Ownership, NothingLeaks, Active
  <2>18. ResultsFollowTheirTransaction'
    <3> SUFFICES ASSUME NEW x \in DOMAIN rows', rows'[x].status = "open", rows'[x].tx # None
                 PROVE  /\ rows'[x].tx \in DOMAIN txs /\ sqltx[rows'[x].tx].status = "active"
                        /\ txs[rows'[x].tx] = cursors'[x].conn
      BY <2>1 DEF ResultsFollowTheirTransaction, Active
    <3>1. CASE x = n
      <4>1. rows'[x].tx = t /\ cursors'[x].conn = c
        BY <2>3, <2>4, <2>6, <2>7, <3>1 DEF Grown
      <4>2. QED
        BY <2>1, <4>1 DEF TxForRequest, Active
    <3>2. CASE x # n
      <4>1. x \in DOMAIN rows /\ rows'[x] = rows[x]
        BY <2>6, <3>2 DEF Grown
      <4>2. x \in DOMAIN cursors
        BY <4>1 DEF Ownership, NothingLeaks
      <4>3. cursors'[x] = cursors[x]
        BY <2>7, <3>2, <4>2 DEF Grown
      <4>4. QED
        BY <4>1, <4>3 DEF Ownership, ResultsFollowTheirTransaction, Active
    <3>3. QED
      BY <3>1, <3>2
  <2>19. QED
    BY <2>12, <2>14, <2>15, <2>16, <2>17, <2>18 DEF Ownership
<1>3. QED
  BY <1>1, <1>2

-----------------------------------------------------------------------------
(* Connections *)

\* conn/open and conn/use only add or replace an entry of conns.
LEMMA ConnsKeepIInv ==
  ASSUME IInv, NEW c \in ConnIds, NEW db \in Databases, Grown(conns, conns', c, db, Databases),
         pools' = pools \cup {c}, nextConnID' \in 1 .. MaxConns + 1, Reply("ok"),
         UNCHANGED <<serving, initialized, cursors, txs, imports, streams, nextCursor,
                     nextTx, nextImport, rows, sqltx, durable, nextStmt>>
  PROVE  IInv'
<1> USE DEF IInv
<1>1. /\ conns' \in [DOMAIN conns' -> Databases] /\ DOMAIN conns' = DOMAIN conns \cup {c}
      /\ DOMAIN conns' \subseteq ConnIds
  BY DEF Grown, TypeOK
<1>2. reply' \in {"none", "ok", "error"}
  BY DEF Reply
<1>3. SqlTypeOK'
  BY DEF TypeOK, SqlTypeOK
<1>4. TypeOK'
  BY <1>1, <1>2, <1>3 DEF TypeOK
<1>5. IdsInOrder' /\ WithinLimits'
  BY DEF IdsInOrder, WithinLimits
<1>6. OwnedByOpenConnection'
  BY <1>1 DEF Ownership, OwnedByOpenConnection
<1>7. NothingLeaks'
  BY <1>1 DEF Ownership, NothingLeaks, Active
<1>8. ResultsFollowTheirTransaction'
  BY DEF Ownership, ResultsFollowTheirTransaction, Active
<1>9. QED
  BY <1>4, <1>5, <1>6, <1>7, <1>8 DEF Ownership

\* conn/open.
LEMMA HandleConnOpenKeepsIInv == IInv /\ handleConnOpen => IInv'
<1> SUFFICES ASSUME IInv, handleConnOpen PROVE IInv'
  OBVIOUS
<1>1. CASE \E r \in {"InvalidParams", "ConnectionFailed"} : Answer(r)
  BY <1>1, AnswerKeepsIInv DEF ErrorCodes
<1>2. CASE ~ \E r \in {"InvalidParams", "ConnectionFailed"} : Answer(r)
  <2>1. /\ nextConnID <= MaxConns /\ nextConnID' = nextConnID + 1 /\ Reply("ok")
        /\ pools' = pools \cup {nextConnID}
        /\ \E db \in Databases : conns' = Put(conns, nextConnID, db)
        /\ UNCHANGED <<serving, initialized, cursors, txs, imports, streams, nextCursor,
                       nextTx, nextImport, rows, sqltx, durable, nextStmt>>
    BY <1>2 DEF handleConnOpen
  <2>2. PICK db \in Databases : conns' = Put(conns, nextConnID, db)
    BY <2>1
  <2>3. conns \in [DOMAIN conns -> Databases] /\ nextConnID \in 1 .. MaxConns + 1
    BY DEF IInv, TypeOK
  <2>4. Grown(conns, conns', nextConnID, db, Databases)
    BY <2>2, <2>3, PutGrows
  <2>5. nextConnID \in ConnIds /\ nextConnID' \in 1 .. MaxConns + 1
    BY <2>1, <2>3, BoundsAreNaturals DEF ConnIds
  <2>6. QED
    BY <2>1, <2>4, <2>5, ConnsKeepIInv
<1>3. QED
  BY <1>1, <1>2

\* conn/use.
LEMMA HandleConnUseKeepsIInv ==
  ASSUME IInv, NEW c \in ConnIds, NEW db \in Databases, handleConnUse(c, db)
  PROVE  IInv'
<1>1. CASE Answer("UnknownConnID")
  BY <1>1, AnswerKeepsIInv DEF ErrorCodes
<1>2. CASE ~Answer("UnknownConnID")
  <2>1. /\ c \in DOMAIN conns /\ conns' = Put(conns, c, db) /\ Reply("ok")
        /\ UNCHANGED <<serving, initialized, cursors, txs, imports, streams, nextConnID, nextCursor,
                       nextTx, nextImport, pools, rows, sqltx, durable, nextStmt>>
    BY <1>2 DEF handleConnUse, counters, sqlVars
  <2>2. conns \in [DOMAIN conns -> Databases] /\ nextConnID \in 1 .. MaxConns + 1
    BY DEF IInv, TypeOK
  <2>3. Grown(conns, conns', c, db, Databases)
    BY <2>1, <2>2, PutGrows
  <2>4. pools' = pools \cup {c}
    BY <2>1 DEF IInv, Ownership, NothingLeaks
  <2>5. QED
    BY <2>1, <2>2, <2>3, <2>4, ConnsKeepIInv
<1>3. QED
  BY <1>1, <1>2

-----------------------------------------------------------------------------
(* Transactions *)

\* tx/begin hands out a number no transaction has had.
LEMMA HandleTxBeginKeepsIInv ==
  ASSUME IInv, NEW c \in ConnIds, handleTxBegin(c)
  PROVE  IInv'
<1> USE DEF IInv
<1>1. CASE Answer("UnknownConnID") \/ Answer("SQLSyntax")
  BY <1>1, AnswerKeepsIInv DEF ErrorCodes
<1>2. CASE ~(Answer("UnknownConnID") \/ Answer("SQLSyntax"))
  <2> DEFINE n == nextTx
             new == [conn |-> c, status |-> "active", work |-> << >>]
  <2>1. /\ c \in DOMAIN conns /\ n <= MaxTxs
        /\ sqltx' = Put(sqltx, n, new) /\ txs' = Put(txs, n, c)
        /\ nextTx' = n + 1 /\ Reply("ok")
        /\ UNCHANGED <<serving, initialized, conns, cursors, imports, streams, nextConnID,
                       nextCursor, nextImport, pools, rows, durable, nextStmt>>
    BY <1>2 DEF handleTxBegin
  <2>2. /\ sqltx \in [DOMAIN sqltx -> Tx] /\ txs \in [DOMAIN txs -> ConnIds]
        /\ DOMAIN sqltx \subseteq TxIds /\ DOMAIN txs \subseteq TxIds
        /\ n \in 1 .. MaxTxs + 1
    BY DEF TypeOK, SqlTypeOK
  <2>3. new \in Tx
    <3>1. << >> \in Seq(Work)
      OBVIOUS
    <3>2. QED
      BY <3>1 DEF Tx
  <2> HIDE DEF new
  <2>4. Grown(sqltx, sqltx', n, new, Tx)
    BY <2>1, <2>2, <2>3, PutGrows
  <2>5. Grown(txs, txs', n, c, ConnIds)
    BY <2>1, <2>2, PutGrows
  <2>6. n \in TxIds /\ n + 1 \in 1 .. MaxTxs + 1 /\ n < n + 1 /\ n \in Nat
    BY <2>1, <2>2, BoundsAreNaturals DEF TxIds
  <2>7. /\ sqltx' \in [DOMAIN sqltx' -> Tx] /\ DOMAIN sqltx' \subseteq TxIds
        /\ txs' \in [DOMAIN txs' -> ConnIds] /\ DOMAIN txs' \subseteq TxIds
    BY <2>2, <2>4, <2>5, <2>6 DEF Grown
  <2>8. reply' \in {"none", "ok", "error"}
    BY <2>1 DEF Reply
  <2>9. SqlTypeOK'
    BY <2>1, <2>7 DEF TypeOK, SqlTypeOK
  <2>10. TypeOK'
    BY <2>1, <2>6, <2>7, <2>8, <2>9 DEF TypeOK
  <2>11. n \notin DOMAIN sqltx /\ n \notin DOMAIN txs
    BY <2>6 DEF IdsInOrder
  <2>12. IdsInOrder'
    <3>1. \A t \in DOMAIN txs' : t \in DOMAIN sqltx'
      BY <2>4, <2>5 DEF IdsInOrder, Grown
    <3>2. \A t \in DOMAIN sqltx' : t < nextTx'
      <4>1. \A t \in DOMAIN sqltx : t \in Nat /\ t < n
        BY <2>2, BoundsAreNaturals DEF IdsInOrder, TxIds
      <4>2. QED
        BY <2>1, <2>4, <2>6, <4>1 DEF Grown
    <3>3. QED
      BY <2>1, <3>1, <3>2 DEF IdsInOrder
  <2>13. WithinLimits'
    BY <2>1 DEF WithinLimits
  <2>14. OwnedByOpenConnection'
    BY <2>1, <2>5 DEF Grown, Ownership, OwnedByOpenConnection
  <2>15. NothingLeaks'
    <3>1. \A t \in DOMAIN sqltx' : sqltx'[t].status = "active" => t \in DOMAIN txs'
      BY <2>4, <2>5 DEF Grown, Ownership, NothingLeaks, Active
    <3>2. QED
      BY <2>1, <3>1 DEF Ownership, NothingLeaks, Active
  <2>16. ResultsFollowTheirTransaction'
    <3> SUFFICES ASSUME NEW x \in DOMAIN rows, rows[x].status = "open", rows[x].tx # None
                 PROVE  /\ rows[x].tx \in DOMAIN txs' /\ sqltx'[rows[x].tx].status = "active"
                        /\ txs'[rows[x].tx] = cursors[x].conn
      BY <2>1 DEF ResultsFollowTheirTransaction, Active
    <3>1. /\ rows[x].tx \in DOMAIN txs /\ sqltx[rows[x].tx].status = "active"
          /\ txs[rows[x].tx] = cursors[x].conn
      BY DEF Ownership, ResultsFollowTheirTransaction, Active
    <3>2. rows[x].tx \in DOMAIN sqltx /\ rows[x].tx # n
      BY <2>11, <3>1 DEF IdsInOrder
    <3>3. QED
      BY <2>4, <2>5, <3>1, <3>2 DEF Grown
  <2>17. QED
    BY <2>10, <2>12, <2>13, <2>14, <2>15, <2>16 DEF Ownership
<1>3. QED
  BY <1>1, <1>2

\* The first tx/commit or tx/rollback finishes the transaction and the results
\* that were opened in it, whether or not its entry goes.
LEMMA TxEndsKeepsIInv ==
  ASSUME IInv, NEW t \in DOMAIN txs, NEW status \in {"committed", "aborted"},
         sqltx' = EndTxs({t}, status), rows' = Finished(rows, {t}),
         txs' = txs \/ txs' = Drop(txs, {t}),
         durable' \subseteq [stmt : Nat, owner : Owners],
         reply' \in {"none", "ok", "error"},
         UNCHANGED <<serving, initialized, conns, cursors, imports, streams, counters, pools, nextStmt>>
  PROVE  IInv'
<1> USE DEF IInv
<1>1. UNCHANGED <<nextConnID, nextCursor, nextTx, nextImport>>
  BY DEF counters
<1>2. /\ rows \in [DOMAIN rows -> Rows] /\ sqltx \in [DOMAIN sqltx -> Tx]
      /\ txs \in [DOMAIN txs -> ConnIds]
  BY DEF TypeOK, SqlTypeOK
<1>3. /\ sqltx' \in [DOMAIN sqltx -> Tx] /\ DOMAIN sqltx' = DOMAIN sqltx
      /\ \A u \in DOMAIN sqltx :
            sqltx'[u].status = "active" <=> u \notin {t} /\ sqltx[u].status = "active"
  BY <1>2, EndTxsProperties
<1>4. /\ rows' \in [DOMAIN rows -> Rows] /\ DOMAIN rows' = DOMAIN rows
      /\ \A c \in DOMAIN rows :
            /\ rows'[c].tx = rows[c].tx
            /\ rows'[c].next = rows[c].next /\ rows'[c].total = rows[c].total
            /\ rows'[c].status = "open" => rows[c].status = "open" /\ rows[c].tx \notin {t}
  BY <1>2, FinishedProperties
<1>5. /\ txs' \in [DOMAIN txs' -> ConnIds] /\ DOMAIN txs' \subseteq DOMAIN txs
      /\ \A u \in DOMAIN txs : u # t => u \in DOMAIN txs' /\ txs'[u] = txs[u]
      /\ \A u \in DOMAIN txs' : txs'[u] = txs[u]
  <2>1. CASE txs' = txs
    BY <1>2, <2>1
  <2>2. CASE txs' = Drop(txs, {t})
    BY <1>2, <2>2 DEF Drop, Restrict
  <2>3. QED
    BY <2>1, <2>2
<1>6. SqlTypeOK'
  BY <1>3, <1>4 DEF TypeOK, SqlTypeOK
<1>7. TypeOK'
  BY <1>1, <1>5, <1>6 DEF TypeOK
<1>8. IdsInOrder'
  BY <1>1, <1>3, <1>4, <1>5 DEF IdsInOrder
<1>9. WithinLimits'
  BY <1>4 DEF WithinLimits
<1>10. OwnedByOpenConnection'
  BY <1>5 DEF Ownership, OwnedByOpenConnection
<1>11. NothingLeaks'
  <2>1. \A c \in DOMAIN rows' : rows'[c].status = "open" =>
           c \in DOMAIN cursors /\ cursors[c].rows /\ ~cursors[c].done
    BY <1>4 DEF Ownership, NothingLeaks
  <2>2. \A u \in DOMAIN sqltx' : sqltx'[u].status = "active" => u \in DOMAIN txs'
    BY <1>3, <1>5 DEF Ownership, NothingLeaks, Active
  <2>3. QED
    BY <2>1, <2>2 DEF Ownership, NothingLeaks, Active
<1>12. ResultsFollowTheirTransaction'
  <2> SUFFICES ASSUME NEW x \in DOMAIN rows', rows'[x].status = "open", rows'[x].tx # None
               PROVE  /\ rows'[x].tx \in DOMAIN txs' /\ sqltx'[rows'[x].tx].status = "active"
                      /\ txs'[rows'[x].tx] = cursors[x].conn
    BY DEF ResultsFollowTheirTransaction, Active
  <2>1. /\ x \in DOMAIN rows /\ rows[x].status = "open" /\ rows'[x].tx = rows[x].tx
        /\ rows[x].tx # t
    BY <1>4
  <2>2. /\ rows[x].tx \in DOMAIN txs /\ sqltx[rows[x].tx].status = "active"
        /\ txs[rows[x].tx] = cursors[x].conn
    BY <2>1 DEF Ownership, ResultsFollowTheirTransaction, Active
  <2>3. rows[x].tx \in DOMAIN sqltx
    BY <2>2 DEF IdsInOrder
  <2>4. QED
    BY <1>3, <1>5, <2>1, <2>2, <2>3
<1>13. QED
  BY <1>7, <1>8, <1>9, <1>10, <1>11, <1>12 DEF Ownership

\* A committed transaction makes statements of its own durable.
LEMMA WorkOfType ==
  ASSUME NEW t \in TxIds, t \in DOMAIN sqltx, sqltx \in [DOMAIN sqltx -> Tx]
  PROVE  WorkOf(t) \subseteq [stmt : Nat, owner : Owners]
<1>1. OfTx(t) \in Owners
  BY OwnersType
<1>2. sqltx[t].work \in Seq(Work)
  BY DEF Tx
<1>3. \A i \in DOMAIN sqltx[t].work : sqltx[t].work[i] \in Work
  BY <1>2
<1>4. \A i \in DOMAIN sqltx[t].work : sqltx[t].work[i].stmt \in Nat
  BY <1>3 DEF Work
<1>5. QED
  BY <1>1, <1>4 DEF WorkOf

\* tx/commit.
LEMMA HandleTxCommitKeepsIInv ==
  ASSUME IInv, NEW t \in TxIds, handleTxCommit(t)
  PROVE  IInv'
<1>1. CASE Answer("InvalidParams") \/ Answer("SQLSyntax")
  BY <1>1, AnswerKeepsIInv DEF ErrorCodes
<1>2. CASE ~(Answer("InvalidParams") \/ Answer("SQLSyntax"))
  <2>1. /\ t \in DOMAIN txs /\ rows' = Finished(rows, {t})
        /\ txs' = txs \/ txs' = Drop(txs, {t})
        /\ Reply("ok") \/ Reply("SQLSyntax")
        /\ \/ sqltx' = EndTxs({t}, "committed") /\ durable' = durable \cup WorkOf(t)
           \/ sqltx' = EndTxs({t}, "aborted") /\ durable' = durable
        /\ UNCHANGED <<serving, initialized, conns, cursors, imports, streams, counters, pools, nextStmt>>
    BY <1>2 DEF handleTxCommit
  <2>2. reply' \in {"none", "ok", "error"}
    BY <2>1 DEF Reply, ErrorCodes
  <2>3. /\ durable \subseteq [stmt : Nat, owner : Owners]
        /\ sqltx \in [DOMAIN sqltx -> Tx] /\ t \in DOMAIN sqltx
    BY <2>1 DEF IInv, TypeOK, SqlTypeOK, IdsInOrder
  <2>4. WorkOf(t) \subseteq [stmt : Nat, owner : Owners]
    BY <2>3, WorkOfType
  <2>5. durable' \subseteq [stmt : Nat, owner : Owners]
    BY <2>1, <2>3, <2>4, Zenon
  <2>6. QED
    BY <2>1, <2>2, <2>5, TxEndsKeepsIInv
<1>3. QED
  BY <1>1, <1>2

\* tx/rollback.
LEMMA HandleTxRollbackKeepsIInv ==
  ASSUME IInv, NEW t \in TxIds, handleTxRollback(t)
  PROVE  IInv'
<1>1. CASE Answer("InvalidParams") \/ Answer("SQLSyntax")
  BY <1>1, AnswerKeepsIInv DEF ErrorCodes
<1>2. CASE ~(Answer("InvalidParams") \/ Answer("SQLSyntax"))
  <2>1. /\ t \in DOMAIN txs /\ rows' = Finished(rows, {t})
        /\ txs' = txs \/ txs' = Drop(txs, {t})
        /\ Reply("ok") \/ Reply("SQLSyntax")
        /\ sqltx' = EndTxs({t}, "aborted") /\ durable' = durable
        /\ UNCHANGED <<serving, initialized, conns, cursors, imports, streams, counters, pools, nextStmt>>
    BY <1>2 DEF handleTxRollback
  <2>2. reply' \in {"none", "ok", "error"}
    BY <2>1 DEF Reply, ErrorCodes
  <2>3. durable' \subseteq [stmt : Nat, owner : Owners]
    BY <2>1 DEF IInv, TypeOK, SqlTypeOK
  <2>4. QED
    BY <2>1, <2>2, <2>3, TxEndsKeepsIInv
<1>3. QED
  BY <1>1, <1>2

\* tx/savepoint, tx/release and tx/rollback to a savepoint change the work only.
LEMMA InTransactionKeepsIInv ==
  ASSUME IInv, NEW t \in DOMAIN txs, NEW w \in Seq(Work), InTransaction(t, w)
  PROVE  IInv'
<1>1. /\ sqltx' = [sqltx EXCEPT ![t].work = w] /\ Reply("ok")
      /\ UNCHANGED <<serving, initialized, tables, counters, pools, rows, durable, nextStmt>>
  BY DEF InTransaction
<1>2. reply' \in {"none", "ok", "error"}
  BY <1>1 DEF Reply
<1>3. sqltx \in [DOMAIN sqltx -> Tx] /\ t \in DOMAIN sqltx
  BY DEF IInv, TypeOK, SqlTypeOK, IdsInOrder
<1>4. durable' \subseteq [stmt : Nat, owner : Owners] /\ nextStmt' \in Nat
  BY <1>1 DEF IInv, TypeOK, SqlTypeOK
<1>5. /\ sqltx' \in [DOMAIN sqltx -> Tx] /\ DOMAIN sqltx' = DOMAIN sqltx
      /\ \A u \in DOMAIN sqltx : sqltx'[u].status = sqltx[u].status
  BY <1>1, <1>3, WorkKeepsStatus
<1>6. QED
  BY <1>1, <1>2, <1>4, <1>5, StatementsKeepIInv

\* The work of a known transaction.
LEMMA WorkType ==
  ASSUME IInv, NEW t \in DOMAIN txs
  PROVE  sqltx[t].work \in Seq(Work)
<1>1. sqltx \in [DOMAIN sqltx -> Tx] /\ t \in DOMAIN sqltx
  BY DEF IInv, TypeOK, SqlTypeOK, IdsInOrder
<1>2. QED
  BY <1>1 DEF Tx

\* tx/savepoint.
LEMMA HandleTxSavepointKeepsIInv ==
  ASSUME IInv, NEW t \in TxIds, NEW sp \in SavepointNames, handleTxSavepoint(t, sp)
  PROVE  IInv'
<1>1. CASE Answer("InvalidParams") \/ Answer("SQLSyntax")
  BY <1>1, AnswerKeepsIInv DEF ErrorCodes
<1>2. CASE ~(Answer("InvalidParams") \/ Answer("SQLSyntax"))
  <2> DEFINE w == Append(sqltx[t].work, Savepoint(sp))
  <2>1. t \in DOMAIN txs /\ InTransaction(t, w)
    BY <1>2 DEF handleTxSavepoint
  <2>2. Savepoint(sp) \in Work
    BY DEF Savepoint, Work
  <2>3. w \in Seq(Work)
    BY <2>1, <2>2, WorkType, AppendProperties
  <2> HIDE DEF w
  <2>4. QED
    BY <2>1, <2>3, InTransactionKeepsIInv
<1>3. QED
  BY <1>1, <1>2

\* tx/release.
LEMMA HandleTxReleaseKeepsIInv ==
  ASSUME IInv, NEW t \in TxIds, NEW sp \in SavepointNames, handleTxRelease(t, sp)
  PROVE  IInv'
<1>1. CASE Answer("InvalidParams") \/ Answer("SQLSyntax")
  BY <1>1, AnswerKeepsIInv DEF ErrorCodes
<1>2. CASE ~(Answer("InvalidParams") \/ Answer("SQLSyntax"))
  <2> DEFINE v == sqltx[t].work
             w == Released(v, sp)
  <2>1. t \in DOMAIN txs /\ InTransaction(t, w)
    BY <1>2 DEF handleTxRelease
  <2>2. v \in Seq(Work)
    BY <2>1, WorkType
  <2> HIDE DEF v
  <2>3. Len(v) \in Nat /\ DOMAIN v = 1 .. Len(v) /\ \A i \in DOMAIN v : v[i] \in Work
    BY <2>2
  <2>4. \A i \in DOMAIN v : [v[i] EXCEPT !.save = None] \in Work
    BY <2>3 DEF Work
  <2>5. w \in [1 .. Len(v) -> Work]
    BY <2>3, <2>4 DEF Released
  <2> HIDE DEF w
  <2>6. w \in Seq(Work)
    BY <2>3, <2>5
  <2>7. QED
    BY <2>1, <2>6, InTransactionKeepsIInv
<1>3. QED
  BY <1>1, <1>2

\* A set of positions has a largest one.
LEMMA LargestPosition ==
  ASSUME NEW n \in Nat, NEW S \in SUBSET (1 .. n), S # {}
  PROVE  \E i \in S : \A j \in S : j <= i
<1> DEFINE T == {n - i : i \in S}
<1>1. T \subseteq Nat /\ T # {}
  <2>1. \A i \in S : n - i \in Nat
    OBVIOUS
  <2>2. PICK i \in S : TRUE
    OBVIOUS
  <2>3. n - i \in T
    OBVIOUS
  <2>4. QED
    BY <2>1, <2>3
<1>2. PICK x \in T : \A y \in T : ~(<<y, x>> \in OpToRel(<, Nat))
  BY <1>1, NatLessThanWellFounded, WFMin
<1>3. \A y \in T : ~(y < x)
  BY <1>1, <1>2 DEF OpToRel
<1>4. PICK i \in S : x = n - i
  OBVIOUS
<1>5. \A j \in S : n - j \in T
  OBVIOUS
<1>6. \A j \in S : j <= i
  BY <1>3, <1>4, <1>5
<1>7. QED
  BY <1>6

\* LastMark is a position where the savepoint was set.
LEMMA LastMarkIsAMark ==
  ASSUME NEW v \in Seq(Work), NEW sp, MarksOf(v, sp) # {}
  PROVE  LastMark(v, sp) \in MarksOf(v, sp)
<1>1. Len(v) \in Nat /\ MarksOf(v, sp) \in SUBSET (1 .. Len(v))
  BY DEF MarksOf
<1>2. \E i \in MarksOf(v, sp) : \A j \in MarksOf(v, sp) : j <= i
  BY <1>1, LargestPosition
<1>3. QED
  BY <1>2 DEF LastMark

\* tx/rollback to a savepoint keeps the work up to where it was set.
LEMMA HandleTxRollbackToKeepsIInv ==
  ASSUME IInv, NEW t \in TxIds, NEW sp \in SavepointNames, handleTxRollbackTo(t, sp)
  PROVE  IInv'
<1>1. CASE Answer("InvalidParams") \/ Answer("SQLSyntax")
  BY <1>1, AnswerKeepsIInv DEF ErrorCodes
<1>2. CASE ~(Answer("InvalidParams") \/ Answer("SQLSyntax"))
  <2> DEFINE v == sqltx[t].work
             m == LastMark(v, sp)
             w == SubSeq(v, 1, m)
  <2>1. t \in DOMAIN txs /\ InTransaction(t, w) /\ MarksOf(v, sp) # {}
    BY <1>2 DEF handleTxRollbackTo, RolledBackTo
  <2>2. v \in Seq(Work)
    BY <2>1, WorkType
  <2> HIDE DEF v
  <2>3. m \in DOMAIN v
    BY <2>1, <2>2, LastMarkIsAMark DEF MarksOf
  <2> HIDE DEF m
  <2>4. w \in Seq(Work)
    BY <2>2, <2>3, SubSeqProperties
  <2> HIDE DEF w
  <2>5. QED
    BY <2>1, <2>4, InTransactionKeepsIInv
<1>3. QED
  BY <1>1, <1>2

-----------------------------------------------------------------------------
(* The specification *)

\* Requests that are only answered.
LEMMA AnswersKeepIInv ==
  ASSUME IInv, Rejected \/ HandlePing \/ Notification \/ handleConnTest \/ handleDdlBuild
  PROVE  IInv'
<1>1. CASE Rejected
  BY <1>1, AnswerKeepsIInv DEF Rejected, ErrorCodes
<1>2. CASE HandlePing \/ Notification
  BY <1>2, AnswerKeepsIInv DEF HandlePing, Notification
<1>3. CASE handleConnTest
  BY <1>3, AnswerKeepsIInv DEF handleConnTest, ErrorCodes
<1>4. CASE handleDdlBuild
  BY <1>4, AnswerKeepsIInv DEF handleDdlBuild, ErrorCodes
<1>5. QED
  BY <1>1, <1>2, <1>3, <1>4

\* conn/*, schema/* and ddl/*.
LEMMA ConnRequestKeepsIInv == IInv /\ ConnRequest => IInv'
<1> SUFFICES ASSUME IInv, ConnRequest PROVE IInv'
  OBVIOUS
<1>1. CASE handleConnTest \/ handleDdlBuild
  BY <1>1, AnswersKeepIInv
<1>2. CASE handleConnOpen
  BY <1>2, HandleConnOpenKeepsIInv
<1>3. ASSUME NEW c \in ConnIds, handleConnClose(c) PROVE IInv'
  BY <1>3, HandleConnCloseKeepsIInv
<1>4. ASSUME NEW c \in ConnIds, handleConnPing(c) PROVE IInv'
  BY <1>4, AnswerKeepsIInv DEF handleConnPing, ErrorCodes
<1>5. ASSUME NEW c \in ConnIds, handleSchema(c) \/ handleSchemaObjectView(c) PROVE IInv'
  BY <1>5, AnswerKeepsIInv DEF handleSchema, handleSchemaObjectView, QueryObjects, ErrorCodes
<1>6. ASSUME NEW c \in ConnIds, NEW db \in Databases, handleConnUse(c, db) PROVE IInv'
  BY <1>6, HandleConnUseKeepsIInv
<1>7. QED
  BY <1>1, <1>2, <1>3, <1>4, <1>5, <1>6 DEF ConnRequest

\* query/start and cursor/*.
LEMMA CursorRequestKeepsIInv == IInv /\ CursorRequest => IInv'
<1> SUFFICES ASSUME IInv, CursorRequest PROVE IInv'
  OBVIOUS
<1>1. ASSUME NEW c \in ConnIds, NEW t \in TxIds \cup {None}, NEW max \in Limits,
             handleQueryStart(c, t, max)
      PROVE  IInv'
  BY <1>1, HandleQueryStartKeepsIInv
<1>2. ASSUME NEW c \in CursorIds, NEW n \in 1 .. MaxResult + 1, handleCursorFetch(c, n) PROVE IInv'
  BY <1>2, HandleCursorFetchKeepsIInv
<1>3. ASSUME NEW c \in CursorIds, handleCursorClose(c) \/ handleCursorCancel(c) PROVE IInv'
  BY <1>3, HandleCursorCloseKeepsIInv, HandleCursorCancelKeepsIInv
<1>4. QED
  BY <1>1, <1>2, <1>3 DEF CursorRequest

\* exec/* and tx/*.
LEMMA TxRequestKeepsIInv == IInv /\ (ExecRequest \/ TxRequest) => IInv'
<1> SUFFICES ASSUME IInv, ExecRequest \/ TxRequest PROVE IInv'
  OBVIOUS
<1>1. ASSUME NEW c \in ConnIds, NEW t \in TxIds \cup {None}, NEW result \in Results,
             handleExecRun(c, t, result)
      PROVE  IInv'
  BY <1>1, HandleExecRunKeepsIInv
<1>2. ASSUME NEW c \in ConnIds, NEW results \in BatchResults, NEW stop \in BOOLEAN,
             NEW in_transaction \in BOOLEAN, handleExecBatch(c, results, stop, in_transaction)
      PROVE  IInv'
  BY <1>2, HandleExecBatchKeepsIInv
<1>3. ASSUME NEW c \in ConnIds, handleTxBegin(c) PROVE IInv'
  BY <1>3, HandleTxBeginKeepsIInv
<1>4. ASSUME NEW t \in TxIds, handleTxCommit(t) \/ handleTxRollback(t) PROVE IInv'
  BY <1>4, HandleTxCommitKeepsIInv, HandleTxRollbackKeepsIInv
<1>5. ASSUME NEW t \in TxIds, NEW sp \in SavepointNames,
             handleTxSavepoint(t, sp) \/ handleTxRelease(t, sp) \/ handleTxRollbackTo(t, sp)
      PROVE  IInv'
  BY <1>5, HandleTxSavepointKeepsIInv, HandleTxReleaseKeepsIInv, HandleTxRollbackToKeepsIInv
<1>6. QED
  BY <1>1, <1>2, <1>3, <1>4, <1>5 DEF ExecRequest, TxRequest

\* data/* and stream/*.
LEMMA DataRequestKeepsIInv == IInv /\ DataRequest => IInv'
<1> SUFFICES ASSUME IInv, DataRequest PROVE IInv'
  OBVIOUS
<1>1. ASSUME NEW c \in ConnIds, handleDataImportBegin(c) PROVE IInv'
  BY <1>1, HandleDataImportBeginKeepsIInv
<1>2. ASSUME NEW c \in ConnIds, NEW s \in StreamIds, NEW len \in 0 .. MaxResult,
             handleDataExport(c, s, len)
      PROVE  IInv'
  BY <1>2, HandleDataExportKeepsIInv
<1>3. ASSUME NEW s \in StreamIds, NEW maxBytes \in 1 .. MaxResult + 1, handleStreamRead(s, maxBytes)
      PROVE  IInv'
  BY <1>3, HandleStreamReadKeepsIInv
<1>4. ASSUME NEW s \in StreamIds, handleStreamClose(s) PROVE IInv'
  BY <1>4, HandleStreamCloseKeepsIInv
<1>5. ASSUME NEW i \in ImportIds, NEW n \in 0 .. MaxBatch, NEW bad \in SUBSET (1 .. n),
             handleDataImportChunk(i, n, bad)
      PROVE  IInv'
  BY <1>5, HandleDataImportChunkKeepsIInv
<1>6. ASSUME NEW i \in ImportIds, handleDataImportCommit(i) \/ handleDataImportAbort(i) PROVE IInv'
  <2>1. CASE Answer("InvalidParams")
    BY <2>1, AnswerKeepsIInv DEF ErrorCodes
  <2>2. CASE ForgetImport(i)
    BY <2>2, ForgetImportKeepsIInv
  <2>3. QED
    BY <1>6, <2>1, <2>2 DEF handleDataImportCommit, handleDataImportAbort
<1>7. QED
  BY <1>1, <1>2, <1>3, <1>4, <1>5, <1>6 DEF DataRequest

\* Every step of the server keeps the invariant.
LEMMA NextKeepsIInv == IInv /\ [Next]_vars => IInv'
<1> SUFFICES ASSUME IInv, [Next]_vars PROVE IInv'
  OBVIOUS
<1>1. CASE Rejected \/ HandlePing \/ Notification
  BY <1>1, AnswersKeepIInv
<1>2. CASE HandleInit \/ HandleShutdown \/ HostGone
  BY <1>2, HandleInitKeepsIInv, HandleShutdownKeepsIInv, HostGoneKeepsIInv
<1>3. CASE ConnRequest \/ CursorRequest
  BY <1>3, ConnRequestKeepsIInv, CursorRequestKeepsIInv
<1>4. CASE ExecRequest \/ TxRequest \/ DataRequest
  BY <1>4, TxRequestKeepsIInv, DataRequestKeepsIInv
<1>5. CASE UNCHANGED vars
  <2>1. UNCHANGED <<serving, initialized, reply, conns, cursors, txs, imports, streams, nextConnID,
                    nextCursor, nextTx, nextImport, pools, rows, sqltx, durable, nextStmt>>
    BY <1>5 DEF vars, tables, counters, sqlVars
  <2>2. TypeOK'
    BY <2>1 DEF IInv, TypeOK, SqlTypeOK
  <2>3. IdsInOrder' /\ WithinLimits' /\ Ownership'
    BY <2>1, ImportsStayOwned, FrameKeepsRest
  <2>4. QED
    BY <2>2, <2>3 DEF IInv
<1>6. QED
  BY <1>1, <1>2, <1>3, <1>4, <1>5 DEF Next

\* The inductive invariant holds in every reachable state.
THEOREM IInvHolds == Spec => []IInv
  BY InitEstablishesIInv, NextKeepsIInv, PTL DEF Spec

\* Every table of the server and of database/sql keeps its type: fetched counts,
\* offsets and transaction work included (all handlers of server.go).
THEOREM ServerTypeOK == Spec => []TypeOK
<1>1. IInv => TypeOK
  BY DEF IInv
<1>2. QED
  BY <1>1, IInvHolds, PTL

\* Cursors, transactions and imports never outlive the connection they belong to
\* (handleConnClose, closeAll).
THEOREM EverythingIsOwned == Spec => []OwnedByOpenConnection
<1>1. IInv => OwnedByOpenConnection
  BY DEF IInv, Ownership
<1>2. QED
  BY <1>1, IInvHolds, PTL

\* No pool, result or transaction stays open in database/sql without an id that
\* leads to it, whatever call failed (handleCursorFetch, closeCursor,
\* handleConnClose, handleTxCommit, handleTxRollback).
THEOREM ServerLeaksNothing == Spec => []NothingLeaks
<1>1. IInv => NothingLeaks
  BY DEF IInv, Ownership
<1>2. QED
  BY <1>1, IInvHolds, PTL

\* A readable result belongs to an unfinished transaction of its own connection,
\* or to none (txForRequest, handleQueryStart).
THEOREM ResultsStayInTheirTransaction == Spec => []ResultsFollowTheirTransaction
<1>1. IInv => ResultsFollowTheirTransaction
  BY DEF IInv, Ownership
<1>2. QED
  BY <1>1, IInvHolds, PTL

-----------------------------------------------------------------------------
(* What crosses in pieces: runs of consecutive numbers *)

\* A run of k consecutive numbers.
LEMMA NumbersProperties ==
  ASSUME NEW from \in Nat, from # 0, NEW k \in Nat
  PROVE  /\ Numbers(from, k) \in Seq(Nat)
         /\ Len(Numbers(from, k)) = k
         /\ \A i \in 1 .. k : Numbers(from, k)[i] = from + i - 1
<1>1. \A i \in 1 .. k : from + i - 1 \in Nat
  OBVIOUS
<1>2. Numbers(from, k) \in [1 .. k -> Nat]
  BY <1>1 DEF Numbers
<1>3. QED
  BY <1>2 DEF Numbers

\* The numbers up to k, in order.
LEMMA NumbersFromOne ==
  ASSUME NEW k \in Nat
  PROVE  /\ Numbers(1, k) \in Seq(Nat)
         /\ Len(Numbers(1, k)) = k
         /\ \A i \in 1 .. k : Numbers(1, k)[i] = i
<1>1. \A i \in 1 .. k : 1 + i - 1 = i /\ i \in Nat
  OBVIOUS
<1>2. Numbers(1, k) \in [1 .. k -> Nat]
  BY <1>1 DEF Numbers
<1>3. QED
  BY <1>1, <1>2 DEF Numbers

\* A run continued where it ends.
LEMMA NumbersConcat ==
  ASSUME NEW m \in Nat, NEW k \in Nat
  PROVE  Numbers(1, m) \o Numbers(m + 1, k) = Numbers(1, m + k)
<1> DEFINE a == Numbers(1, m)
           b == Numbers(m + 1, k)
           c == Numbers(1, m + k)
<1>1. /\ a \in Seq(Nat) /\ Len(a) = m /\ \A i \in 1 .. m : a[i] = i
  BY NumbersFromOne
<1>2. /\ b \in Seq(Nat) /\ Len(b) = k /\ \A i \in 1 .. k : b[i] = (m + 1) + i - 1
  <2>1. m + 1 \in Nat /\ m + 1 # 0
    OBVIOUS
  <2>2. QED
    BY <2>1, NumbersProperties
<1>3. /\ c \in Seq(Nat) /\ Len(c) = m + k /\ \A i \in 1 .. m + k : c[i] = i
  <2> DEFINE n == m + k
  <2>1. n \in Nat
    OBVIOUS
  <2> HIDE DEF n
  <2>2. /\ Numbers(1, n) \in Seq(Nat) /\ Len(Numbers(1, n)) = n
        /\ \A i \in 1 .. n : Numbers(1, n)[i] = i
    BY <2>1, NumbersFromOne
  <2>3. QED
    BY <2>2 DEF n
<1> HIDE DEF a, b, c
<1>4. /\ a \o b \in Seq(Nat) /\ Len(a \o b) = m + k
      /\ \A i \in 1 .. m + k : (a \o b)[i] = IF i <= m THEN a[i] ELSE b[i - m]
  BY <1>1, <1>2, ConcatProperties
<1>5. ASSUME NEW i \in 1 .. m + k PROVE (a \o b)[i] = c[i]
  <2>1. CASE i <= m
    BY <1>1, <1>3, <1>4, <2>1
  <2>2. CASE ~(i <= m)
    <3>1. i - m \in 1 .. k
      BY <2>2
    <3>2. b[i - m] = (m + 1) + (i - m) - 1
      BY <1>2, <3>1
    <3>3. QED
      BY <1>3, <1>4, <2>2, <3>2, SMTT(30)
  <2>3. QED
    BY <2>1, <2>2
<1>6. a \o b = c
  BY <1>3, <1>4, <1>5, SeqEqual
<1>7. QED
  BY <1>6 DEF a, b, c

-----------------------------------------------------------------------------
(* stream/read *)

Received == [bytes : Seq(Nat), len : 0 .. MaxResult, ended : BOOLEAN]

\* The host has read as far as the stream is remembered to have been read.
StreamInv ==
  /\ received \in [DOMAIN received -> Received]
  /\ \A s \in DOMAIN streams :
        /\ s \in DOMAIN received /\ streams[s].len = received[s].len
        /\ streams[s].offset <= streams[s].len
  /\ StreamArrivesWhole

\* Streams that nobody reads, and streams that are forgotten.
LEMMA StreamsForgotten ==
  ASSUME StreamInv, UNCHANGED received,
         \A s \in DOMAIN streams' : s \in DOMAIN streams /\ streams'[s] = streams[s]
  PROVE  StreamInv'
  BY DEF StreamInv, StreamArrivesWhole

\* data/export.
LEMMA ExportKeepsStreams ==
  ASSUME IInv, StreamInv, NEW s \in StreamIds, NEW len \in 0 .. MaxResult,
         streams' = Put(streams, s, [len |-> len, offset |-> 0]),
         received' = Put(received, s, [bytes |-> << >>, len |-> len, ended |-> FALSE])
  PROVE  StreamInv'
<1> DEFINE new == [bytes |-> << >>, len |-> len, ended |-> FALSE]
           st == [len |-> len, offset |-> 0]
<1>1. << >> \in Seq(Nat) /\ Len(<< >>) = 0
  BY EmptySeq
<1>2. new \in Received
  BY <1>1 DEF Received
<1>3. new.bytes = << >> /\ new.len = len /\ new.ended = FALSE
  OBVIOUS
<1>4. st \in Streams /\ st.len = len /\ st.offset = 0
  BY DEF Streams
<1>5. received' = Put(received, s, new) /\ streams' = Put(streams, s, st)
  OBVIOUS
<1> HIDE DEF new, st
<1>6. Grown(received, received', s, new, Received)
  BY <1>2, <1>5, PutGrows DEF StreamInv
<1>7. streams \in [DOMAIN streams -> Streams]
  BY DEF IInv, TypeOK
<1>8. Grown(streams, streams', s, st, Streams)
  BY <1>4, <1>5, <1>7, PutGrows
<1>9. Numbers(1, 0) = << >>
  <2>1. Numbers(1, 0) \in Seq(Nat) /\ Len(Numbers(1, 0)) = 0
    BY NumbersFromOne
  <2>2. QED
    BY <2>1, EmptySeq
<1>10. StreamArrivesWhole'
  <2> SUFFICES ASSUME NEW x \in DOMAIN received'
               PROVE  /\ received'[x].bytes = Numbers(1, Len(received'[x].bytes))
                      /\ received'[x].ended => Len(received'[x].bytes) = received'[x].len
                      /\ x \in DOMAIN streams' =>
                            Len(received'[x].bytes) = streams'[x].offset /\ ~received'[x].ended
    BY DEF StreamArrivesWhole
  <2>1. CASE x = s
    BY <1>1, <1>3, <1>4, <1>6, <1>8, <1>9, <2>1 DEF Grown
  <2>2. CASE x # s
    BY <1>6, <1>8, <2>2 DEF Grown, StreamInv, StreamArrivesWhole
  <2>3. QED
    BY <2>1, <2>2
<1>11. \A x \in DOMAIN streams' :
          /\ x \in DOMAIN received' /\ streams'[x].len = received'[x].len
          /\ streams'[x].offset <= streams'[x].len
  <2> SUFFICES ASSUME NEW x \in DOMAIN streams'
               PROVE  /\ x \in DOMAIN received' /\ streams'[x].len = received'[x].len
                      /\ streams'[x].offset <= streams'[x].len
    OBVIOUS
  <2>1. CASE x = s
    BY <1>3, <1>4, <1>6, <1>8, <2>1 DEF Grown
  <2>2. CASE x # s
    BY <1>6, <1>8, <2>2 DEF Grown, StreamInv
  <2>3. QED
    BY <2>1, <2>2
<1>12. received' \in [DOMAIN received' -> Received]
  BY <1>6 DEF Grown
<1>13. QED
  BY <1>10, <1>11, <1>12 DEF StreamInv

\* stream/read: the next chunk continues the bytes, and the last one completes them.
LEMMA ReadKeepsStreams ==
  ASSUME IInv, StreamInv, NEW s \in DOMAIN streams, NEW maxBytes \in 1 .. MaxResult + 1,
         handleStreamRead(s, maxBytes)
  PROVE  StreamInv'
<1> DEFINE end == ChunkEnd(streams[s], maxBytes)
           done == LastChunk(streams[s], end)
<1>0. /\ streams' = IF done THEN Drop(streams, {s}) ELSE [streams EXCEPT ![s].offset = end]
      /\ received' = [received EXCEPT
                        ![s].bytes = @ \o Numbers(streams[s].offset + 1, end - streams[s].offset),
                        ![s].ended = done]
  BY DEF handleStreamRead
<1> DEFINE off == streams[s].offset
           len == streams[s].len
           old == received[s].bytes
           bytes == old \o Numbers(off + 1, end - off)
<1>1. /\ streams \in [DOMAIN streams -> Streams] /\ streams[s] \in Streams
      /\ s \in DOMAIN received /\ received[s] \in Received
  BY DEF IInv, TypeOK, StreamInv
<1>2. /\ off \in Nat /\ len \in Nat /\ off <= len /\ len = received[s].len /\ maxBytes \in Nat
  BY <1>1, BoundsAreNaturals DEF Streams, StreamInv
<1>3. /\ old \in Seq(Nat) /\ old = Numbers(1, off) /\ Len(old) = off
  BY <1>1 DEF StreamInv, StreamArrivesWhole, Received
<1>4. /\ end \in Nat /\ off <= end /\ end <= len /\ (done <=> end = len) /\ done \in BOOLEAN
  <2>1. end = IF off + maxBytes <= len THEN off + maxBytes ELSE len
    BY DEF end, ChunkEnd, MinOf
  <2>2. end \in Nat /\ off <= end /\ end <= len
    BY <1>2, <2>1
  <2>3. (done <=> end >= len) /\ done \in BOOLEAN
    BY DEF LastChunk
  <2>4. end >= len <=> end = len
    BY <1>2, <2>2
  <2>5. QED
    BY <2>2, <2>3, <2>4
<1> HIDE DEF end, done
<1>5. bytes = Numbers(1, end) /\ bytes \in Seq(Nat) /\ Len(bytes) = end
  <2>1. end - off \in Nat /\ off + (end - off) = end
    BY <1>2, <1>4
  <2>2. bytes = Numbers(1, end)
    BY <1>2, <1>3, <2>1, NumbersConcat
  <2> HIDE DEF bytes
  <2>3. Numbers(1, end) \in Seq(Nat) /\ Len(Numbers(1, end)) = end
    BY <1>4, NumbersFromOne
  <2>4. QED
    BY <2>2, <2>3
<1> DEFINE new == [received[s] EXCEPT !.bytes = bytes, !.ended = done]
<1>6. received' = [received EXCEPT ![s] = new]
  BY <1>0, <1>1
<1> HIDE DEF bytes, old
<1>7. /\ new \in Received /\ new.bytes = bytes /\ new.ended = done /\ new.len = len
  BY <1>1, <1>2, <1>4, <1>5 DEF Received
<1> HIDE DEF new
<1>8. /\ received' \in [DOMAIN received -> Received] /\ DOMAIN received' = DOMAIN received
      /\ received'[s] = new /\ \A x \in DOMAIN received : x # s => received'[x] = received[x]
  BY <1>1, <1>6, <1>7 DEF StreamInv
<1>9. /\ DOMAIN streams' \subseteq DOMAIN streams
      /\ \A x \in DOMAIN streams' : x # s => streams'[x] = streams[x]
      /\ s \in DOMAIN streams' => ~done /\ streams'[s].offset = end /\ streams'[s].len = len
  <2>1. CASE done
    <3>1. streams' = Drop(streams, {s})
      BY <1>0, <2>1
    <3>2. /\ DOMAIN streams' = DOMAIN streams \ {s}
          /\ \A x \in DOMAIN streams \ {s} : streams'[x] = streams[x]
      BY <1>1, <3>1 DEF Drop, Restrict
    <3>3. QED
      BY <3>2
  <2>2. CASE ~done
    BY <1>0, <1>1, <1>4, <2>2 DEF Streams
  <2>3. QED
    BY <2>1, <2>2
<1> HIDE DEF off, len
<1>10. StreamArrivesWhole'
  <2> SUFFICES ASSUME NEW x \in DOMAIN received'
               PROVE  /\ received'[x].bytes = Numbers(1, Len(received'[x].bytes))
                      /\ received'[x].ended => Len(received'[x].bytes) = received'[x].len
                      /\ x \in DOMAIN streams' =>
                            Len(received'[x].bytes) = streams'[x].offset /\ ~received'[x].ended
    BY DEF StreamArrivesWhole
  <2>1. CASE x = s
    BY <1>4, <1>5, <1>7, <1>8, <1>9, <2>1
  <2>2. CASE x # s
    BY <1>8, <1>9, <2>2 DEF StreamInv, StreamArrivesWhole
  <2>3. QED
    BY <2>1, <2>2
<1>11. \A x \in DOMAIN streams' :
          /\ x \in DOMAIN received' /\ streams'[x].len = received'[x].len
          /\ streams'[x].offset <= streams'[x].len
  <2> SUFFICES ASSUME NEW x \in DOMAIN streams'
               PROVE  /\ x \in DOMAIN received' /\ streams'[x].len = received'[x].len
                      /\ streams'[x].offset <= streams'[x].len
    OBVIOUS
  <2>1. CASE x = s
    BY <1>1, <1>4, <1>7, <1>8, <1>9, <2>1
  <2>2. CASE x # s
    BY <1>8, <1>9, <2>2 DEF StreamInv
  <2>3. QED
    BY <2>1, <2>2
<1>12. QED
  BY <1>8, <1>10, <1>11 DEF StreamInv

-----------------------------------------------------------------------------
(* cursor/fetch *)

Delivered == [got : Seq(Nat), max : Limits, failed : BOOLEAN, ended : BOOLEAN]

\* What the host has of a result: it lies behind the row that is read next, which
\* is the one it expects unless a fetch has failed.
InOrder(d, r) ==
  /\ \A i \in 1 .. Len(d.got) - 1 : d.got[i] < d.got[i + 1]
  /\ \A i \in 1 .. Len(d.got) : d.got[i] < r.next
  /\ d.max # None => Len(d.got) <= d.max
  /\ ~d.failed => d.got = Numbers(1, Len(d.got)) /\ r.next = Len(d.got) + 1
  /\ ~d.failed /\ d.ended =>
        Len(d.got) = IF d.max = None THEN r.total ELSE MinOf(d.max, r.total)

\* The cursor counts at least what the host has, and exactly that until a fetch fails.
Counted(d, cur) ==
  /\ cur.maxRows = d.max
  /\ Len(d.got) <= cur.fetched
  /\ ~d.failed => Len(d.got) = cur.fetched

RowsInv ==
  /\ delivered \in [DOMAIN delivered -> Delivered]
  /\ DOMAIN delivered = DOMAIN rows
  /\ \A c \in DOMAIN delivered : InOrder(delivered[c], rows[c])
  /\ \A c \in DOMAIN cursors : Counted(delivered[c], cursors[c])

\* Steps that read no row: results are closed or die, cursors are forgotten.
LEMMA RowsUntouched ==
  ASSUME RowsInv, UNCHANGED delivered, DOMAIN rows' = DOMAIN rows,
         \A c \in DOMAIN rows : rows'[c].next = rows[c].next /\ rows'[c].total = rows[c].total,
         \A c \in DOMAIN cursors' : /\ c \in DOMAIN cursors
                                    /\ cursors'[c].maxRows = cursors[c].maxRows
                                    /\ cursors'[c].fetched = cursors[c].fetched
  PROVE  RowsInv'
<1>1. \A c \in DOMAIN delivered : InOrder(delivered[c], rows'[c])
  BY DEF RowsInv, InOrder
<1>2. \A c \in DOMAIN cursors' : Counted(delivered[c], cursors'[c])
  BY DEF RowsInv, Counted
<1>3. QED
  BY <1>1, <1>2 DEF RowsInv

\* k more rows are read from r, which is q afterwards; ended is what the host is told.
ReadsOn(d, r, q, k, ended) ==
  /\ d \in Delivered /\ InOrder(d, r)
  /\ r.next \in Nat /\ r.next >= 1 /\ r.total \in Nat /\ k \in Nat
  /\ q.next = r.next + k /\ q.total = r.total
  /\ d.max # None => Len(d.got) + k <= d.max
  /\ ended \in BOOLEAN
  /\ ~d.failed /\ ended =>
        Len(d.got) + k = IF d.max = None THEN r.total ELSE MinOf(d.max, r.total)

GotMore(d, r, k, ended) == [d EXCEPT !.got = @ \o Numbers(r.next, k), !.ended = ended]

\* They continue what the host has.
LEMMA MoreRows ==
  ASSUME NEW d, NEW r, NEW q, NEW k, NEW ended, ReadsOn(d, r, q, k, ended),
         NEW e, e = GotMore(d, r, k, ended)
  PROVE  /\ e \in Delivered /\ InOrder(e, q)
         /\ Len(e.got) = Len(d.got) + k /\ e.max = d.max /\ e.failed = d.failed
<1> DEFINE next == r.next
           total == r.total
<1>0. /\ d \in Delivered /\ InOrder(d, r) /\ ended \in BOOLEAN
      /\ next \in Nat /\ next >= 1 /\ total \in Nat /\ k \in Nat
      /\ q.next = next + k /\ q.total = total
      /\ d.max # None => Len(d.got) + k <= d.max
      /\ ~d.failed /\ ended =>
            Len(d.got) + k = IF d.max = None THEN total ELSE MinOf(d.max, total)
  BY DEF ReadsOn
<1> DEFINE a == d.got
           n == Len(d.got)
           b == Numbers(next, k)
           g == a \o b
<1>1. /\ a \in Seq(Nat) /\ n \in Nat /\ n = Len(a) /\ d.failed \in BOOLEAN
      /\ d.max # None => d.max \in Nat
  BY <1>0, BoundsAreNaturals DEF Delivered, Limits
<1>2. b \in Seq(Nat) /\ Len(b) = k /\ \A i \in 1 .. k : b[i] = next + i - 1
  <2>1. next \in Nat /\ next # 0 /\ k \in Nat
    BY <1>0
  <2> HIDE DEF next
  <2>2. QED
    BY <2>1, NumbersProperties
<1> HIDE DEF b
<1>3. /\ \A i \in 1 .. n - 1 : a[i] < a[i + 1]
      /\ \A i \in 1 .. n : a[i] < next
      /\ d.max # None => n <= d.max
      /\ ~d.failed => a = Numbers(1, n) /\ next = n + 1
  BY <1>0 DEF InOrder
<1>e. e = [d EXCEPT !.got = g, !.ended = ended]
  BY DEF b, GotMore
<1> HIDE DEF n, a, next, total
<1>4. /\ g \in Seq(Nat) /\ Len(g) = n + k
      /\ \A i \in 1 .. n + k : g[i] = IF i <= n THEN a[i] ELSE b[i - n]
  BY <1>0, <1>1, <1>2, ConcatProperties
<1> HIDE DEF g
<1>5. e \in Delivered /\ e.got = g /\ e.max = d.max /\ e.failed = d.failed /\ e.ended = ended
  BY <1>0, <1>e, <1>4 DEF Delivered
<1>6. \A i \in 1 .. k : n + i \in 1 .. n + k /\ ~(n + i <= n) /\ (n + i) - n = i
  BY <1>0, <1>1
<1>7. \A i \in 1 .. k : g[n + i] = next + i - 1
  BY <1>2, <1>4, <1>6
<1>8. \A i \in 1 .. n : g[i] = a[i] /\ g[i] \in Nat
  BY <1>0, <1>1, <1>4, SMTT(30)
<1>9. ASSUME NEW i \in 1 .. n + k PROVE g[i] < next + k
  <2>1. CASE i <= n
    <3>1. i \in 1 .. n /\ a[i] \in Nat
      BY <1>0, <1>1, <2>1
    <3>2. QED
      BY <1>0, <1>3, <1>8, <3>1
  <2>2. CASE ~(i <= n)
    <3>1. i - n \in 1 .. k /\ n + (i - n) = i
      BY <1>0, <1>1, <2>2
    <3>2. g[i] = next + (i - n) - 1
      BY <1>7, <3>1
    <3>3. QED
      BY <1>0, <1>1, <3>1, <3>2
  <2>3. QED
    BY <2>1, <2>2
<1>10. ASSUME NEW i \in 1 .. (n + k) - 1 PROVE g[i] < g[i + 1]
  <2>1. CASE i + 1 <= n
    <3>1. i \in 1 .. n /\ i + 1 \in 1 .. n /\ i \in 1 .. n - 1
      BY <1>0, <1>1, <2>1
    <3>2. QED
      BY <1>3, <1>8, <3>1
  <2>2. CASE i = n
    <3>1. i \in 1 .. n /\ 1 \in 1 .. k /\ n + 1 = i + 1
      BY <1>0, <1>1, <2>2
    <3>2. a[i] < next /\ g[i] = a[i] /\ g[i + 1] = next + 1 - 1 /\ g[i] \in Nat
      BY <1>3, <1>7, <1>8, <3>1
    <3>3. QED
      BY <1>0, <3>2
  <2>3. CASE i > n
    <3>1. /\ i - n \in 1 .. k /\ n + (i - n) = i
          /\ i + 1 - n \in 1 .. k /\ n + (i + 1 - n) = i + 1
      BY <1>0, <1>1, <2>3
    <3>2. g[i] = next + (i - n) - 1
      BY <1>7, <3>1
    <3>3. g[i + 1] = next + (i + 1 - n) - 1
      BY <1>7, <3>1
    <3>4. QED
      BY <1>0, <1>1, <3>2, <3>3
  <2>4. QED
    BY <1>0, <1>1, <2>1, <2>2, <2>3
<1>11. ~d.failed => g = Numbers(1, n + k) /\ next + k = (n + k) + 1
  <2> SUFFICES ASSUME ~d.failed PROVE g = Numbers(1, n + k) /\ next + k = (n + k) + 1
    OBVIOUS
  <2>1. a = Numbers(1, n) /\ next = n + 1
    BY <1>3
  <2>2. g = Numbers(1, n) \o Numbers(n + 1, k)
    BY <2>1 DEF g, b, a, next
  <2>3. g = Numbers(1, n + k)
    BY <1>0, <1>1, <2>2, NumbersConcat
  <2>4. next + k = (n + k) + 1
    <3>1. n \in Nat /\ next = n + 1 /\ k \in Nat
      BY <1>0, <1>1, <2>1
    <3>2. QED
      BY <3>1
  <2>5. QED
    BY <2>3, <2>4
<1>12. /\ d.max # None => n + k <= d.max
       /\ ~d.failed /\ ended => n + k = IF d.max = None THEN total ELSE MinOf(d.max, total)
  BY <1>0 DEF n
<1>13. InOrder(e, q)
  BY <1>0, <1>4, <1>5, <1>9, <1>10, <1>11, <1>12 DEF InOrder
<1>14. QED
  BY <1>4, <1>5, <1>13 DEF n

\* A fetch that fails after some rows leaves the host with what it had.
LEMMA LostRows ==
  ASSUME NEW d \in Delivered, NEW next \in Nat, NEW k \in Nat,
         NEW r, r.next = next, InOrder(d, r),
         NEW q, q.next = next + k,
         NEW e, e = [d EXCEPT !.failed = TRUE]
  PROVE  e \in Delivered /\ InOrder(e, q) /\ e.got = d.got /\ e.max = d.max /\ e.failed
<1>1. e \in Delivered /\ e.got = d.got /\ e.max = d.max /\ e.failed = TRUE
  BY DEF Delivered
<1>2. /\ Len(d.got) \in Nat /\ \A i \in 1 .. Len(d.got) : d.got[i] \in Nat
  BY DEF Delivered
<1>3. \A i \in 1 .. Len(d.got) : d.got[i] < next + k
  BY <1>2 DEF InOrder
<1>4. InOrder(e, q)
  BY <1>1, <1>3 DEF InOrder
<1>5. QED
  BY <1>1, <1>4

\* What a fetch does to one cursor, its result and what the host has of it.
LEMMA OneFetch ==
  ASSUME IInv, RowsInv, NEW c \in DOMAIN cursors, NEW r, NEW cur, NEW e \in Delivered,
         rows' = [rows EXCEPT ![c] = r], cursors' = [cursors EXCEPT ![c] = cur],
         delivered' = [delivered EXCEPT ![c] = e],
         InOrder(e, r), Counted(e, cur)
  PROVE  RowsInv'
<1>1. /\ c \in DOMAIN rows /\ c \in DOMAIN delivered
      /\ delivered \in [DOMAIN delivered -> Delivered]
  BY DEF IInv, IdsInOrder, RowsInv
<1>2. /\ DOMAIN rows' = DOMAIN rows /\ rows'[c] = r
      /\ \A x \in DOMAIN rows : x # c => rows'[x] = rows[x]
  BY <1>1 DEF IInv, TypeOK, SqlTypeOK
<1>3. /\ DOMAIN cursors' = DOMAIN cursors /\ cursors'[c] = cur
      /\ \A x \in DOMAIN cursors : x # c => cursors'[x] = cursors[x]
  BY DEF IInv, TypeOK
<1>4. /\ DOMAIN delivered' = DOMAIN delivered /\ delivered'[c] = e
      /\ \A x \in DOMAIN delivered : x # c => delivered'[x] = delivered[x]
      /\ delivered' \in [DOMAIN delivered' -> Delivered]
  BY <1>1
<1>5. \A x \in DOMAIN delivered' : InOrder(delivered'[x], rows'[x])
  BY <1>2, <1>4 DEF RowsInv
<1>6. \A x \in DOMAIN cursors' : Counted(delivered'[x], cursors'[x])
  <2>1. \A x \in DOMAIN cursors : x \in DOMAIN delivered
    BY DEF IInv, IdsInOrder, RowsInv
  <2>2. QED
    BY <1>3, <1>4, <2>1 DEF RowsInv
<1>7. DOMAIN delivered' = DOMAIN rows'
  BY <1>2, <1>4 DEF RowsInv
<1>8. QED
  BY <1>4, <1>5, <1>6, <1>7 DEF RowsInv

\* A fetch that is done has read up to the limit or to the end of the result.
LEMMA WantedOrLeft ==
  ASSUME NEW got \in Nat, NEW max \in Nat, NEW total \in Nat, NEW w \in Nat, NEW left \in Nat,
         NEW k \in Nat, left = total - got, k = (IF w <= left THEN w ELSE left),
         got + w <= max, left < w \/ got + k >= max
  PROVE  got + k = IF max <= total THEN max ELSE total
<1>1. CASE left < w
  BY <1>1
<1>2. CASE ~(left < w)
  BY <1>2
<1>3. QED
  BY <1>1, <1>2

\* fetchRows reads up to the batch, the limit or the end, whichever comes first.
LEMMA FetchSucceedsKeepsRows ==
  ASSUME IInv, RowsInv, NEW c \in DOMAIN cursors, NEW n \in 1 .. MaxResult + 1,
         FetchSucceeds(c, n)
  PROVE  RowsInv'
<1> DEFINE cur == cursors[c]
           r == rows[c]
           d == delivered[c]
           w == Wanted(cursors[c], n)
           left == Left(rows[c])
           k == MinOf(Wanted(cursors[c], n), Left(rows[c]))
           eof == left < w
           done == eof \/ (cur.maxRows # None /\ cur.fetched + k >= cur.maxRows)
           q == [r EXCEPT !.next = @ + k, !.status = IF done THEN "closed" ELSE @]
<1>1. /\ cur \in Cursors /\ c \in DOMAIN rows /\ r \in Rows /\ c \in DOMAIN delivered
      /\ d \in Delivered /\ InOrder(d, r) /\ Counted(d, cur)
      /\ rows \in [DOMAIN rows -> Rows] /\ cursors \in [DOMAIN cursors -> Cursors]
      /\ delivered \in [DOMAIN delivered -> Delivered]
  BY DEF IInv, TypeOK, SqlTypeOK, IdsInOrder, RowsInv
<1>2. /\ w \in Nat /\ left \in Nat /\ k \in Nat /\ k <= w /\ k <= left
      /\ cur.maxRows # None => cur.fetched + w <= cur.maxRows
  BY FetchBounds
<1>3. k = IF w <= left THEN w ELSE left
  BY DEF MinOf
<1>4. /\ rows' = [rows EXCEPT ![c] = q]
      /\ \/ /\ cursors' = [cursors EXCEPT ![c] = [cur EXCEPT !.fetched = @ + k, !.done = done,
                                                             !.rows = ~done]]
            /\ delivered' = [delivered EXCEPT ![c] = [d EXCEPT !.got = @ \o Numbers(r.next, k),
                                                               !.ended = done]]
         \/ /\ cursors' = [cursors EXCEPT ![c] = [cur EXCEPT !.fetched = @ + k, !.done = TRUE]]
            /\ delivered' = [delivered EXCEPT ![c] = [d EXCEPT !.failed = TRUE]]
  BY <1>1 DEF FetchSucceeds
<1>5. /\ r.next \in Nat /\ r.total \in Nat /\ r.next >= 1 /\ cur.fetched \in Nat
      /\ left = r.total + 1 - r.next
      /\ cur.maxRows # None => cur.maxRows \in Nat
  BY <1>1, BoundsAreNaturals DEF Rows, Cursors, Limits, IInv, WithinLimits, Left
<1>6. /\ Len(d.got) \in Nat /\ d.max = cur.maxRows /\ Len(d.got) <= cur.fetched
      /\ ~d.failed => Len(d.got) = cur.fetched /\ r.next = Len(d.got) + 1
  BY <1>1 DEF Delivered, Counted, InOrder
<1>7. done \in BOOLEAN
  OBVIOUS
<1> HIDE DEF k, w, left
<1>8. q.next = r.next + k /\ q.total = r.total
  BY <1>1 DEF Rows
<1>9. d.max # None => Len(d.got) + k <= d.max
  BY <1>2, <1>5, <1>6, SMTT(30)
<1>10. ~d.failed /\ done =>
          Len(d.got) + k = IF d.max = None THEN r.total ELSE MinOf(d.max, r.total)
  <2> SUFFICES ASSUME ~d.failed, done
               PROVE  Len(d.got) + k = IF d.max = None THEN r.total ELSE MinOf(d.max, r.total)
    OBVIOUS
  <2>1. Len(d.got) = cur.fetched /\ r.next = cur.fetched + 1 /\ d.max = cur.maxRows
    BY <1>6
  <2>2. CASE d.max = None
    <3>1. left < w
      BY <2>1, <2>2
    <3>2. QED
      BY <1>2, <1>3, <1>5, <2>1, <2>2, <3>1, SMTT(30)
  <2>3. CASE d.max # None
    <3>1. /\ cur.maxRows \in Nat /\ cur.fetched + w <= cur.maxRows
          /\ left < w \/ cur.fetched + k >= cur.maxRows
      BY <1>2, <1>5, <2>1, <2>3
    <3>2. Len(d.got) + k = IF cur.maxRows <= r.total THEN cur.maxRows ELSE r.total
      <4> HIDE DEF cur, r, d
      <4>0. r.next = cur.fetched + 1
        BY <2>1
      <4>1. left = r.total - cur.fetched
        BY <1>5, <4>0
      <4>2. cur.fetched + k = IF cur.maxRows <= r.total THEN cur.maxRows ELSE r.total
        BY <1>2, <1>3, <1>5, <3>1, <4>1, WantedOrLeft
      <4>3. QED
        BY <2>1, <4>2
    <3>3. QED
      BY <2>1, <2>3, <3>2 DEF MinOf
  <2>4. QED
    BY <2>2, <2>3
<1> HIDE DEF done, eof
<1>11. CASE /\ cursors' = [cursors EXCEPT ![c] = [cur EXCEPT !.fetched = @ + k, !.done = done,
                                                             !.rows = ~done]]
            /\ delivered' = [delivered EXCEPT ![c] = [d EXCEPT !.got = @ \o Numbers(r.next, k),
                                                               !.ended = done]]
  <2> DEFINE new == [cur EXCEPT !.fetched = @ + k, !.done = done, !.rows = ~done]
             e == [d EXCEPT !.got = @ \o Numbers(r.next, k), !.ended = done]
  <2>1. new.maxRows = cur.maxRows /\ new.fetched = cur.fetched + k
    BY <1>1 DEF Cursors
  <2>2. cursors' = [cursors EXCEPT ![c] = new] /\ delivered' = [delivered EXCEPT ![c] = e]
    BY <1>11
  <2>3. rows' = [rows EXCEPT ![c] = q]
    BY <1>4
  <2>e. e = GotMore(d, r, k, done)
    BY DEF GotMore
  <2> HIDE DEF q, e, new, d, r, cur
  <2>f. ReadsOn(d, r, q, k, done)
    BY <1>1, <1>2, <1>5, <1>7, <1>8, <1>9, <1>10 DEF ReadsOn
  <2>4. /\ e \in Delivered /\ InOrder(e, q)
        /\ Len(e.got) = Len(d.got) + k /\ e.max = d.max /\ e.failed = d.failed
    BY <2>e, <2>f, MoreRows
  <2>5. Counted(e, new)
    BY <1>2, <1>5, <1>6, <2>1, <2>4 DEF Counted
  <2>6. QED
    BY <2>2, <2>3, <2>4, <2>5, OneFetch
<1>12. CASE /\ cursors' = [cursors EXCEPT ![c] = [cur EXCEPT !.fetched = @ + k, !.done = TRUE]]
            /\ delivered' = [delivered EXCEPT ![c] = [d EXCEPT !.failed = TRUE]]
  <2> DEFINE new == [cur EXCEPT !.fetched = @ + k, !.done = TRUE]
             e == [d EXCEPT !.failed = TRUE]
  <2>1. new.maxRows = cur.maxRows /\ new.fetched = cur.fetched + k
    BY <1>1 DEF Cursors
  <2>2. cursors' = [cursors EXCEPT ![c] = new] /\ delivered' = [delivered EXCEPT ![c] = e]
    BY <1>12
  <2>3. rows' = [rows EXCEPT ![c] = q]
    BY <1>4
  <2>e. e = [d EXCEPT !.failed = TRUE]
    OBVIOUS
  <2> HIDE DEF q, e, new, d, r, cur
  <2>4. e \in Delivered /\ InOrder(e, q) /\ e.got = d.got /\ e.max = d.max /\ e.failed
    BY <1>1, <1>2, <1>5, <1>8, <2>e, LostRows
  <2>5. Counted(e, new)
    BY <1>2, <1>5, <1>6, <2>1, <2>4 DEF Counted
  <2>6. QED
    BY <2>2, <2>3, <2>4, <2>5, OneFetch
<1>13. QED
  BY <1>4, <1>11, <1>12

\* A fetch that fails.
LEMMA FetchFailsKeepsRows ==
  ASSUME IInv, RowsInv, NEW c \in DOMAIN cursors, UNCHANGED cursors,
         delivered' = [delivered EXCEPT ![c].failed = TRUE],
         NEW k \in Nat, NEW q, rows' = [rows EXCEPT ![c] = q], q.next = rows[c].next + k
  PROVE  RowsInv'
<1> DEFINE d == delivered[c]
           r == rows[c]
           e == [d EXCEPT !.failed = TRUE]
<1>1. /\ c \in DOMAIN rows /\ r \in Rows /\ c \in DOMAIN delivered
      /\ d \in Delivered /\ InOrder(d, r) /\ Counted(d, cursors[c])
      /\ cursors \in [DOMAIN cursors -> Cursors]
  BY DEF IInv, TypeOK, SqlTypeOK, IdsInOrder, RowsInv
<1>2. r.next \in Nat
  BY <1>1 DEF Rows
<1>3. delivered' = [delivered EXCEPT ![c] = e] /\ cursors' = [cursors EXCEPT ![c] = cursors[c]]
  BY <1>1
<1>e. e = [d EXCEPT !.failed = TRUE] /\ q.next = r.next + k
  OBVIOUS
<1> HIDE DEF d, r, e
<1>4. e \in Delivered /\ InOrder(e, q) /\ e.got = d.got /\ e.max = d.max /\ e.failed
  BY <1>1, <1>2, <1>e, LostRows
<1>5. Counted(e, cursors[c])
  BY <1>1, <1>4 DEF Counted
<1>6. QED
  BY <1>3, <1>4, <1>5, OneFetch

\* cursor/fetch.
LEMMA FetchKeepsRows ==
  ASSUME IInv, RowsInv, NEW c \in CursorIds, NEW n \in 1 .. MaxResult + 1, handleCursorFetch(c, n)
  PROVE  RowsInv'
<1>1. CASE UNCHANGED <<rows, cursors, delivered>>
  BY <1>1, RowsUntouched
<1>2. ASSUME c \in DOMAIN cursors, FetchSucceeds(c, n)
      PROVE  RowsInv'
  BY <1>2, FetchSucceedsKeepsRows
<1>3. ASSUME c \in DOMAIN cursors, FetchFails(c, n)
      PROVE  RowsInv'
  <2>1. PICK k \in 0 .. MaxResult :
           /\ UNCHANGED cursors /\ delivered' = [delivered EXCEPT ![c].failed = TRUE]
           /\ \/ rows' = [rows EXCEPT ![c].next = @ + k + 1]
              \/ rows' = [rows EXCEPT ![c].next = @ + k, ![c].status = "dead"]
    BY <1>3 DEF FetchFails
  <2>2. rows[c] \in Rows /\ rows[c].next \in Nat /\ k \in Nat
    BY <1>3, BoundsAreNaturals DEF IInv, TypeOK, SqlTypeOK, IdsInOrder, Rows
  <2>3. CASE rows' = [rows EXCEPT ![c].next = @ + k + 1]
    <3> DEFINE q == [rows[c] EXCEPT !.next = @ + k + 1]
    <3>1. rows' = [rows EXCEPT ![c] = q]
      BY <2>3
    <3>2. q.next = rows[c].next + k + 1
      BY <2>2 DEF Rows
    <3>3. q.next = rows[c].next + (k + 1) /\ k + 1 \in Nat
      BY <2>2, <3>2
    <3> HIDE DEF q
    <3>4. QED
      BY <1>3, <2>1, <3>1, <3>3, FetchFailsKeepsRows
  <2>4. CASE rows' = [rows EXCEPT ![c].next = @ + k, ![c].status = "dead"]
    <3> DEFINE q == [rows[c] EXCEPT !.next = @ + k, !.status = "dead"]
    <3>1. rows' = [rows EXCEPT ![c] = q]
      BY <2>4
    <3>2. q.next = rows[c].next + k
      BY <2>2 DEF Rows
    <3> HIDE DEF q
    <3>3. QED
      BY <1>3, <2>1, <2>2, <3>1, <3>2, FetchFailsKeepsRows
  <2>5. QED
    BY <2>1, <2>3, <2>4
<1>4. ASSUME c \in DOMAIN cursors, UNCHANGED <<rows, cursors>>,
             delivered' = [delivered EXCEPT ![c].failed = TRUE]
      PROVE  RowsInv'
  <2>1. rows \in [DOMAIN rows -> Rows] /\ c \in DOMAIN rows /\ rows[c] \in Rows
    BY <1>4 DEF IInv, TypeOK, SqlTypeOK, IdsInOrder
  <2>2. rows' = [rows EXCEPT ![c] = rows[c]]
    BY <1>4, <2>1
  <2>3. rows[c].next = rows[c].next + 0
    BY <2>1 DEF Rows
  <2>4. QED
    BY <1>4, <2>2, <2>3, FetchFailsKeepsRows
<1>5. QED
  BY <1>1, <1>2, <1>3, <1>4 DEF handleCursorFetch, Answer, tables, hostVars, sqlVars

\* query/start: the host has nothing of a new result.
LEMMA QueryStartKeepsRows ==
  ASSUME IInv, RowsInv, NEW c \in ConnIds, NEW t \in TxIds \cup {None}, NEW max \in Limits,
         NEW total \in 0 .. MaxResult, QueryStarts(c, t, max, total)
  PROVE  RowsInv'
<1> DEFINE x == nextCursor
           r == [conn |-> c, tx |-> t, total |-> total, next |-> 1, status |-> "open"]
           cur == [conn |-> c, rows |-> TRUE, maxRows |-> max, fetched |-> 0, done |-> FALSE]
           d == [got |-> << >>, max |-> max, failed |-> FALSE, ended |-> FALSE]
<1>1. /\ rows' = Put(rows, x, r) /\ cursors' = Put(cursors, x, cur)
      /\ delivered' = Put(delivered, x, d)
  BY DEF QueryStarts
<1>2. << >> \in Seq(Nat) /\ Len(<< >>) = 0
  BY EmptySeq
<1>3. /\ d \in Delivered /\ d.got = << >> /\ d.max = max /\ ~d.failed /\ ~d.ended
  BY <1>2 DEF Delivered
<1>4. r \in Rows /\ r.next = 1 /\ r.total = total
  BY DEF Rows
<1>5. cur \in Cursors /\ cur.maxRows = max /\ cur.fetched = 0
  BY DEF Cursors
<1>6. /\ rows \in [DOMAIN rows -> Rows] /\ cursors \in [DOMAIN cursors -> Cursors]
      /\ delivered \in [DOMAIN delivered -> Delivered]
      /\ DOMAIN delivered = DOMAIN rows
      /\ \A y \in DOMAIN rows : y # x
      /\ \A y \in DOMAIN cursors : y \in DOMAIN rows
  BY DEF IInv, TypeOK, SqlTypeOK, RowsInv, IdsInOrder
<1> HIDE DEF r, cur, d, x
<1>7. /\ Grown(rows, rows', x, r, Rows) /\ Grown(cursors, cursors', x, cur, Cursors)
      /\ Grown(delivered, delivered', x, d, Delivered)
  BY <1>1, <1>3, <1>4, <1>5, <1>6, PutGrows
<1>8. InOrder(d, r)
  <2>1. Numbers(1, 0) = << >>
    <3>1. Numbers(1, 0) \in Seq(Nat) /\ Len(Numbers(1, 0)) = 0
      BY NumbersFromOne
    <3>2. QED
      BY <3>1, EmptySeq
  <2>2. max # None => 0 <= max
    BY BoundsAreNaturals DEF Limits
  <2>3. QED
    BY <1>2, <1>3, <1>4, <2>1, <2>2 DEF InOrder
<1>9. Counted(d, cur)
  BY <1>2, <1>3, <1>5 DEF Counted
<1>10. ASSUME NEW y \in DOMAIN delivered' PROVE InOrder(delivered'[y], rows'[y])
  <2>1. CASE y = x
    BY <1>7, <1>8, <2>1 DEF Grown
  <2>2. CASE y # x
    BY <1>6, <1>7, <2>2 DEF Grown, RowsInv
  <2>3. QED
    BY <2>1, <2>2
<1>11. ASSUME NEW y \in DOMAIN cursors' PROVE Counted(delivered'[y], cursors'[y])
  <2>1. CASE y = x
    BY <1>7, <1>9, <2>1 DEF Grown
  <2>2. CASE y # x
    BY <1>6, <1>7, <2>2 DEF Grown, RowsInv
  <2>3. QED
    BY <2>1, <2>2
<1>12. delivered' \in [DOMAIN delivered' -> Delivered] /\ DOMAIN delivered' = DOMAIN rows'
  BY <1>6, <1>7 DEF Grown
<1>13. QED
  BY <1>10, <1>11, <1>12 DEF RowsInv

\* Closing cursors and finishing transactions.
LEMMA CloseKeepsRows ==
  ASSUME IInv, RowsInv, NEW S, NEW T, UNCHANGED delivered,
         rows' = Finished(Closed(HasRows(S)), T) \/ rows' = Finished(rows, T),
         cursors' = cursors \/ cursors' = Drop(cursors, S)
  PROVE  RowsInv'
<1>1. rows \in [DOMAIN rows -> Rows] /\ cursors \in [DOMAIN cursors -> Cursors]
  BY DEF IInv, TypeOK, SqlTypeOK
<1>2. /\ DOMAIN rows' = DOMAIN rows
      /\ \A c \in DOMAIN rows : rows'[c].next = rows[c].next /\ rows'[c].total = rows[c].total
  <2>1. CASE rows' = Finished(rows, T)
    BY <1>1, <2>1, FinishedProperties
  <2>2. CASE rows' = Finished(Closed(HasRows(S)), T)
    <3> DEFINE r == Closed(HasRows(S))
    <3>1. /\ r \in [DOMAIN r -> Rows] /\ DOMAIN r = DOMAIN rows
          /\ \A c \in DOMAIN rows : r[c].next = rows[c].next /\ r[c].total = rows[c].total
      BY <1>1, ClosedProperties
    <3>2. rows' = Finished(r, T)
      BY <2>2
    <3> HIDE DEF r
    <3>3. /\ DOMAIN rows' = DOMAIN r
          /\ \A c \in DOMAIN r : rows'[c].next = r[c].next /\ rows'[c].total = r[c].total
      BY <3>1, <3>2, FinishedProperties
    <3>4. QED
      BY <3>1, <3>3
  <2>3. QED
    BY <2>1, <2>2
<1>3. \A c \in DOMAIN cursors' : c \in DOMAIN cursors /\ cursors'[c] = cursors[c]
  BY <1>1 DEF Drop, Restrict
<1>4. QED
  BY <1>2, <1>3, RowsUntouched

\* cursor/close and cursor/cancel.
LEMMA CloseCursorKeepsRows ==
  ASSUME IInv, RowsInv, NEW c \in DOMAIN cursors, closeCursor(c, FALSE) \/ closeCursor(c, TRUE),
         UNCHANGED delivered
  PROVE  RowsInv'
<1>1. rows \in [DOMAIN rows -> Rows] /\ cursors \in [DOMAIN cursors -> Cursors]
  BY DEF IInv, TypeOK, SqlTypeOK
<1>2. rows' = Closed(HasRows({c}))
  BY DEF closeCursor
<1>3. /\ DOMAIN rows' = DOMAIN rows
      /\ \A x \in DOMAIN rows : rows'[x].next = rows[x].next /\ rows'[x].total = rows[x].total
  BY <1>1, <1>2, ClosedProperties
<1>4. \/ cursors' = [cursors EXCEPT ![c].rows = FALSE, ![c].done = TRUE]
      \/ cursors' = Drop(cursors, {c})
  BY DEF closeCursor
<1>5. \A x \in DOMAIN cursors' : /\ x \in DOMAIN cursors
                                 /\ cursors'[x].maxRows = cursors[x].maxRows
                                 /\ cursors'[x].fetched = cursors[x].fetched
  BY <1>1, <1>4 DEF Drop, Restrict, Cursors
<1>6. QED
  BY <1>3, <1>5, RowsUntouched

-----------------------------------------------------------------------------
(* Statements: who made what durable *)

\* The numbers of the statements in a transaction's work (0 for a savepoint).
StmtsOf(t) == {sqltx[t].work[i].stmt : i \in DOMAIN sqltx[t].work}

\* What a transaction has made durable.
Mine(D, t) == {d \in D : d.owner = OfTx(t)}

\* The statements of a batch.
BatchRange(b) == b.first .. b.first + b.size - 1

\* Statement numbers are used once: whatever is durable or waits in a transaction has an
\* earlier number than the next statement, and a batch shares no number with a transaction.
NumbersInOrder ==
  /\ nextStmt >= 1
  /\ \A d \in durable : d.stmt < nextStmt
  /\ \A b \in batches : b.first \in Nat /\ b.first >= 1 /\ b.size \in Nat
                        /\ b.first + b.size <= nextStmt
  /\ \A t \in DOMAIN sqltx : \A n \in StmtsOf(t) : n < nextStmt /\ \A b \in batches : n \notin BatchRange(b)

\* Only a known transaction has durable work, and an unfinished one was not asked to commit.
CommitsInOrder ==
  /\ \A d \in durable, t \in TxIds : d.owner = OfTx(t) => t \in DOMAIN sqltx
  /\ \A t \in DOMAIN asked : t \in DOMAIN sqltx /\ ~Active(t)

WorkInv == NumbersInOrder /\ CommitsInOrder /\ TransactionsAreAtomic /\ BatchesAreAtomic

\* Transactions, imports, batches and single statements are told apart by their owner.
LEMMA OwnersApart ==
  /\ \A t, u : OfTx(t) = OfTx(u) => t = u
  /\ \A i, j : OfImport(i) = OfImport(j) => i = j
  /\ \A t, i : OfTx(t) # OfImport(i)
  /\ \A t : OfTx(t) # Autocommit /\ OfTx(t) # Batch
  /\ \A i : OfImport(i) # Autocommit /\ OfImport(i) # Batch
<1>1. /\ \A t : OfTx(t).id = t /\ OfTx(t).kind = "tx"
      /\ \A i : OfImport(i).id = i /\ OfImport(i).kind = "import"
      /\ Autocommit.kind = "auto" /\ Batch.kind = "batch"
  BY DEF OfTx, OfImport, Autocommit, Batch
<1>2. QED
  BY <1>1

\* Statement numbers are naturals.
LEMMA StmtsAreNaturals ==
  ASSUME IInv, NEW t \in DOMAIN sqltx
  PROVE  /\ sqltx[t].work \in Seq(Work)
         /\ \A n \in StmtsOf(t) : n \in Nat
<1>1. sqltx[t].work \in Seq(Work)
  BY DEF IInv, TypeOK, SqlTypeOK, Tx
<1>2. \A i \in DOMAIN sqltx[t].work : sqltx[t].work[i] \in Work
  BY <1>1
<1>3. \A i \in DOMAIN sqltx[t].work : sqltx[t].work[i].stmt \in Nat
  BY <1>2 DEF Work
<1>4. QED
  BY <1>1, <1>3 DEF StmtsOf

\* The new statements have the new numbers.
LEMMA FreshNumbers ==
  ASSUME nextStmt \in Nat, NEW n \in Nat, NEW ks \in SUBSET (1 .. n), NEW owner
  PROVE  \A d \in Fresh(ks, owner) :
            d.owner = owner /\ d.stmt \in Nat /\ nextStmt <= d.stmt /\ d.stmt < nextStmt + n
<1> SUFFICES ASSUME NEW d \in Fresh(ks, owner)
             PROVE  d.owner = owner /\ d.stmt \in Nat /\ nextStmt <= d.stmt /\ d.stmt < nextStmt + n
  OBVIOUS
<1>1. PICK k \in ks : d = [stmt |-> nextStmt + k - 1, owner |-> owner]
  BY DEF Fresh
<1>2. d.owner = owner /\ d.stmt = nextStmt + k - 1 /\ k \in 1 .. n
  BY <1>1
<1>3. QED
  BY <1>2

\* The durable part of a transaction's work.
LEMMA WorkNumbers ==
  ASSUME NEW t
  PROVE  /\ \A d \in WorkOf(t) : d.owner = OfTx(t) /\ d.stmt \in StmtsOf(t)
         /\ WorkOf(t) = {[stmt |-> n, owner |-> OfTx(t)] : n \in StmtsOf(t) \ {0}}
<1>1. \A d \in WorkOf(t) : d.owner = OfTx(t) /\ d.stmt \in StmtsOf(t)
  BY DEF WorkOf, StmtsOf
<1>2. WorkOf(t) = {[stmt |-> n, owner |-> OfTx(t)] : n \in StmtsOf(t) \ {0}}
  BY DEF WorkOf, StmtsOf
<1>3. QED
  BY <1>1, <1>2

\* A transaction whose durable part, work and answer are the same is as atomic as before.
LEMMA AtomicSame ==
  ASSUME TransactionsAreAtomic, NEW t \in DOMAIN sqltx,
         Mine(durable', t) = Mine(durable, t), WorkOf(t)' = WorkOf(t),
         t \in DOMAIN asked' <=> t \in DOMAIN asked,
         t \in DOMAIN asked => asked'[t] = asked[t],
         Active(t)' => Active(t)
  PROVE  LET mine == {d \in durable' : d.owner = OfTx(t)}
         IN \/ mine = {} /\ (t \in DOMAIN asked' => asked'[t] = "error" \/ WorkOf(t)' = {})
            \/ mine = WorkOf(t)' /\ t \in DOMAIN asked' /\ ~Active(t)'
  BY DEF TransactionsAreAtomic, Mine

\* A batch is as atomic as before while only statements outside it become durable.
LEMMA BatchesSame ==
  ASSUME BatchesAreAtomic, UNCHANGED batches,
         \A d \in durable : d \in durable',
         \A d \in durable' : d \in durable \/ \A b \in batches : d.stmt \notin BatchRange(b)
  PROVE  BatchesAreAtomic'
<1> SUFFICES ASSUME NEW b \in batches
             PROVE  LET all == b.first .. b.first + b.size - 1
                        mine == {d.stmt : d \in durable'} \cap all
                    IN mine = {} \/ mine = all
  BY DEF BatchesAreAtomic
<1>1. {d.stmt : d \in durable'} \cap BatchRange(b) = {d.stmt : d \in durable} \cap BatchRange(b)
  OBVIOUS
<1>2. QED
  BY <1>1 DEF BatchesAreAtomic, BatchRange

\* Steps that execute nothing: transactions may end.
LEMMA WorkSame ==
  ASSUME IInv, WorkInv, UNCHANGED <<durable, nextStmt, batches, asked>>,
         DOMAIN sqltx' = DOMAIN sqltx,
         \A t \in DOMAIN sqltx : sqltx'[t].work = sqltx[t].work /\ (Active(t)' => Active(t))
  PROVE  WorkInv'
<1>1. \A t \in DOMAIN sqltx : StmtsOf(t)' = StmtsOf(t) /\ WorkOf(t)' = WorkOf(t)
  BY DEF StmtsOf, WorkOf
<1>2. NumbersInOrder'
  BY <1>1 DEF WorkInv, NumbersInOrder
<1>3. CommitsInOrder'
  BY DEF WorkInv, CommitsInOrder
<1>4. TransactionsAreAtomic'
  BY <1>1 DEF WorkInv, TransactionsAreAtomic
<1>5. BatchesAreAtomic'
  BY DEF WorkInv, BatchesAreAtomic
<1>6. QED
  BY <1>2, <1>3, <1>4, <1>5 DEF WorkInv

\* Statements outside a transaction of the host.
LEMMA FreshKeepsWork ==
  ASSUME IInv, WorkInv, NEW n \in Nat, NEW ks \in SUBSET (1 .. n), NEW owner,
         \A t : OfTx(t) # owner,
         durable' = durable \cup Fresh(ks, owner), nextStmt' = nextStmt + n,
         UNCHANGED <<sqltx, batches, asked>>
  PROVE  WorkInv'
<1>0. nextStmt \in Nat /\ durable \subseteq [stmt : Nat, owner : Owners]
  BY DEF IInv, TypeOK, SqlTypeOK
<1>1. \A d \in Fresh(ks, owner) :
         d.owner = owner /\ d.stmt \in Nat /\ nextStmt <= d.stmt /\ d.stmt < nextStmt + n
  BY <1>0, FreshNumbers
<1>2. \A t : StmtsOf(t)' = StmtsOf(t) /\ WorkOf(t)' = WorkOf(t) /\ Active(t)' = Active(t)
  BY DEF StmtsOf, WorkOf, Active
<1>3. \A t : Mine(durable', t) = Mine(durable, t)
  BY <1>1 DEF Mine
<1>4. NumbersInOrder'
  <2>1. nextStmt' >= 1 /\ nextStmt <= nextStmt' /\ nextStmt' \in Nat
    BY <1>0 DEF WorkInv, NumbersInOrder
  <2>2. \A d \in durable' : d.stmt < nextStmt'
    <3>1. \A d \in durable : d.stmt \in Nat /\ d.stmt < nextStmt
      BY <1>0 DEF WorkInv, NumbersInOrder
    <3>2. \A d \in durable : d.stmt < nextStmt'
      BY <1>0, <2>1, <3>1
    <3>3. QED
      BY <1>1, <3>2
  <2>3. \A b \in batches : b.first \in Nat /\ b.first >= 1 /\ b.size \in Nat
                           /\ b.first + b.size <= nextStmt'
    BY <1>0, <2>1 DEF WorkInv, NumbersInOrder
  <2>4. ASSUME NEW t \in DOMAIN sqltx, NEW m \in StmtsOf(t) PROVE m < nextStmt'
    <3>1. m \in Nat
      BY StmtsAreNaturals
    <3>2. m < nextStmt
      BY DEF WorkInv, NumbersInOrder
    <3>3. QED
      BY <1>0, <2>1, <3>1, <3>2
  <2>5. QED
    BY <1>2, <2>1, <2>2, <2>3, <2>4 DEF WorkInv, NumbersInOrder, BatchRange
<1>5. CommitsInOrder'
  BY <1>1, <1>2 DEF WorkInv, CommitsInOrder
<1>6. TransactionsAreAtomic'
  <2>1. \A t \in DOMAIN sqltx :
           LET mine == {d \in durable' : d.owner = OfTx(t)}
           IN \/ mine = {} /\ (t \in DOMAIN asked' => asked'[t] = "error" \/ WorkOf(t)' = {})
              \/ mine = WorkOf(t)' /\ t \in DOMAIN asked' /\ ~Active(t)'
    BY <1>2, <1>3, AtomicSame DEF WorkInv
  <2>2. QED
    BY <2>1 DEF TransactionsAreAtomic
<1>7. BatchesAreAtomic'
  <2>1. \A d \in Fresh(ks, owner) : \A b \in batches : d.stmt \notin BatchRange(b)
    BY <1>0, <1>1 DEF WorkInv, NumbersInOrder, BatchRange
  <2>2. QED
    BY <2>1, BatchesSame DEF WorkInv
<1>8. QED
  BY <1>4, <1>5, <1>6, <1>7 DEF WorkInv

\* The work of an unfinished transaction changes: nothing of it is durable, and a new
\* statement has the next number.
LEMMA TxWorkKeepsWork ==
  ASSUME IInv, WorkInv, NEW t \in DOMAIN sqltx, Active(t), NEW w \in Seq(Work),
         sqltx' = [sqltx EXCEPT ![t].work = w],
         UNCHANGED <<durable, batches, asked>>,
         nextStmt' \in Nat, nextStmt <= nextStmt',
         \A i \in DOMAIN w : \/ w[i].stmt \in StmtsOf(t) \/ w[i].stmt = 0
                             \/ w[i].stmt = nextStmt /\ nextStmt < nextStmt'
  PROVE  WorkInv'
<1>0. /\ nextStmt \in Nat /\ durable \subseteq [stmt : Nat, owner : Owners]
      /\ sqltx \in [DOMAIN sqltx -> Tx]
  BY DEF IInv, TypeOK, SqlTypeOK
<1>1. /\ DOMAIN sqltx' = DOMAIN sqltx /\ sqltx'[t].work = w
      /\ \A u \in DOMAIN sqltx : sqltx'[u].status = sqltx[u].status
      /\ \A u \in DOMAIN sqltx : u # t => sqltx'[u].work = sqltx[u].work
  BY <1>0 DEF Tx
<1>2. \A u \in DOMAIN sqltx : u # t => StmtsOf(u)' = StmtsOf(u) /\ WorkOf(u)' = WorkOf(u)
  BY <1>1 DEF StmtsOf, WorkOf
<1>3. \A u \in DOMAIN sqltx : Active(u)' = Active(u)
  BY <1>1 DEF Active
<1>4. ASSUME NEW n \in StmtsOf(t)'
      PROVE  n \in StmtsOf(t) \/ n = 0 \/ (n = nextStmt /\ nextStmt < nextStmt')
  BY <1>1, <1>4 DEF StmtsOf
<1>5. NumbersInOrder'
  <2>1. nextStmt' >= 1
    BY <1>0 DEF WorkInv, NumbersInOrder
  <2>2. \A d \in durable : d.stmt < nextStmt'
    <3>1. \A d \in durable : d.stmt \in Nat /\ d.stmt < nextStmt
      BY <1>0 DEF WorkInv, NumbersInOrder
    <3>2. QED
      BY <1>0, <3>1
  <2>3. \A b \in batches : b.first \in Nat /\ b.first >= 1 /\ b.size \in Nat
                           /\ b.first + b.size <= nextStmt'
    BY <1>0 DEF WorkInv, NumbersInOrder
  <2>4. ASSUME NEW u \in DOMAIN sqltx, NEW m \in StmtsOf(u)
        PROVE  m < nextStmt' /\ \A b \in batches : m \notin BatchRange(b)
    <3>1. m \in Nat
      BY StmtsAreNaturals
    <3>2. m < nextStmt /\ \A b \in batches : m \notin BatchRange(b)
      BY DEF WorkInv, NumbersInOrder
    <3>3. QED
      BY <1>0, <3>1, <3>2
  <2>5. ASSUME NEW m, m = 0 \/ (m = nextStmt /\ nextStmt < nextStmt')
        PROVE  m < nextStmt' /\ \A b \in batches : m \notin BatchRange(b)
    BY <1>0, <2>1, <2>5 DEF WorkInv, NumbersInOrder, BatchRange
  <2>6. \A u \in DOMAIN sqltx' : \A m \in StmtsOf(u)' :
           m < nextStmt' /\ \A b \in batches : m \notin BatchRange(b)
    BY <1>1, <1>2, <1>4, <2>4, <2>5
  <2>7. QED
    BY <2>1, <2>2, <2>3, <2>6 DEF NumbersInOrder, BatchRange
<1>6. CommitsInOrder'
  BY <1>1, <1>3 DEF WorkInv, CommitsInOrder
<1>7. TransactionsAreAtomic'
  <2>1. t \notin DOMAIN asked /\ {d \in durable : d.owner = OfTx(t)} = {}
    BY DEF WorkInv, CommitsInOrder, TransactionsAreAtomic
  <2>2. QED
    BY <1>1, <1>2, <1>3, <2>1 DEF WorkInv, TransactionsAreAtomic
<1>8. BatchesAreAtomic'
  BY DEF WorkInv, BatchesAreAtomic
<1>9. QED
  BY <1>5, <1>6, <1>7, <1>8 DEF WorkInv

\* tx/begin.
LEMMA TxBeginKeepsWork ==
  ASSUME IInv, WorkInv, NEW t \in TxIds, t \notin DOMAIN sqltx, NEW c,
         sqltx' = Put(sqltx, t, [conn |-> c, status |-> "active", work |-> << >>]),
         UNCHANGED <<durable, batches, asked, nextStmt>>
  PROVE  WorkInv'
<1>1. /\ DOMAIN sqltx' = DOMAIN sqltx \cup {t} /\ sqltx'[t].work = << >>
      /\ \A u \in DOMAIN sqltx : sqltx'[u] = sqltx[u]
  BY DEF Put
<1>2. \A u \in DOMAIN sqltx : StmtsOf(u)' = StmtsOf(u) /\ WorkOf(u)' = WorkOf(u) /\ Active(u)' = Active(u)
  BY <1>1 DEF StmtsOf, WorkOf, Active
<1>3. StmtsOf(t)' = {}
  BY <1>1 DEF StmtsOf
<1>4. NumbersInOrder'
  BY <1>1, <1>2, <1>3 DEF WorkInv, NumbersInOrder, BatchRange
<1>5. CommitsInOrder'
  BY <1>1, <1>2 DEF WorkInv, CommitsInOrder
<1>6. TransactionsAreAtomic'
  <2>1. t \notin DOMAIN asked /\ {d \in durable : d.owner = OfTx(t)} = {}
    BY DEF WorkInv, CommitsInOrder
  <2>2. QED
    BY <1>1, <1>2, <2>1 DEF WorkInv, TransactionsAreAtomic
<1>7. BatchesAreAtomic'
  BY DEF WorkInv, BatchesAreAtomic
<1>8. QED
  BY <1>4, <1>5, <1>6, <1>7 DEF WorkInv

\* tx/commit: all of the transaction's work or nothing of it becomes durable, and if the
\* answer is not an error all of it did.
LEMMA CommitKeepsWork ==
  ASSUME IInv, WorkInv, NEW t \in DOMAIN sqltx, Active(t), NEW status \in {"committed", "aborted"},
         sqltx' = EndTxs({t}, status),
         durable' = durable \cup WorkOf(t) \/ (durable' = durable /\ reply' = "error"),
         asked' = Put(asked, t, reply'),
         UNCHANGED <<batches, nextStmt>>
  PROVE  WorkInv'
<1>0. nextStmt \in Nat /\ sqltx \in [DOMAIN sqltx -> Tx]
  BY DEF IInv, TypeOK, SqlTypeOK
<1>1. /\ DOMAIN sqltx' = DOMAIN sqltx
      /\ \A u \in DOMAIN sqltx : Active(u)' <=> u # t /\ Active(u)
  <2>1. /\ DOMAIN EndTxs({t}, status) = DOMAIN sqltx
        /\ \A u \in DOMAIN sqltx :
              EndTxs({t}, status)[u].status = "active" <=> u \notin {t} /\ sqltx[u].status = "active"
    BY <1>0, EndTxsProperties
  <2>2. QED
    BY <2>1 DEF Active
<1>2. \A u \in DOMAIN sqltx : sqltx'[u].work = sqltx[u].work
  BY <1>0 DEF EndTxs, Tx
<1>3. \A u \in DOMAIN sqltx : StmtsOf(u)' = StmtsOf(u) /\ WorkOf(u)' = WorkOf(u)
  BY <1>2 DEF StmtsOf, WorkOf
<1>4. \A d \in durable' : d \in durable \/ (d.owner = OfTx(t) /\ d.stmt \in StmtsOf(t))
  BY WorkNumbers
<1>5. /\ DOMAIN asked' = DOMAIN asked \cup {t} /\ asked'[t] = reply'
      /\ \A u \in DOMAIN asked : u # t => asked'[u] = asked[u]
  BY DEF Put
<1>6. NumbersInOrder'
  <2>1. \A n \in StmtsOf(t) : n < nextStmt
    BY DEF WorkInv, NumbersInOrder
  <2>2. \A d \in durable' : d.stmt < nextStmt
    BY <1>4, <2>1 DEF WorkInv, NumbersInOrder
  <2>3. QED
    BY <1>1, <1>3, <2>2 DEF WorkInv, NumbersInOrder, BatchRange
<1>7. CommitsInOrder'
  <2>1. \A d \in durable', u \in TxIds : d.owner = OfTx(u) => u \in DOMAIN sqltx
    BY <1>4, OwnersApart DEF WorkInv, CommitsInOrder
  <2>2. \A u \in DOMAIN asked' : u \in DOMAIN sqltx /\ ~Active(u)'
    BY <1>1, <1>5 DEF WorkInv, CommitsInOrder
  <2>3. QED
    BY <1>1, <2>1, <2>2 DEF CommitsInOrder
<1>8. TransactionsAreAtomic'
  <2>1. \A u \in DOMAIN sqltx : u # t => Mine(durable', u) = Mine(durable, u)
    BY <1>4, OwnersApart DEF Mine
  <2>2. Mine(durable, t) = {}
    BY DEF WorkInv, CommitsInOrder, TransactionsAreAtomic, Mine
  <2>3. Mine(durable', t) = WorkOf(t) \/ (Mine(durable', t) = {} /\ reply' = "error")
    <3>1. CASE durable' = durable \cup WorkOf(t)
      BY <2>2, <3>1, WorkNumbers DEF Mine
    <3>2. QED
      BY <2>2, <3>1
  <2>4. ASSUME NEW u \in DOMAIN sqltx, u # t
        PROVE  LET mine == {d \in durable' : d.owner = OfTx(u)}
               IN \/ mine = {} /\ (u \in DOMAIN asked' => asked'[u] = "error" \/ WorkOf(u)' = {})
                  \/ mine = WorkOf(u)' /\ u \in DOMAIN asked' /\ ~Active(u)'
    <3>1. /\ u \in DOMAIN asked' <=> u \in DOMAIN asked
          /\ u \in DOMAIN asked => asked'[u] = asked[u]
      BY <1>5, <2>4
    <3>2. QED
      BY <1>1, <1>3, <2>1, <2>4, <3>1, AtomicSame DEF WorkInv
  <2>5. LET mine == {d \in durable' : d.owner = OfTx(t)}
        IN \/ mine = {} /\ (t \in DOMAIN asked' => asked'[t] = "error" \/ WorkOf(t)' = {})
           \/ mine = WorkOf(t)' /\ t \in DOMAIN asked' /\ ~Active(t)'
    BY <1>1, <1>3, <1>5, <2>3 DEF Mine
  <2>6. QED
    BY <1>1, <2>4, <2>5 DEF TransactionsAreAtomic
<1>9. BatchesAreAtomic'
  <2>1. \A n \in StmtsOf(t) : \A b \in batches : n \notin BatchRange(b)
    BY DEF WorkInv, NumbersInOrder
  <2>2. QED
    BY <1>4, <2>1, BatchesSame DEF WorkInv
<1>10. QED
  BY <1>6, <1>7, <1>8, <1>9 DEF WorkInv

\* A set of positions has a smallest one.
LEMMA SmallestPosition ==
  ASSUME NEW S \in SUBSET Nat, S # {}
  PROVE  \E i \in S : \A j \in S : ~(j < i)
<1>1. PICK i \in S : \A j \in S : ~(<<j, i>> \in OpToRel(<, Nat))
  BY NatLessThanWellFounded, WFMin
<1>2. QED
  BY <1>1 DEF OpToRel

\* A batch without an error has executed all of its statements, stop_on_error or not.
LEMMA CompleteBatch ==
  ASSUME NEW n \in Nat, NEW results, DOMAIN results = 1 .. n, NEW stop \in BOOLEAN,
         ~BatchFailed(results, stop)
  PROVE  Effective(results, stop) = 1 .. n
<1> DEFINE bad == {k \in 1 .. n : results[k] # "ok"}
<1>1. bad = {}
  <2> SUFFICES ASSUME bad # {} PROVE FALSE
    OBVIOUS
  <2>1. PICK i \in bad : \A j \in bad : ~(j < i)
    <3>1. bad \in SUBSET Nat /\ bad # {}
      OBVIOUS
    <3> HIDE DEF bad
    <3>2. QED
      BY <3>1, SmallestPosition
  <2>2. \A j \in 1 .. i - 1 : results[j] = "ok"
    BY <2>1
  <2>3. i \in Attempted(results, stop)
    BY <2>1, <2>2 DEF Attempted
  <2>4. QED
    BY <2>1, <2>3 DEF BatchFailed
<1>2. \A k \in 1 .. n : results[k] = "ok"
  BY <1>1
<1>3. Attempted(results, stop) = 1 .. n
  BY <1>2 DEF Attempted
<1>4. QED
  BY <1>2, <1>3 DEF Effective

\* A batch in a transaction: all of its n statements become durable or none.
LEMMA BatchKeepsWork ==
  ASSUME IInv, WorkInv, NEW n \in Nat,
         durable' = durable \/ durable' = durable \cup Fresh(1 .. n, Batch),
         batches' = batches \cup {[first |-> nextStmt, size |-> n]},
         nextStmt' = nextStmt + n,
         UNCHANGED <<sqltx, asked>>
  PROVE  WorkInv'
<1>0. nextStmt \in Nat /\ durable \subseteq [stmt : Nat, owner : Owners]
  BY DEF IInv, TypeOK, SqlTypeOK
<1> DEFINE new == [first |-> nextStmt, size |-> n]
<1>1. \A d \in durable' : \/ d \in durable
                         \/ /\ d.owner = Batch /\ d.stmt \in Nat
                            /\ nextStmt <= d.stmt /\ d.stmt < nextStmt'
  BY <1>0, FreshNumbers
<1>2. \A t : StmtsOf(t)' = StmtsOf(t) /\ WorkOf(t)' = WorkOf(t) /\ Active(t)' = Active(t)
  BY DEF StmtsOf, WorkOf, Active
<1>3. \A t : Mine(durable', t) = Mine(durable, t)
  BY <1>1, OwnersApart DEF Mine
<1>4. \A d \in durable : d \in durable' /\ d.stmt \in Nat /\ d.stmt < nextStmt
  BY <1>0 DEF WorkInv, NumbersInOrder
<1>5. BatchRange(new) = nextStmt .. nextStmt + n - 1
  BY DEF BatchRange
<1>6. NumbersInOrder'
  <2>1. nextStmt' >= 1 /\ nextStmt <= nextStmt' /\ nextStmt' \in Nat
    BY <1>0 DEF WorkInv, NumbersInOrder
  <2>2. \A d \in durable' : d.stmt < nextStmt'
    BY <1>0, <1>1, <1>4, <2>1
  <2>3. \A b \in batches' : b.first \in Nat /\ b.first >= 1 /\ b.size \in Nat
                            /\ b.first + b.size <= nextStmt'
    BY <1>0, <2>1 DEF WorkInv, NumbersInOrder
  <2>4. ASSUME NEW t \in DOMAIN sqltx, NEW m \in StmtsOf(t)
        PROVE  m < nextStmt' /\ \A b \in batches' : m \notin BatchRange(b)
    <3>1. m \in Nat
      BY StmtsAreNaturals
    <3>2. m < nextStmt /\ \A b \in batches : m \notin BatchRange(b)
      BY DEF WorkInv, NumbersInOrder
    <3>3. m < nextStmt' /\ m \notin BatchRange(new)
      BY <1>0, <1>5, <2>1, <3>1, <3>2
    <3>4. QED
      BY <3>2, <3>3
  <2>5. QED
    BY <1>2, <2>1, <2>2, <2>3, <2>4 DEF NumbersInOrder, BatchRange
<1>7. CommitsInOrder'
  BY <1>1, <1>2, OwnersApart DEF WorkInv, CommitsInOrder
<1>8. TransactionsAreAtomic'
  <2>1. \A t \in DOMAIN sqltx :
           LET mine == {d \in durable' : d.owner = OfTx(t)}
           IN \/ mine = {} /\ (t \in DOMAIN asked' => asked'[t] = "error" \/ WorkOf(t)' = {})
              \/ mine = WorkOf(t)' /\ t \in DOMAIN asked' /\ ~Active(t)'
    BY <1>2, <1>3, AtomicSame DEF WorkInv
  <2>2. QED
    BY <2>1 DEF TransactionsAreAtomic
<1>9. BatchesAreAtomic'
  <2>1. ASSUME NEW b \in batches
        PROVE  LET mine == {d.stmt : d \in durable'} \cap BatchRange(b)
               IN mine = {} \/ mine = BatchRange(b)
    <3>1. \A d \in durable' : d \in durable \/ d.stmt \notin BatchRange(b)
      BY <1>0, <1>1 DEF WorkInv, NumbersInOrder, BatchRange
    <3>2. {d.stmt : d \in durable'} \cap BatchRange(b) = {d.stmt : d \in durable} \cap BatchRange(b)
      BY <1>4, <3>1
    <3>3. QED
      BY <3>2 DEF WorkInv, BatchesAreAtomic, BatchRange
  <2>2. LET mine == {d.stmt : d \in durable'} \cap BatchRange(new)
        IN mine = {} \/ mine = BatchRange(new)
    <3>1. CASE durable' = durable
      <4>1. \A d \in durable : d.stmt \notin BatchRange(new)
        BY <1>0, <1>4, <1>5
      <4>2. QED
        BY <3>1, <4>1
    <3>2. CASE durable' = durable \cup Fresh(1 .. n, Batch)
      <4>1. ASSUME NEW m \in BatchRange(new) PROVE \E d \in durable' : d.stmt = m
        <5>1. m - nextStmt + 1 \in 1 .. n /\ nextStmt + (m - nextStmt + 1) - 1 = m
          BY <1>0, <1>5, <4>1
        <5>2. [stmt |-> m, owner |-> Batch] \in Fresh(1 .. n, Batch)
          BY <5>1 DEF Fresh
        <5>3. QED
          BY <3>2, <5>2
      <4> HIDE DEF new
      <4>2. QED
        BY <4>1
    <3>3. QED
      BY <3>1, <3>2
  <2>3. QED
    BY <2>1, <2>2 DEF BatchesAreAtomic, BatchRange
<1>10. QED
  BY <1>6, <1>7, <1>8, <1>9 DEF WorkInv

-----------------------------------------------------------------------------
(* Imports: the rows an import has put into the table *)

ImportedRows(D, i) == {d \in D : d.owner = OfImport(i)}

\* An import that has not begun has no rows, and the rows of one are finitely many.
ImportInv ==
  /\ \A i \in DOMAIN imports : i < nextImport
  /\ \A i \in ImportIds : i >= nextImport => ImportedRows(durable, i) = {}
  /\ \A i \in ImportIds : IsFiniteSet(ImportedRows(durable, i))
  /\ ImportCountsAreTrue

\* Statements of others, and imports that are forgotten.
LEMMA ImportsSame ==
  ASSUME ImportInv, UNCHANGED nextImport,
         \A i \in DOMAIN imports' : i \in DOMAIN imports /\ imports'[i].inserted = imports[i].inserted,
         \A d \in durable : d \in durable',
         \A d \in durable' : d \in durable \/ \A i : d.owner # OfImport(i)
  PROVE  ImportInv'
<1>1. \A i : ImportedRows(durable', i) = ImportedRows(durable, i)
  BY DEF ImportedRows
<1>2. ImportCountsAreTrue'
  BY <1>1 DEF ImportInv, ImportCountsAreTrue, ImportedRows
<1>3. QED
  BY <1>1, <1>2 DEF ImportInv

\* data/import_begin.
LEMMA ImportBeginKeepsImports ==
  ASSUME IInv, ImportInv, nextImport \in ImportIds, NEW c,
         imports' = Put(imports, nextImport, [conn |-> c, inserted |-> 0, failed |-> 0]),
         nextImport' = nextImport + 1, UNCHANGED durable
  PROVE  ImportInv'
<1>1. /\ DOMAIN imports' = DOMAIN imports \cup {nextImport}
      /\ imports'[nextImport].inserted = 0
      /\ \A i \in DOMAIN imports : i # nextImport => imports'[i] = imports[i]
  BY DEF Put
<1>2. \A i \in ImportIds : i \in Nat
  BY BoundsAreNaturals DEF ImportIds
<1>3. nextImport \in Nat /\ DOMAIN imports \subseteq ImportIds
  BY <1>2 DEF IInv, TypeOK
<1>4. \A i \in DOMAIN imports' : i < nextImport'
  <2>1. \A i \in DOMAIN imports : i \in Nat /\ i < nextImport
    BY <1>2, <1>3 DEF ImportInv
  <2>2. nextImport < nextImport' /\ \A i \in DOMAIN imports : i < nextImport'
    BY <1>3, <2>1
  <2>3. QED
    BY <1>1, <2>2
<1>5. \A i \in ImportIds : i >= nextImport' => ImportedRows(durable, i) = {}
  BY <1>2, <1>3 DEF ImportInv
<1>6. Cardinality(ImportedRows(durable, nextImport)) = 0
  BY <1>3, FS_EmptySet DEF ImportInv
<1>7. ImportCountsAreTrue'
  BY <1>1, <1>6 DEF ImportInv, ImportCountsAreTrue, ImportedRows
<1>8. QED
  BY <1>4, <1>5, <1>7 DEF ImportInv

\* The new statements of an import, counted.
LEMMA FreshCounted ==
  ASSUME nextStmt \in Nat, NEW n \in Nat, NEW ks \in SUBSET (1 .. n), NEW owner
  PROVE  /\ IsFiniteSet(Fresh(ks, owner))
         /\ Cardinality(Fresh(ks, owner)) = Cardinality(ks)
         /\ Cardinality(ks) \in Nat
<1> DEFINE row(k) == [stmt |-> nextStmt + k - 1, owner |-> owner]
           f == [k \in ks |-> row(k)]
<1>1. IsFiniteSet(ks) /\ Cardinality(ks) \in Nat
  <2>1. IsFiniteSet(1 .. n)
    BY FS_Interval
  <2>2. IsFiniteSet(ks)
    BY <2>1, FS_Subset
  <2>3. QED
    BY <2>2, FS_CardinalityType
<1>2. f \in [ks -> Fresh(ks, owner)]
  BY DEF Fresh
<1>3. \A j, k \in ks : f[j] = f[k] => j = k
  <2>1. \A k \in ks : k \in Nat /\ row(k).stmt = nextStmt + k - 1 /\ f[k] = row(k)
    OBVIOUS
  <2> HIDE DEF f, row
  <2>2. QED
    BY <2>1
<1>4. \A d \in Fresh(ks, owner) : \E k \in ks : f[k] = d
  BY DEF Fresh
<1>5. f \in Bijection(ks, Fresh(ks, owner))
  <2> HIDE DEF f
  <2>1. QED
    BY <1>2, <1>3, <1>4 DEF Bijection, Injection, Surjection, IsInjective
<1>6. ExistsBijection(ks, Fresh(ks, owner))
  BY <1>5 DEF ExistsBijection
<1>7. QED
  BY <1>1, <1>6, FS_Bijection

\* data/import_chunk.
LEMMA ImportChunkKeepsImports ==
  ASSUME IInv, ImportInv, NumbersInOrder, NEW i \in DOMAIN imports, NEW n \in Nat,
         NEW bad \in SUBSET (1 .. n), NEW failed,
         durable' = durable \cup Fresh((1 .. n) \ bad, OfImport(i)),
         imports' = [imports EXCEPT ![i].inserted = @ + Inserted(n, bad), ![i].failed = failed],
         UNCHANGED nextImport
  PROVE  ImportInv'
<1> DEFINE ks == (1 .. n) \ bad
           new == Fresh(ks, OfImport(i))
           old == ImportedRows(durable, i)
<1>0. /\ nextStmt \in Nat /\ durable \subseteq [stmt : Nat, owner : Owners]
      /\ imports \in [DOMAIN imports -> Imports] /\ i \in ImportIds /\ nextImport \in Nat
  BY BoundsAreNaturals DEF IInv, TypeOK, SqlTypeOK
<1>1. ks \in SUBSET (1 .. n)
  OBVIOUS
<1>2. /\ IsFiniteSet(new) /\ Cardinality(new) = Inserted(n, bad) /\ Inserted(n, bad) \in Nat
  BY <1>0, <1>1, FreshCounted DEF Inserted
<1>3. \A d \in new : d.owner = OfImport(i) /\ d.stmt \in Nat /\ nextStmt <= d.stmt
  <2> HIDE DEF ks
  <2>1. QED
    BY <1>0, <1>1, FreshNumbers
<1> HIDE DEF ks, new
<1>4. durable' = durable \cup new
  BY DEF new, ks
<1>5. \A j \in ImportIds : j # i => ImportedRows(durable', j) = ImportedRows(durable, j)
  BY <1>3, <1>4, OwnersApart DEF ImportedRows
<1>6. ImportedRows(durable', i) = old \cup new
  BY <1>3, <1>4 DEF ImportedRows
<1>7. old \cap new = {}
  <2>1. \A d \in old : d.stmt \in Nat /\ d.stmt < nextStmt
    BY <1>0 DEF NumbersInOrder, ImportedRows
  <2>2. QED
    BY <1>0, <1>3, <2>1
<1>8. IsFiniteSet(old) /\ Cardinality(old) = imports[i].inserted
  BY <1>0 DEF ImportInv, ImportCountsAreTrue, ImportedRows
<1>9. IsFiniteSet(old \cup new) /\ Cardinality(old \cup new) = imports[i].inserted + Inserted(n, bad)
  <2>1. /\ IsFiniteSet(old \cup new)
        /\ Cardinality(old \cup new) = Cardinality(old) + Cardinality(new) - Cardinality(old \cap new)
    BY <1>2, <1>8, FS_Union
  <2>2. Cardinality(old \cap new) = 0
    BY <1>7, FS_EmptySet
  <2>3. Cardinality(old) \in Nat
    BY <1>8, FS_CardinalityType
  <2>4. QED
    BY <1>2, <1>8, <2>1, <2>2, <2>3
<1>10. /\ DOMAIN imports' = DOMAIN imports
       /\ imports'[i].inserted = imports[i].inserted + Inserted(n, bad)
       /\ \A j \in DOMAIN imports : j # i => imports'[j] = imports[j]
  BY <1>0 DEF Imports
<1>11. i < nextImport
  BY DEF ImportInv
<1>12. ~(i >= nextImport)
  BY <1>0, <1>11, BoundsAreNaturals DEF ImportIds
<1>13. ImportCountsAreTrue'
  <2>1. \A j \in DOMAIN imports : j \in ImportIds
    BY DEF IInv, TypeOK
  <2>2. ASSUME NEW j \in DOMAIN imports' PROVE imports'[j].inserted = Cardinality(ImportedRows(durable', j))
    <3>1. CASE j = i
      BY <1>6, <1>9, <1>10, <3>1
    <3>2. CASE j # i
      <4>1. imports[j].inserted = Cardinality(ImportedRows(durable, j))
        BY <1>10 DEF ImportInv, ImportCountsAreTrue, ImportedRows
      <4>2. QED
        BY <1>5, <1>10, <2>1, <3>2, <4>1
    <3>3. QED
      BY <3>1, <3>2
  <2>3. QED
    BY <2>2 DEF ImportCountsAreTrue, ImportedRows
<1>14. \A j \in ImportIds : j >= nextImport' => ImportedRows(durable', j) = {}
  BY <1>5, <1>12 DEF ImportInv
<1>15. \A j \in ImportIds : IsFiniteSet(ImportedRows(durable', j))
  BY <1>5, <1>6, <1>9 DEF ImportInv
<1>16. QED
  BY <1>10, <1>13, <1>14, <1>15 DEF ImportInv

-----------------------------------------------------------------------------
(* What the host gets and what it groups: the invariant of both *)

PiecesInv == RowsInv /\ StreamInv /\ WorkInv /\ ImportInv

\* A step that leaves its variables alone keeps what the host knows of its cursors.
LEMMA RowsQuiet ==
  ASSUME RowsInv, UNCHANGED <<rows, cursors, delivered>>
  PROVE  RowsInv'
  BY RowsUntouched

\* The same for streams.
LEMMA StreamsQuiet ==
  ASSUME StreamInv, UNCHANGED <<streams, received>>
  PROVE  StreamInv'
  BY StreamsForgotten

\* The same for transactions and batches.
LEMMA WorkQuiet ==
  ASSUME IInv, WorkInv, UNCHANGED <<durable, nextStmt, batches, asked, sqltx>>
  PROVE  WorkInv'
<1>1. \A t \in DOMAIN sqltx : sqltx'[t].work = sqltx[t].work /\ (Active(t)' => Active(t))
  BY DEF Active
<1>2. QED
  BY <1>1, WorkSame

\* The same for imports.
LEMMA ImportsQuiet ==
  ASSUME ImportInv, UNCHANGED <<durable, imports, nextImport>>
  PROVE  ImportInv'
  BY ImportsSame

\* A step that leaves all of them alone.
LEMMA QuietKeepsPieces ==
  ASSUME IInv, PiecesInv,
         UNCHANGED <<rows, cursors, delivered, streams, received, durable, nextStmt, batches, asked,
                     sqltx, imports, nextImport>>
  PROVE  PiecesInv'
  BY RowsQuiet, StreamsQuiet, WorkQuiet, ImportsQuiet DEF PiecesInv

\* Requests that are only answered.
LEMMA AnswerKeepsPieces ==
  ASSUME IInv, PiecesInv, NEW outcome, Answer(outcome)
  PROVE  PiecesInv'
<1>1. UNCHANGED <<rows, cursors, delivered, streams, received, durable, nextStmt, batches, asked,
                  sqltx, imports, nextImport>>
  BY DEF Answer, tables, counters, hostVars, sqlVars
<1>2. QED
  BY <1>1, QuietKeepsPieces

\* Transactions that are rolled back.
LEMMA RolledBackKeepsWork ==
  ASSUME IInv, WorkInv, NEW T, sqltx' = EndTxs(T, "aborted"),
         UNCHANGED <<durable, nextStmt, batches, asked>>
  PROVE  WorkInv'
<1>0. sqltx \in [DOMAIN sqltx -> Tx]
  BY DEF IInv, TypeOK, SqlTypeOK
<1>1. /\ DOMAIN EndTxs(T, "aborted") = DOMAIN sqltx
      /\ \A t \in DOMAIN sqltx :
            EndTxs(T, "aborted")[t].status = "active" <=> t \notin T /\ sqltx[t].status = "active"
  BY <1>0, EndTxsProperties
<1>2. \A t \in DOMAIN sqltx : EndTxs(T, "aborted")[t].work = sqltx[t].work
  BY <1>0 DEF EndTxs, Tx
<1>3. \A t \in DOMAIN sqltx : sqltx'[t].work = sqltx[t].work /\ (Active(t)' => Active(t))
  BY <1>1, <1>2 DEF Active
<1>4. QED
  BY <1>1, <1>3, WorkSame

\* What shutdown and conn/close close.
LEMMA CloseKeepsPieces ==
  ASSUME IInv, PiecesInv, NEW S, NEW T, NEW I, NEW C, NEW errors, Close(S, T, I, C, errors),
         streams' = << >> \/ streams' = streams,
         UNCHANGED <<delivered, received, durable, nextStmt, batches, asked, nextImport>>
  PROVE  PiecesInv'
<1>1. /\ rows' = Finished(Closed(HasRows(S)), T) /\ cursors' = Drop(cursors, S)
      /\ imports' = Drop(imports, I) /\ sqltx' = EndTxs(T, "aborted")
  BY DEF Close
<1>2. RowsInv'
  BY <1>1, CloseKeepsRows DEF PiecesInv
<1>3. StreamInv'
  <2>1. \A s \in DOMAIN streams' : s \in DOMAIN streams /\ streams'[s] = streams[s]
    OBVIOUS
  <2>2. QED
    BY <2>1, StreamsForgotten DEF PiecesInv
<1>4. WorkInv'
  BY <1>1, RolledBackKeepsWork DEF PiecesInv
<1>5. ImportInv'
  <2>1. \A i \in DOMAIN imports' : i \in DOMAIN imports /\ imports'[i].inserted = imports[i].inserted
    BY <1>1 DEF Drop, Restrict
  <2>2. QED
    BY <2>1, ImportsSame DEF PiecesInv
<1>6. QED
  BY <1>2, <1>3, <1>4, <1>5 DEF PiecesInv

\* shutdown: closeAll.
LEMMA HandleShutdownKeepsPieces ==
  ASSUME IInv, PiecesInv, HandleShutdown
  PROVE  PiecesInv'
<1>1. UNCHANGED <<delivered, received, durable, nextStmt, batches, asked, nextImport>>
  BY DEF HandleShutdown, counters, hostVars
<1>2. QED
  BY <1>1, CloseKeepsPieces DEF HandleShutdown

\* conn/*, schema/* and ddl/*.
LEMMA ConnRequestKeepsPieces ==
  ASSUME IInv, PiecesInv, ConnRequest
  PROVE  PiecesInv'
<1>1. CASE handleConnTest \/ handleDdlBuild
  BY <1>1, AnswerKeepsPieces DEF handleConnTest, handleDdlBuild
<1>2. CASE handleConnOpen
  <2>1. CASE Answer("InvalidParams") \/ Answer("ConnectionFailed")
    BY <2>1, AnswerKeepsPieces
  <2>2. CASE ~(Answer("InvalidParams") \/ Answer("ConnectionFailed"))
    <3>1. UNCHANGED <<rows, cursors, delivered, streams, received, durable, nextStmt, batches, asked,
                      sqltx, imports, nextImport>>
      BY <1>2, <2>2 DEF handleConnOpen, hostVars
    <3>2. QED
      BY <3>1, QuietKeepsPieces
  <2>3. QED
    BY <2>1, <2>2
<1>3. ASSUME NEW c \in ConnIds, handleConnClose(c) PROVE PiecesInv'
  <2>1. CASE Answer("UnknownConnID")
    BY <2>1, AnswerKeepsPieces
  <2>2. CASE ~Answer("UnknownConnID")
    <3>1. UNCHANGED <<streams, delivered, received, durable, nextStmt, batches, asked, nextImport>>
      BY <1>3, <2>2 DEF handleConnClose, counters, hostVars
    <3>2. QED
      BY <1>3, <2>2, <3>1, CloseKeepsPieces DEF handleConnClose
  <2>3. QED
    BY <2>1, <2>2
<1>4. ASSUME NEW c \in ConnIds, handleConnPing(c) \/ handleSchema(c) \/ handleSchemaObjectView(c)
      PROVE  PiecesInv'
  BY <1>4, AnswerKeepsPieces DEF handleConnPing, handleSchema, handleSchemaObjectView, QueryObjects
<1>5. ASSUME NEW c \in ConnIds, NEW db \in Databases, handleConnUse(c, db) PROVE PiecesInv'
  <2>1. CASE Answer("UnknownConnID")
    BY <2>1, AnswerKeepsPieces
  <2>2. CASE ~Answer("UnknownConnID")
    <3>1. UNCHANGED <<rows, cursors, delivered, streams, received, durable, nextStmt, batches, asked,
                      sqltx, imports, nextImport>>
      BY <1>5, <2>2 DEF handleConnUse, counters, hostVars, sqlVars
    <3>2. QED
      BY <3>1, QuietKeepsPieces
  <2>3. QED
    BY <2>1, <2>2
<1>6. QED
  BY <1>1, <1>2, <1>3, <1>4, <1>5 DEF ConnRequest

\* query/start and cursor/*.
LEMMA CursorRequestKeepsPieces ==
  ASSUME IInv, PiecesInv, CursorRequest
  PROVE  PiecesInv'
<1>0. ASSUME RowsInv', UNCHANGED <<streams, received, durable, nextStmt, batches, asked, sqltx,
                                   imports, nextImport>>
      PROVE  PiecesInv'
  BY <1>0, StreamsQuiet, WorkQuiet, ImportsQuiet DEF PiecesInv
<1>1. ASSUME NEW c \in ConnIds, NEW t \in TxIds \cup {None}, NEW max \in Limits,
             handleQueryStart(c, t, max)
      PROVE  PiecesInv'
  <2>1. CASE Answer("UnknownConnID") \/ Answer("InvalidParams") \/ Answer("SQLSyntax")
    BY <2>1, AnswerKeepsPieces
  <2>2. CASE ~(Answer("UnknownConnID") \/ Answer("InvalidParams") \/ Answer("SQLSyntax"))
    <3>1. PICK total \in 0 .. MaxResult : QueryStarts(c, t, max, total)
      BY <1>1, <2>2 DEF handleQueryStart
    <3>2. RowsInv'
      BY <3>1, QueryStartKeepsRows DEF PiecesInv
    <3>3. UNCHANGED <<streams, received, durable, nextStmt, batches, asked, sqltx, imports, nextImport>>
      BY <3>1 DEF QueryStarts
    <3>4. QED
      BY <1>0, <3>2, <3>3
  <2>3. QED
    BY <2>1, <2>2
<1>2. ASSUME NEW c \in CursorIds, NEW n \in 1 .. MaxResult + 1, handleCursorFetch(c, n)
      PROVE  PiecesInv'
  <2>1. RowsInv'
    BY <1>2, FetchKeepsRows DEF PiecesInv
  <2>2. UNCHANGED <<streams, received, durable, nextStmt, batches, asked, sqltx, imports, nextImport>>
    BY <1>2 DEF handleCursorFetch, Answer, tables, counters, hostVars, sqlVars
  <2>3. QED
    BY <1>0, <2>1, <2>2
<1>3. ASSUME NEW c \in CursorIds, handleCursorClose(c) \/ handleCursorCancel(c) PROVE PiecesInv'
  <2>1. CASE Answer("UnknownCursorID")
    BY <2>1, AnswerKeepsPieces
  <2>2. CASE ~Answer("UnknownCursorID")
    <3>1. /\ c \in DOMAIN cursors
          /\ closeCursor(c, FALSE) \/ closeCursor(c, TRUE)
          /\ UNCHANGED <<delivered, received, asked, batches, streams, durable, nextStmt, sqltx,
                         imports, nextImport>>
      BY <1>3, <2>2 DEF handleCursorClose, handleCursorCancel, counters, hostVars
    <3>2. RowsInv'
      BY <3>1, CloseCursorKeepsRows DEF PiecesInv
    <3>3. QED
      BY <1>0, <3>1, <3>2
  <2>3. QED
    BY <2>1, <2>2
<1>4. QED
  BY <1>1, <1>2, <1>3 DEF CursorRequest

\* exec/run.
LEMMA ExecRunKeepsPieces ==
  ASSUME IInv, PiecesInv, NEW c \in ConnIds, NEW t \in TxIds \cup {None}, NEW result \in Results,
         handleExecRun(c, t, result)
  PROVE  PiecesInv'
<1>1. CASE Answer("UnknownConnID") \/ Answer("InvalidParams") \/ Answer("SQLSyntax")
  BY <1>1, AnswerKeepsPieces
<1>2. CASE ~(Answer("UnknownConnID") \/ Answer("InvalidParams") \/ Answer("SQLSyntax"))
  <2>1. /\ Execute(t, c) /\ nextStmt' = nextStmt + 1
        /\ UNCHANGED <<rows, cursors, delivered, streams, received, batches, asked, imports, nextImport>>
    BY <1>2 DEF handleExecRun, tables, counters, hostVars
  <2>2. RowsInv' /\ StreamInv'
    BY <2>1, RowsQuiet, StreamsQuiet DEF PiecesInv
  <2>3. CASE durable' = durable \cup Fresh({1}, Autocommit) /\ UNCHANGED sqltx
    <3>1. {1} \in SUBSET (1 .. 1) /\ 1 \in Nat
      OBVIOUS
    <3>2. WorkInv'
      BY <2>1, <2>3, <3>1, FreshKeepsWork, OwnersApart DEF PiecesInv
    <3>3. \A d \in durable' : d \in durable \/ \A i : d.owner # OfImport(i)
      BY <2>3, OwnersApart DEF Fresh
    <3>4. ImportInv'
      BY <2>1, <2>3, <3>3, ImportsSame DEF PiecesInv
    <3>5. QED
      BY <2>2, <3>2, <3>4 DEF PiecesInv
  <2>4. CASE /\ TxForRequest(t, c) /\ Active(t)
             /\ sqltx' = [sqltx EXCEPT ![t].work = Append(@, Statement(nextStmt))]
             /\ UNCHANGED durable
    <3> DEFINE v == sqltx[t].work
               w == Append(v, Statement(nextStmt))
    <3>1. t \in DOMAIN sqltx /\ nextStmt \in Nat
      BY <2>4 DEF IInv, IdsInOrder, TxForRequest, TypeOK, SqlTypeOK
    <3>2. v \in Seq(Work)
      BY <3>1, StmtsAreNaturals
    <3>3. Statement(nextStmt) \in Work /\ Statement(nextStmt).stmt = nextStmt
      BY <3>1, NoneIsNothing DEF Statement, Work
    <3>4. \A i \in DOMAIN v : v[i].stmt \in StmtsOf(t)
      BY DEF StmtsOf
    <3>5. sqltx' = [sqltx EXCEPT ![t].work = w]
      BY <2>4
    <3> HIDE DEF v
    <3>6. /\ w \in Seq(Work) /\ DOMAIN w = 1 .. Len(v) + 1 /\ w[Len(v) + 1] = Statement(nextStmt)
          /\ \A i \in 1 .. Len(v) : w[i] = v[i] /\ i \in DOMAIN v
          /\ Len(v) \in Nat
      BY <3>2, <3>3, AppendProperties
    <3> HIDE DEF w
    <3>7. \A i \in DOMAIN w : \/ w[i].stmt \in StmtsOf(t) \/ w[i].stmt = 0
                              \/ w[i].stmt = nextStmt /\ nextStmt < nextStmt'
      BY <2>1, <3>1, <3>3, <3>4, <3>6
    <3>8. nextStmt' \in Nat /\ nextStmt <= nextStmt'
      BY <2>1, <3>1
    <3>9. WorkInv'
      BY <2>1, <2>4, <3>1, <3>5, <3>6, <3>7, <3>8, TxWorkKeepsWork DEF PiecesInv
    <3>10. ImportInv'
      BY <2>1, <2>4, ImportsQuiet DEF PiecesInv
    <3>11. QED
      BY <2>2, <3>9, <3>10 DEF PiecesInv
  <2>5. QED
    BY <2>1, <2>3, <2>4 DEF Execute
<1>3. QED
  BY <1>1, <1>2

\* exec/batch.
LEMMA ExecBatchKeepsPieces ==
  ASSUME IInv, PiecesInv, NEW c \in ConnIds, NEW results \in BatchResults, NEW stop \in BOOLEAN,
         NEW in_transaction \in BOOLEAN, handleExecBatch(c, results, stop, in_transaction)
  PROVE  PiecesInv'
<1>1. CASE Answer("UnknownConnID") \/ Answer("SQLSyntax")
  BY <1>1, AnswerKeepsPieces
<1>2. CASE ~(Answer("UnknownConnID") \/ Answer("SQLSyntax"))
  <2> DEFINE n == Len(results)
             ks == Effective(results, stop)
             effect == Fresh(ks, Batch)
  <2>1. /\ nextStmt' = nextStmt + n
        /\ UNCHANGED <<rows, cursors, delivered, streams, received, asked, imports, nextImport, sqltx>>
    BY <1>2 DEF handleExecBatch, tables, counters
  <2>2. \/ ~in_transaction /\ durable' = durable \cup effect /\ batches' = batches
        \/ /\ in_transaction /\ batches' = batches \cup {[first |-> nextStmt, size |-> n]}
           /\ durable' = durable \/ (~BatchFailed(results, stop) /\ durable' = durable \cup effect)
    BY <1>2 DEF handleExecBatch
  <2>3. n \in Nat /\ DOMAIN results = 1 .. n
    <3>1. PICK m \in 1 .. MaxBatch : results \in [1 .. m -> Results]
      BY DEF BatchResults
    <3>2. QED
      BY <3>1, MaxBatchIsNatural
  <2>4. ks \in SUBSET (1 .. n)
    BY <2>3 DEF Effective, Attempted
  <2>5. RowsInv' /\ StreamInv'
    BY <2>1, RowsQuiet, StreamsQuiet DEF PiecesInv
  <2>6. ImportInv'
    <3>1. \A d \in effect : \A i : d.owner # OfImport(i)
      BY OwnersApart DEF Fresh
    <3> HIDE DEF effect
    <3>2. \A d \in durable' : d \in durable \/ \A i : d.owner # OfImport(i)
      BY <2>2, <3>1
    <3>3. \A d \in durable : d \in durable'
      BY <2>2
    <3>4. QED
      BY <2>1, <3>2, <3>3, ImportsSame DEF PiecesInv
  <2> HIDE DEF n
  <2>7. WorkInv'
    <3>1. CASE ~in_transaction /\ durable' = durable \cup effect /\ batches' = batches
      <4> HIDE DEF ks
      <4>1. QED
        BY <2>1, <2>3, <2>4, <3>1, FreshKeepsWork, OwnersApart DEF PiecesInv
    <3>2. CASE /\ in_transaction /\ batches' = batches \cup {[first |-> nextStmt, size |-> n]}
               /\ durable' = durable \/ (~BatchFailed(results, stop) /\ durable' = durable \cup effect)
      <4>1. ~BatchFailed(results, stop) => ks = 1 .. n
        BY <2>3, CompleteBatch
      <4> HIDE DEF ks
      <4>2. durable' = durable \/ durable' = durable \cup Fresh(1 .. n, Batch)
        BY <3>2, <4>1
      <4>3. QED
        BY <2>1, <2>3, <3>2, <4>2, BatchKeepsWork DEF PiecesInv
    <3>3. QED
      BY <2>2, <3>1, <3>2
  <2>8. QED
    BY <2>5, <2>6, <2>7 DEF PiecesInv
<1>3. QED
  BY <1>1, <1>2

\* tx/begin.
LEMMA HandleTxBeginKeepsPieces ==
  ASSUME IInv, PiecesInv, NEW c \in ConnIds, handleTxBegin(c)
  PROVE  PiecesInv'
<1>1. CASE Answer("UnknownConnID") \/ Answer("SQLSyntax")
  BY <1>1, AnswerKeepsPieces
<1>2. CASE ~(Answer("UnknownConnID") \/ Answer("SQLSyntax"))
  <2>1. /\ nextTx <= MaxTxs
        /\ sqltx' = Put(sqltx, nextTx, [conn |-> c, status |-> "active", work |-> << >>])
        /\ UNCHANGED <<rows, cursors, delivered, streams, received, durable, nextStmt, batches, asked,
                       imports, nextImport>>
    BY <1>2 DEF handleTxBegin, hostVars
  <2>2. nextTx \in TxIds
    BY <2>1, BoundsAreNaturals DEF IInv, TypeOK, TxIds
  <2>3. nextTx \notin DOMAIN sqltx
    BY <2>2, BoundsAreNaturals DEF IInv, IdsInOrder, TxIds
  <2>4. WorkInv'
    BY <2>1, <2>2, <2>3, TxBeginKeepsWork DEF PiecesInv
  <2>5. QED
    BY <2>1, <2>4, RowsQuiet, StreamsQuiet, ImportsQuiet DEF PiecesInv
<1>3. QED
  BY <1>1, <1>2

\* tx/commit.
LEMMA HandleTxCommitKeepsPieces ==
  ASSUME IInv, PiecesInv, NEW t \in TxIds, handleTxCommit(t)
  PROVE  PiecesInv'
<1>1. CASE Answer("InvalidParams") \/ Answer("SQLSyntax")
  BY <1>1, AnswerKeepsPieces
<1>2. CASE ~(Answer("InvalidParams") \/ Answer("SQLSyntax"))
  <2>1. /\ t \in DOMAIN txs /\ Active(t) /\ rows' = Finished(rows, {t})
        /\ asked' = Put(asked, t, reply')
        /\ \/ sqltx' = EndTxs({t}, "committed") /\ durable' = durable \cup WorkOf(t)
           \/ sqltx' = EndTxs({t}, "aborted") /\ durable' = durable /\ Reply("SQLSyntax")
        /\ UNCHANGED <<cursors, delivered, streams, received, nextStmt, batches, imports, nextImport>>
    BY <1>2 DEF handleTxCommit, counters
  <2>2. t \in DOMAIN sqltx
    BY <2>1 DEF IInv, IdsInOrder
  <2>3. Reply("SQLSyntax") => reply' = "error"
    BY DEF Reply, ErrorCodes
  <2>4. PICK status \in {"committed", "aborted"} :
           /\ sqltx' = EndTxs({t}, status)
           /\ durable' = durable \cup WorkOf(t) \/ (durable' = durable /\ reply' = "error")
    BY <2>1, <2>3
  <2>5. WorkInv'
    BY <2>1, <2>2, <2>4, CommitKeepsWork DEF PiecesInv
  <2>6. RowsInv'
    BY <2>1, CloseKeepsRows DEF PiecesInv
  <2>7. ImportInv'
    <3>1. \A d \in durable' : d \in durable \/ \A i : d.owner # OfImport(i)
      BY <2>1, OwnersApart DEF WorkOf
    <3>2. \A d \in durable : d \in durable'
      BY <2>1
    <3>3. QED
      BY <2>1, <3>1, <3>2, ImportsSame DEF PiecesInv
  <2>8. QED
    BY <2>1, <2>5, <2>6, <2>7, StreamsQuiet DEF PiecesInv
<1>3. QED
  BY <1>1, <1>2

\* tx/rollback.
LEMMA HandleTxRollbackKeepsPieces ==
  ASSUME IInv, PiecesInv, NEW t \in TxIds, handleTxRollback(t)
  PROVE  PiecesInv'
<1>1. CASE Answer("InvalidParams") \/ Answer("SQLSyntax")
  BY <1>1, AnswerKeepsPieces
<1>2. CASE ~(Answer("InvalidParams") \/ Answer("SQLSyntax"))
  <2>1. /\ rows' = Finished(rows, {t}) /\ sqltx' = EndTxs({t}, "aborted")
        /\ UNCHANGED <<cursors, delivered, streams, received, durable, nextStmt, batches, asked,
                       imports, nextImport>>
    BY <1>2 DEF handleTxRollback, counters, hostVars
  <2>2. RowsInv' /\ WorkInv'
    BY <2>1, CloseKeepsRows, RolledBackKeepsWork DEF PiecesInv
  <2>3. QED
    BY <2>1, <2>2, StreamsQuiet, ImportsQuiet DEF PiecesInv
<1>3. QED
  BY <1>1, <1>2

\* tx/savepoint, tx/release and tx/rollback to a savepoint execute no statement of the host.
LEMMA InTransactionKeepsPieces ==
  ASSUME IInv, PiecesInv, NEW t \in DOMAIN txs, Active(t), NEW w \in Seq(Work), InTransaction(t, w),
         \A i \in DOMAIN w : w[i].stmt \in StmtsOf(t) \/ w[i].stmt = 0
  PROVE  PiecesInv'
<1>1. /\ sqltx' = [sqltx EXCEPT ![t].work = w]
      /\ UNCHANGED <<rows, cursors, delivered, streams, received, durable, nextStmt, batches, asked,
                     imports, nextImport>>
  BY DEF InTransaction, tables, counters, hostVars
<1>2. t \in DOMAIN sqltx /\ nextStmt' \in Nat /\ nextStmt <= nextStmt'
  BY <1>1 DEF IInv, IdsInOrder, TypeOK, SqlTypeOK
<1>3. WorkInv'
  BY <1>1, <1>2, TxWorkKeepsWork DEF PiecesInv
<1>4. QED
  BY <1>1, <1>3, RowsQuiet, StreamsQuiet, ImportsQuiet DEF PiecesInv

\* tx/savepoint appends a mark, tx/release clears marks, tx/rollback cuts the work at one.
LEMMA SavepointsKeepPieces ==
  ASSUME IInv, PiecesInv, NEW t \in TxIds, NEW sp \in SavepointNames,
         handleTxSavepoint(t, sp) \/ handleTxRelease(t, sp) \/ handleTxRollbackTo(t, sp)
  PROVE  PiecesInv'
<1>1. CASE Answer("InvalidParams") \/ Answer("SQLSyntax")
  BY <1>1, AnswerKeepsPieces
<1>2. CASE ~(Answer("InvalidParams") \/ Answer("SQLSyntax"))
  <2> DEFINE v == sqltx[t].work
  <2>1. /\ t \in DOMAIN txs /\ Active(t)
        /\ \/ InTransaction(t, Append(v, Savepoint(sp)))
           \/ MarksOf(v, sp) # {} /\ InTransaction(t, Released(v, sp))
           \/ MarksOf(v, sp) # {} /\ InTransaction(t, RolledBackTo(v, sp))
    BY <1>2 DEF handleTxSavepoint, handleTxRelease, handleTxRollbackTo
  <2>2. v \in Seq(Work)
    BY <2>1, WorkType
  <2>3. \A i \in DOMAIN v : v[i].stmt \in StmtsOf(t)
    BY DEF StmtsOf
  <2> HIDE DEF v
  <2>4. Len(v) \in Nat /\ DOMAIN v = 1 .. Len(v) /\ \A i \in DOMAIN v : v[i] \in Work
    BY <2>2
  <2>5. CASE InTransaction(t, Append(v, Savepoint(sp)))
    <3> DEFINE w == Append(v, Savepoint(sp))
    <3>1. Savepoint(sp) \in Work /\ Savepoint(sp).stmt = 0
      BY DEF Savepoint, Work
    <3>2. /\ w \in Seq(Work) /\ DOMAIN w = 1 .. Len(v) + 1 /\ w[Len(v) + 1] = Savepoint(sp)
          /\ \A i \in 1 .. Len(v) : w[i] = v[i]
      BY <2>2, <3>1, AppendProperties
    <3> HIDE DEF w
    <3>3. \A i \in DOMAIN w : w[i].stmt \in StmtsOf(t) \/ w[i].stmt = 0
      BY <2>3, <2>4, <3>1, <3>2
    <3>4. InTransaction(t, w)
      BY <2>5 DEF w
    <3>5. QED
      BY <2>1, <3>2, <3>3, <3>4, InTransactionKeepsPieces
  <2>6. CASE InTransaction(t, Released(v, sp))
    <3> DEFINE w == Released(v, sp)
    <3>1. \A i \in DOMAIN v : /\ [v[i] EXCEPT !.save = None] \in Work
                             /\ [v[i] EXCEPT !.save = None].stmt = v[i].stmt
      BY <2>4 DEF Work
    <3>2. w \in [1 .. Len(v) -> Work] /\ \A i \in DOMAIN v : w[i].stmt = v[i].stmt
      BY <2>4, <3>1 DEF Released
    <3> HIDE DEF w
    <3>3. w \in Seq(Work) /\ DOMAIN w = DOMAIN v
      BY <2>4, <3>2
    <3>4. \A i \in DOMAIN w : w[i].stmt \in StmtsOf(t) \/ w[i].stmt = 0
      BY <2>3, <3>2, <3>3
    <3>5. InTransaction(t, w)
      BY <2>6 DEF w
    <3>6. QED
      BY <2>1, <3>3, <3>4, <3>5, InTransactionKeepsPieces
  <2>7. CASE MarksOf(v, sp) # {} /\ InTransaction(t, RolledBackTo(v, sp))
    <3> DEFINE m == LastMark(v, sp)
               w == SubSeq(v, 1, m)
    <3>1. m \in DOMAIN v
      BY <2>2, <2>7, LastMarkIsAMark DEF MarksOf
    <3> HIDE DEF m
    <3>2. w \in Seq(Work) /\ Len(w) = m /\ \A i \in 1 .. m : w[i] = v[i]
      BY <2>2, <2>4, <3>1, SubSeqProperties
    <3> HIDE DEF w
    <3>3. DOMAIN w \subseteq DOMAIN v /\ \A i \in DOMAIN w : w[i] = v[i]
      BY <2>4, <3>1, <3>2
    <3>4. \A i \in DOMAIN w : w[i].stmt \in StmtsOf(t) \/ w[i].stmt = 0
      BY <2>3, <3>3
    <3>5. InTransaction(t, w)
      BY <2>7 DEF w, m, RolledBackTo
    <3>6. QED
      BY <2>1, <3>2, <3>4, <3>5, InTransactionKeepsPieces
  <2>8. QED
    BY <2>1, <2>5, <2>6, <2>7
<1>3. QED
  BY <1>1, <1>2

\* data/export, stream/read and stream/close.
LEMMA StreamRequestsKeepPieces ==
  ASSUME IInv, PiecesInv,
         \/ \E c \in ConnIds, s \in StreamIds, len \in 0 .. MaxResult : handleDataExport(c, s, len)
         \/ \E s \in StreamIds : \/ \E maxBytes \in 1 .. MaxResult + 1 : handleStreamRead(s, maxBytes)
                                 \/ handleStreamClose(s)
  PROVE  PiecesInv'
<1>0. ASSUME StreamInv', UNCHANGED <<rows, cursors, delivered, durable, nextStmt, batches, asked, sqltx,
                                     imports, nextImport>>
      PROVE  PiecesInv'
  BY <1>0, RowsQuiet, WorkQuiet, ImportsQuiet DEF PiecesInv
<1>1. ASSUME NEW c \in ConnIds, NEW s \in StreamIds, NEW len \in 0 .. MaxResult, handleDataExport(c, s, len)
      PROVE  PiecesInv'
  <2>1. CASE Answer("UnknownConnID") \/ Answer("InvalidParams") \/ Answer("NotSupported")
    BY <2>1, AnswerKeepsPieces
  <2>2. CASE ~(Answer("UnknownConnID") \/ Answer("InvalidParams") \/ Answer("NotSupported"))
    <3>1. /\ streams' = Put(streams, s, [len |-> len, offset |-> 0])
          /\ received' = Put(received, s, [bytes |-> << >>, len |-> len, ended |-> FALSE])
          /\ UNCHANGED <<rows, cursors, delivered, durable, nextStmt, batches, asked, sqltx, imports, nextImport>>
      BY <1>1, <2>2 DEF handleDataExport, counters, sqlVars
    <3>2. StreamInv'
      BY <3>1, ExportKeepsStreams DEF PiecesInv
    <3>3. QED
      BY <1>0, <3>1, <3>2
  <2>3. QED
    BY <2>1, <2>2
<1>2. ASSUME NEW s \in StreamIds, NEW maxBytes \in 1 .. MaxResult + 1, handleStreamRead(s, maxBytes)
      PROVE  PiecesInv'
  <2>1. CASE s \notin DOMAIN streams
    BY <1>2, <2>1, AnswerKeepsPieces DEF handleStreamRead
  <2>2. CASE s \in DOMAIN streams
    <3>1. UNCHANGED <<rows, cursors, delivered, durable, nextStmt, batches, asked, sqltx, imports, nextImport>>
      BY <1>2, <2>2 DEF handleStreamRead, counters, sqlVars
    <3>2. StreamInv'
      BY <1>2, <2>2, ReadKeepsStreams DEF PiecesInv
    <3>3. QED
      BY <1>0, <3>1, <3>2
  <2>3. QED
    BY <2>1, <2>2
<1>3. ASSUME NEW s \in StreamIds, handleStreamClose(s) PROVE PiecesInv'
  <2>1. /\ streams' = Drop(streams, {s})
        /\ UNCHANGED <<rows, cursors, delivered, received, durable, nextStmt, batches, asked, sqltx,
                       imports, nextImport>>
    BY <1>3 DEF handleStreamClose, counters, hostVars, sqlVars
  <2>2. \A x \in DOMAIN streams' : x \in DOMAIN streams /\ streams'[x] = streams[x]
    BY <2>1 DEF Drop, Restrict
  <2>3. StreamInv'
    BY <2>1, <2>2, StreamsForgotten DEF PiecesInv
  <2>4. QED
    BY <1>0, <2>1, <2>3
<1>4. QED
  BY <1>1, <1>2, <1>3

\* data/import_begin.
LEMMA HandleDataImportBeginKeepsPieces ==
  ASSUME IInv, PiecesInv, NEW c \in ConnIds, handleDataImportBegin(c)
  PROVE  PiecesInv'
<1>1. CASE Answer("UnknownConnID") \/ Answer("NotSupported")
  BY <1>1, AnswerKeepsPieces
<1>2. CASE ~(Answer("UnknownConnID") \/ Answer("NotSupported"))
  <2>1. /\ nextImport <= MaxImports /\ nextImport' = nextImport + 1
        /\ imports' = Put(imports, nextImport, [conn |-> c, inserted |-> 0, failed |-> 0])
        /\ UNCHANGED <<rows, cursors, delivered, streams, received, durable, nextStmt, batches, asked, sqltx>>
    BY <1>2 DEF handleDataImportBegin, hostVars, sqlVars
  <2>2. nextImport \in ImportIds
    BY <2>1, BoundsAreNaturals DEF IInv, TypeOK, ImportIds
  <2>3. ImportInv'
    BY <2>1, <2>2, ImportBeginKeepsImports DEF PiecesInv
  <2>4. QED
    BY <2>1, <2>3, RowsQuiet, StreamsQuiet, WorkQuiet DEF PiecesInv
<1>3. QED
  BY <1>1, <1>2

\* data/import_chunk.
LEMMA HandleDataImportChunkKeepsPieces ==
  ASSUME IInv, PiecesInv, NEW i \in ImportIds, NEW n \in 0 .. MaxBatch, NEW bad \in SUBSET (1 .. n),
         handleDataImportChunk(i, n, bad)
  PROVE  PiecesInv'
<1>1. CASE Answer("UnknownConnID") \/ Answer("InvalidParams")
  BY <1>1, AnswerKeepsPieces
<1>2. CASE ~(Answer("UnknownConnID") \/ Answer("InvalidParams"))
  <2> DEFINE ks == (1 .. n) \ bad
  <2>1. /\ i \in DOMAIN imports
        /\ durable' = durable \cup Fresh((1 .. n) \ bad, OfImport(i)) /\ nextStmt' = nextStmt + n
        /\ imports' = [imports EXCEPT ![i].inserted = @ + Inserted(n, bad),
                                      ![i].failed = imports[i].failed + Cardinality(bad)]
        /\ UNCHANGED <<rows, cursors, delivered, streams, received, batches, asked, sqltx, nextImport>>
    BY <1>2 DEF handleDataImportChunk, counters, hostVars
  <2>2. n \in Nat
    BY MaxBatchIsNatural
  <2>3. ImportInv'
    BY <2>1, <2>2, ImportChunkKeepsImports DEF PiecesInv, WorkInv
  <2>4. ks \in SUBSET (1 .. n) /\ durable' = durable \cup Fresh(ks, OfImport(i))
    BY <2>1
  <2> HIDE DEF ks
  <2>5. WorkInv'
    BY <2>1, <2>2, <2>4, FreshKeepsWork, OwnersApart DEF PiecesInv
  <2>6. QED
    BY <2>1, <2>3, <2>5, RowsQuiet, StreamsQuiet DEF PiecesInv
<1>3. QED
  BY <1>1, <1>2

\* data/import_commit and data/import_abort.
LEMMA ForgetImportKeepsPieces ==
  ASSUME IInv, PiecesInv, NEW i, ForgetImport(i)
  PROVE  PiecesInv'
<1>1. /\ imports' = Drop(imports, {i})
      /\ UNCHANGED <<rows, cursors, delivered, streams, received, durable, nextStmt, batches, asked, sqltx,
                     nextImport>>
  BY DEF ForgetImport, counters, hostVars, sqlVars
<1>2. \A j \in DOMAIN imports' : j \in DOMAIN imports /\ imports'[j].inserted = imports[j].inserted
  BY <1>1 DEF Drop, Restrict
<1>3. ImportInv'
  BY <1>1, <1>2, ImportsSame DEF PiecesInv
<1>4. QED
  BY <1>1, <1>3, RowsQuiet, StreamsQuiet, WorkQuiet DEF PiecesInv

\* exec/* and tx/*.
LEMMA TxRequestKeepsPieces ==
  ASSUME IInv, PiecesInv, ExecRequest \/ TxRequest
  PROVE  PiecesInv'
<1>1. ASSUME NEW c \in ConnIds, NEW t \in TxIds \cup {None}, NEW result \in Results,
             handleExecRun(c, t, result)
      PROVE  PiecesInv'
  BY <1>1, ExecRunKeepsPieces
<1>2. ASSUME NEW c \in ConnIds, NEW results \in BatchResults, NEW stop \in BOOLEAN,
             NEW in_transaction \in BOOLEAN, handleExecBatch(c, results, stop, in_transaction)
      PROVE  PiecesInv'
  BY <1>2, ExecBatchKeepsPieces
<1>3. ASSUME NEW c \in ConnIds, handleTxBegin(c) PROVE PiecesInv'
  BY <1>3, HandleTxBeginKeepsPieces
<1>4. ASSUME NEW t \in TxIds, handleTxCommit(t) \/ handleTxRollback(t) PROVE PiecesInv'
  BY <1>4, HandleTxCommitKeepsPieces, HandleTxRollbackKeepsPieces
<1>5. ASSUME NEW t \in TxIds, NEW sp \in SavepointNames,
             handleTxSavepoint(t, sp) \/ handleTxRelease(t, sp) \/ handleTxRollbackTo(t, sp)
      PROVE  PiecesInv'
  BY <1>5, SavepointsKeepPieces
<1>6. QED
  BY <1>1, <1>2, <1>3, <1>4, <1>5 DEF ExecRequest, TxRequest

\* data/* and stream/*.
LEMMA DataRequestKeepsPieces ==
  ASSUME IInv, PiecesInv, DataRequest
  PROVE  PiecesInv'
<1>1. ASSUME NEW c \in ConnIds, handleDataImportBegin(c) PROVE PiecesInv'
  BY <1>1, HandleDataImportBeginKeepsPieces
<1>2. ASSUME NEW c \in ConnIds, NEW s \in StreamIds, NEW len \in 0 .. MaxResult,
             handleDataExport(c, s, len)
      PROVE  PiecesInv'
  BY <1>2, StreamRequestsKeepPieces
<1>3. ASSUME NEW s \in StreamIds, NEW maxBytes \in 1 .. MaxResult + 1, handleStreamRead(s, maxBytes)
      PROVE  PiecesInv'
  BY <1>3, StreamRequestsKeepPieces
<1>4. ASSUME NEW s \in StreamIds, handleStreamClose(s) PROVE PiecesInv'
  BY <1>4, StreamRequestsKeepPieces
<1>5. ASSUME NEW i \in ImportIds, NEW n \in 0 .. MaxBatch, NEW bad \in SUBSET (1 .. n),
             handleDataImportChunk(i, n, bad)
      PROVE  PiecesInv'
  BY <1>5, HandleDataImportChunkKeepsPieces
<1>6. ASSUME NEW i \in ImportIds, handleDataImportCommit(i) \/ handleDataImportAbort(i) PROVE PiecesInv'
  BY <1>6, AnswerKeepsPieces, ForgetImportKeepsPieces DEF handleDataImportCommit, handleDataImportAbort
<1>7. QED
  BY <1>1, <1>2, <1>3, <1>4, <1>5, <1>6 DEF DataRequest

\* The server starts with nothing delivered and nothing durable.
LEMMA InitEstablishesPieces == Init => PiecesInv
<1> SUFFICES ASSUME Init PROVE PiecesInv
  OBVIOUS
<1>0. /\ delivered = << >> /\ received = << >> /\ asked = << >> /\ batches = {}
      /\ cursors = << >> /\ streams = << >> /\ imports = << >> /\ sqltx = << >> /\ rows = << >>
      /\ durable = {} /\ nextStmt = 1 /\ nextImport = 1
  BY DEF Init, NewServer, SqlInit
<1>1. /\ DOMAIN cursors = {} /\ DOMAIN streams = {} /\ DOMAIN imports = {} /\ DOMAIN sqltx = {}
      /\ DOMAIN asked = {} /\ DOMAIN rows = {}
  BY <1>0
<1>2. RowsInv
  <2>1. DOMAIN delivered = {} /\ delivered \in [DOMAIN delivered -> Delivered]
    BY <1>0, EmptyTable
  <2>2. QED
    BY <1>1, <2>1 DEF RowsInv
<1>3. StreamInv
  <2>1. DOMAIN received = {} /\ received \in [DOMAIN received -> Received]
    BY <1>0, EmptyTable
  <2>2. QED
    BY <1>1, <2>1 DEF StreamInv, StreamArrivesWhole
<1>4. WorkInv
  BY <1>0, <1>1 DEF WorkInv, NumbersInOrder, CommitsInOrder, TransactionsAreAtomic, BatchesAreAtomic
<1>5. ImportInv
  <2>1. \A i : ImportedRows(durable, i) = {}
    BY <1>0 DEF ImportedRows
  <2>2. QED
    BY <1>1, <2>1, FS_EmptySet DEF ImportInv, ImportCountsAreTrue
<1>6. QED
  BY <1>2, <1>3, <1>4, <1>5 DEF PiecesInv

\* Every step of the server keeps it.
LEMMA NextKeepsPieces == IInv /\ PiecesInv /\ [Next]_vars => PiecesInv'
<1> SUFFICES ASSUME IInv, PiecesInv, [Next]_vars PROVE PiecesInv'
  OBVIOUS
<1>1. CASE Rejected \/ HandlePing \/ Notification
  BY <1>1, AnswerKeepsPieces DEF Rejected, HandlePing, Notification
<1>2. CASE HandleInit \/ HostGone \/ UNCHANGED vars
  <2>1. CASE Answer("ServerIncompatible")
    BY <2>1, AnswerKeepsPieces
  <2>2. CASE ~Answer("ServerIncompatible")
    <3>1. UNCHANGED <<rows, cursors, delivered, streams, received, durable, nextStmt, batches, asked,
                      sqltx, imports, nextImport>>
      BY <1>2, <2>2 DEF HandleInit, HostGone, vars, tables, counters, hostVars, sqlVars
    <3>2. QED
      BY <3>1, QuietKeepsPieces
  <2>3. QED
    BY <2>1, <2>2
<1>3. CASE HandleShutdown \/ ConnRequest \/ CursorRequest
  BY <1>3, HandleShutdownKeepsPieces, ConnRequestKeepsPieces, CursorRequestKeepsPieces
<1>4. CASE ExecRequest \/ TxRequest \/ DataRequest
  BY <1>4, TxRequestKeepsPieces, DataRequestKeepsPieces
<1>5. QED
  BY <1>1, <1>2, <1>3, <1>4 DEF Next

\* Rows, streams, transactions, batches and imports stay in step with what the host was
\* told, in every reachable state.
THEOREM PiecesInvHolds == Spec => []PiecesInv
<1>1. Init => IInv /\ PiecesInv
  BY InitEstablishesIInv, InitEstablishesPieces
<1>2. IInv /\ PiecesInv /\ [Next]_vars => (IInv /\ PiecesInv)'
  BY NextKeepsIInv, NextKeepsPieces
<1>3. QED
  BY <1>1, <1>2, PTL DEF Spec

\* Whatever fails and whoever closes the connection, a transaction or a batch with
\* in_transaction takes effect as a whole or not at all, and a commit that was answered
\* without an error took effect (handleTxCommit, handleExecBatch, rollbackTxsForConn, closeAll).
THEOREM WorkStaysAtomic == Spec => []WorkIsAtomic
<1>1. PiecesInv => WorkIsAtomic
  BY DEF PiecesInv, WorkInv, WorkIsAtomic
<1>2. QED
  BY <1>1, PiecesInvHolds, PTL

\* The host reads the rows of a result in order, without a gap and up to its limit, the
\* bytes of an export from the first to the last, and the true number of imported rows,
\* for any interleaving of requests and any failures (handleCursorFetch, fetchRows,
\* streamReadChunk, handleDataImportChunk).
THEOREM PiecesArriveWhole == Spec => []PiecesAddUp
<1>1. RowsInv => RowsArriveInOrder
  BY DEF RowsInv, InOrder, RowsArriveInOrder
<1>2. PiecesInv => PiecesAddUp
  BY <1>1 DEF PiecesInv, StreamInv, ImportInv, PiecesAddUp
<1>3. QED
  BY <1>2, PiecesInvHolds, PTL
=============================================================================
