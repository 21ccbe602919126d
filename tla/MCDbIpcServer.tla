---------------------------- MODULE MCDbIpcServer ----------------------------
(***************************************************************************)
(* DbIpcServer on a small instance that is deep in two directions: who     *)
(* owns what, with two connections and a cursor but no statements, and     *)
(* the work that is done, on one connection and without a cursor, either   *)
(* statements and imports or exports.                                      *)
(***************************************************************************)
EXTENDS DbIpcServer

\* Nothing has been executed or exported.
NoWork ==
  /\ nextStmt = 1 /\ received = << >>
  /\ \A t \in DOMAIN sqltx : sqltx[t].work = << >>
\* There is one connection at most and no cursor.
OneConn == nextConnID <= 2 /\ nextCursor = 1
\* Statements and exports, which share no state, are not both there.
OneKind == nextStmt = 1 \/ received = << >>

MCNext ==
  \/ OneConn /\ (ExecRequest \/ TxRequest \/ DataRequest) /\ OneKind'
  \/ ~OneConn /\ \E c \in ConnIds, t \in TxIds, i \in ImportIds :
        \/ handleTxBegin(c) \/ handleTxCommit(t) \/ handleTxRollback(t)
        \/ handleDataImportBegin(c) \/ handleDataImportCommit(i) \/ handleDataImportAbort(i)
  \/ NoWork /\ (ConnRequest \/ CursorRequest)
  \/ ~NoWork /\ ConnRequest /\ OneConn'
  \/ Rejected \/ HandleInit \/ HandlePing \/ HandleShutdown \/ Notification \/ HostGone

MCSpec == Init /\ [][MCNext]_vars
=============================================================================
