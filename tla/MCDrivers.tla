------------------------------ MODULE MCDrivers -------------------------------
(***************************************************************************)
(* The Rust SQL drivers: what they do with rows, transactions, cursors and *)
(* connections, each on a small instance.  A driver is a process of its    *)
(* own, so the run explores one part at a time: `part' says which, and the *)
(* variables of the others are off.                                        *)
(***************************************************************************)
EXTENDS SqlDdl, DuckDb, OpenGauss, BufferedDrivers, DriverCalls, CsvExport, TLC

CONSTANT Parts

VARIABLE part

Off == "off"

DdlOff ==
    ddl = Off /\ ddlTable = Off /\ ddlPlan = Off /\ ddlUndo = Off /\ ddlStage = Off
DuckdbOff ==
    duDb = Off /\ duNext = Off /\ duTx = Off /\ duImport = Off /\ duReader = Off /\
    duUsed = Off /\ duKept = Off /\ duDropped = Off
OpengaussOff ==
    ogDb = Off /\ ogNext = Off /\ ogTx = Off /\ ogImport = Off /\ ogReader = Off /\
    ogUsed = Off /\ ogKept = Off /\ ogDropped = Off /\ ogLeft = Off
BufferedOff ==
    bdKind = Off /\ bdReady = Off /\ bdConn = Off /\ bdTables = Off /\ bdLate = Off /\
    bdNext = Off /\ bdKept = Off
CallsOff ==
    dvDriver = Off /\ dvInit = Off /\ dvServer = Off /\ dvStep = Off /\ dvConns = Off /\
    dvNext = Off /\ dvHeld = Off /\ dvTested = Off /\ dvAnswer = Off
CsvOff ==
    cvRequest = Off /\ cvColumns = Off /\ cvRows = Off /\ cvText = Off /\ cvHeader = Off

Init ==
    /\ part \in Parts
    /\ IF part = "ddl" THEN DdlInit ELSE DdlOff
    /\ IF part = "duckdb" THEN DuInit ELSE DuckdbOff
    /\ IF part = "opengauss" THEN OgInit ELSE OpengaussOff
    /\ IF part = "buffered" THEN BdInit ELSE BufferedOff
    /\ IF part = "calls" THEN DvInitState ELSE CallsOff
    /\ IF part = "csv" THEN CvInit ELSE CsvOff

\* The other parts rest.
Resting ==
    /\ IF part = "ddl" THEN TRUE ELSE UNCHANGED ddlVars
    /\ IF part = "duckdb" THEN TRUE ELSE UNCHANGED duVars
    /\ IF part = "opengauss" THEN TRUE ELSE UNCHANGED ogVars
    /\ IF part = "buffered" THEN TRUE ELSE UNCHANGED bdVars
    /\ IF part = "calls" THEN TRUE ELSE UNCHANGED dvVars
    /\ IF part = "csv" THEN TRUE ELSE UNCHANGED cvVars

Next ==
    /\ UNCHANGED part /\ Resting
    /\ \/ part = "ddl" /\ DdlNext
       \/ part = "duckdb" /\ DuNext
       \/ part = "opengauss" /\ OgNext
       \/ part = "buffered" /\ BdNext
       \/ part = "calls" /\ DvNext
       \/ part = "csv" /\ CvNext

vars == <<part, ddlVars, duVars, ogVars, bdVars, dvVars, cvVars>>

Spec == Init /\ [][Next]_vars
-------------------------------------------------------------------------------
(* Properties *)

(* Rows: what DuckDB, openGauss, ClickHouse and TDengine told the host is  *)
(* stored is stored, once (a write sent to ClickHouse as a query once or   *)
(* twice); what DuckDB told it is undone and what openGauss rolled back is *)
(* not, though openGauss keeps what a failed batch or chunk or an aborted  *)
(* import wrote.  A cursor or stream returns its result whole (DuckDB only *)
(* that of a query with an order), an import counts what it stored, and    *)
(* conn/use takes only a database that exists.                             *)
RowsSafe ==
    /\ [](/\ part = "duckdb" => DuTypeOK /\ DuPromisesKept /\ DuPagesAreWhole /\ DuExportIsWhole
          /\ part = "opengauss" =>
                OgTypeOK /\ OgPromisesKept /\ OgResultsAreWhole /\ OgImportCountsAreTrue
          /\ part = "buffered" => BdTypeOK /\ BdAcknowledgedOnce /\ BdCursorsAreWhole)
    /\ [][part = "buffered" => BdUseIsChecked]_vars


(* Connections: encryption asked for is used, and a preference for it met  *)
(* when the server can; every session of the server belongs to a           *)
(* connection, and what conn/test accepted conn/open accepts.              *)
ConnectionsSafe ==
    part = "calls" => DvTypeOK /\ EncryptionIsKept /\ SessionsAreConnections /\ TestPredictsOpen

(* An exported file reads back as the rows it was made from, unless its    *)
(* null string needs quotes, and a column the host excluded is not in it,  *)
(* unless openGauss is left without a column to include: then it writes    *)
(* them all.                                                               *)
ExportsSafe == part = "csv" => CsvExportSafe
-------------------------------------------------------------------------------
(* The instance *)

MCDuRows == {DuNoMax, 0, 1}
MCOgRows == {OgNoMax, 0, 1}
MCBdRows == {BdNone, 0, 1}

\* The databases are two of the column names: exchanging them is sound in every part.
DriverSymmetry == Permutations(BdDatabases)

MCBase == [scheme |-> "missing", extra |-> "missing", trust |-> "missing", cert |-> "missing",
           database |-> "missing"]
MCConfigs ==
    {[MCBase EXCEPT !.scheme = "null", !.extra = "secure", !.trust = "maybe"],
     [MCBase EXCEPT !.scheme = "prefer", !.cert = "lost", !.database = "d"],
     [MCBase EXCEPT !.extra = "prefer"],
     [MCBase EXCEPT !.scheme = "secure", !.extra = "plain"]}

\* Texts are sequences of characters: "," the delimiter, "q" a quote, "n" a line end.
MCColumns == << <<"x">>, <<"y", ",">> >>
MCTexts == {<<>>, <<"a">>, <<",">>, <<"q", "a">>, <<"n">>}
MCNulls == {<<>>, <<"a">>, <<"N">>, <<",">>, <<"q", "a">>}
MCIncludes == {<<>>, << <<"x">> >>, << <<"y", ",">>, <<"x">> >>, << <<"z">> >>}
MCExcludes == {{}, {<<"x">>}}
===============================================================================
