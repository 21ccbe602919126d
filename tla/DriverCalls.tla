----------------------------- MODULE DriverCalls -----------------------------
(***************************************************************************)
(* How the host gets from a started SQL driver process to an open          *)
(* connection: the init handshake, the routes a request can take, the      *)
(* connection settings each driver extracts from the host's form, and      *)
(* conn/test, conn/open, conn/ping, conn/use and conn/close, for the       *)
(* DuckDB, openGauss, ClickHouse and TDengine drivers                      *)
(* (extensions/ipc/<driver>/src/driver.rs, handlers.rs, config.rs or       *)
(* protocol.rs, and the session modules).                                  *)
(*                                                                         *)
(* Connecting takes several round trips to the server, and the server may  *)
(* stop, restart, lose a database or change its encryption between any     *)
(* two of them. The request loop around the drivers (extension_driver) is  *)
(* external: it answers `RuntimeMethods' and hands a request to            *)
(* call_connless or to the connection the request names.                   *)
(***************************************************************************)
EXTENDS Naturals, FiniteSets

CONSTANTS DvDrivers,    \* the drivers under study, a subset of AllDrivers
          DvConfigs,    \* the connection settings the host may send
          DvDatabases,  \* database names of the server
          DvMethods,    \* methods the host requests besides the connection calls
          DvMaxConns    \* bound: connections opened in one behaviour

AllDrivers == {"duckdb", "opengauss", "clickhouse", "tdengine"}

(***************************************************************************)
(* A form field is missing, null, blank, or one of the known words; a      *)
(* DuckDB form names a file in one of three fields.                        *)
(***************************************************************************)
Missing == "missing"
Null    == "null"
Blank   == ""
Words   == {Missing, Null, Blank, "secure", "plain", "prefer", "other"}
Flags   == {Missing, "yes", "no", "maybe"}

ConfigType ==
    [scheme : Words,                    \* schema (ClickHouse, TDengine) or ssl_mode
     extra  : Words \ {Null},           \* the same key inside extra_params
     trust  : Flags,                    \* ssl_accept_invalid_certs
     cert   : {Missing, "good", "lost"},\* ssl_root_cert_path
     database : DvDatabases \cup {Missing, Blank}]

VARIABLES dvDriver,   \* the driver of this process
          dvInit,     \* its once-flag `initialized'
          dvServer,   \* the database server
          dvStep,     \* the conn/test or conn/open being served
          dvConns,    \* id |-> connection, for the open ones
          dvNext,     \* next_conn_id
          dvHeld,     \* sessions the server holds for this process
          dvTested,   \* the last configuration whose test passed, until the server changes
          dvAnswer    \* the last answer: to which request, of what configuration

dvVars == <<dvDriver, dvInit, dvServer, dvStep, dvConns, dvNext, dvHeld, dvTested, dvAnswer>>

NoStep  == [kind |-> "none"]
Ok      == "ok"

(***************************************************************************)
(* Routes. declared_methods is what init announces; call_connless and      *)
(* call are the two match statements.                                      *)
(***************************************************************************)
RuntimeMethods == {"$/ping", "shutdown", "conn/open", "conn/close"}
DdlMethods     == {"ddl/build", "ddl/build-create-table", "ddl/build-alter-table", "ddl/build-drop"}
QueryMethods   == {"conn/ping", "conn/use", "query/start", "cursor/fetch", "cursor/close",
                   "cursor/cancel", "exec/run", "exec/batch"}
DataMethods    == {"data/export", "data/import-begin", "data/import-chunk", "data/import-commit",
                   "data/import-abort", "stream/read", "stream/close"}
TxMethods      == {"tx/begin", "tx/commit", "tx/rollback"}
SaveMethods    == {"tx/savepoint", "tx/release"}
TreeMethods    == {"schema/object-view", "schema/databases", "schema/objects", "schema/columns",
                   "schema/views", "schema/dump-ddl"}
GaussMethods   == {"schema/foreign-keys", "schema/procedures", "schema/triggers",
                   "schema/sequences", "schema/types", "schema/view-definition"}
AllMethods == RuntimeMethods \cup {"conn/test"} \cup DdlMethods \cup QueryMethods \cup DataMethods
              \cup TxMethods \cup SaveMethods \cup TreeMethods \cup GaussMethods
              \cup {"schema/schemas", "schema/indexes", "schema/checks", "schema/functions"}

ASSUME DvAssumption ==
    /\ DvDrivers \subseteq AllDrivers
    /\ DvConfigs \subseteq ConfigType
    /\ DvMethods \subseteq AllMethods
    /\ DvMaxConns \in Nat

DuckdbDeclared == AllMethods \ (SaveMethods \cup GaussMethods)
GaussDeclared  == AllMethods
ClickhouseDeclared ==
    RuntimeMethods \cup {"conn/test"} \cup DdlMethods \cup QueryMethods \cup TreeMethods
        \cup {"schema/indexes", "schema/functions"}
TdengineDeclared ==
    RuntimeMethods \cup {"conn/test"} \cup DdlMethods \cup QueryMethods \cup TreeMethods

declared_methods(d) ==
    CASE d = "duckdb" -> DuckdbDeclared [] d = "opengauss" -> GaussDeclared
      [] d = "clickhouse" -> ClickhouseDeclared [] d = "tdengine" -> TdengineDeclared

call_connless == {"conn/test"} \cup DdlMethods

DuckdbCall == QueryMethods \cup TxMethods \cup DataMethods \cup TreeMethods \cup DdlMethods
              \cup {"schema/schemas", "schema/indexes", "schema/checks", "schema/functions"}
GaussCall  == DuckdbCall \cup SaveMethods \cup GaussMethods
ClickhouseCall == QueryMethods \cup TreeMethods \cup DdlMethods \cup {"schema/indexes", "schema/functions"}
TdengineCall == QueryMethods \cup TreeMethods \cup DdlMethods

call(d) ==
    CASE d = "duckdb" -> DuckdbCall [] d = "opengauss" -> GaussCall
      [] d = "clickhouse" -> ClickhouseCall [] d = "tdengine" -> TdengineCall

\* The lists agree: each driver announces what its two match statements and the runtime serve.
ASSUME RoutesMatchAnnouncement ==
    \A d \in AllDrivers : declared_methods(d) = RuntimeMethods \cup call_connless \cup call(d)

(***************************************************************************)
(* What a driver makes of the form. The result says how the server is      *)
(* asked for: encryption "off", "on" or "prefer", whether certificates     *)
(* are checked, the database, or that the form is refused.                 *)
(***************************************************************************)
Given(w) == w \notin {Missing, Null, Blank}

\* ClickHouseConfig::param and scheme: a blank field counts as missing, and
\* anything that is not https means http.
clickhouse_scheme(c) ==
    LET word == IF Given(c.scheme) THEN c.scheme ELSE c.extra
    IN  IF word = "secure" THEN "on" ELSE "off"

\* build_dsn: only the top-level field counts, an unknown word means ws. (The
\* spelling of the address, user and password in the DSN is left out.)
tdengine_scheme(c) == IF c.scheme = "secure" THEN "on" ELSE "off"

\* Fault: a value of extra_params replaces the top-level one.
from_wire_config_extraWins(c) == IF c.extra # Missing THEN c.extra ELSE c.scheme
\* from_wire_config: extra_params only fill keys that are absent; a null key
\* is present. parse_ssl_mode: no value means disable, an unknown one fails.
from_wire_config(c) == IF c.scheme = Missing THEN c.extra ELSE c.scheme
parse_ssl_mode(w) ==
    CASE w \in {Missing, Null, "plain"} -> "off"
      [] w = "prefer" -> "prefer"
      [] w = "secure" -> "on"
      [] OTHER -> "refused"

\* to_native_tls_connector runs only when TLS may be used: it reads the root
\* certificate and passes the two danger flags on.
tls_connector_fails(mode, c) == mode # "off" /\ c.cert = "lost"

encryption(d, c) ==
    CASE d = "clickhouse" -> clickhouse_scheme(c)
      [] d = "tdengine" -> tdengine_scheme(c)
      [] d = "opengauss" -> parse_ssl_mode(from_wire_config(c))
      [] d = "duckdb" -> "off"

\* configured_database and database_name: blank means the server's default;
\* for DuckDB the database is the file, which must be given.
DefaultDatabase == "default"
configured_database(d, c) ==
    IF c.database \notin {Missing, Blank} THEN c.database ELSE DefaultDatabase
database_path(c) ==
    IF c.database \notin {Missing, Blank} THEN c.database
    ELSE IF Given(c.extra) THEN c.extra ELSE Missing

\* A boolean that is no boolean fails the whole parameter object.
deserialize_optional_bool(d, c) == d = "opengauss" /\ c.trust = "maybe"

Refuses(d, c) ==
    \/ deserialize_optional_bool(d, c)
    \/ encryption(d, c) = "refused"
    \/ d = "opengauss" /\ tls_connector_fails(encryption(d, c), c)
    \/ d = "duckdb" /\ database_path(c) = Missing

(***************************************************************************)
(* The server: up or down, encrypted or not, and its databases. DuckDB has *)
(* no server: opening a file creates it.                                   *)
(***************************************************************************)
Accepts(d, c) ==
    LET mode == encryption(d, c)
    IN  \/ d = "duckdb"
        \/ /\ dvServer.up
           /\ mode = "prefer" \/ (mode = "on") = dvServer.secure
           /\ configured_database(d, c) \in dvServer.databases \cup {DefaultDatabase}

Connection(d, c) ==
    [secure   |-> encryption(d, c) = "on" \/ (encryption(d, c) = "prefer" /\ dvServer.secure),
     database |-> IF d = "duckdb" THEN database_path(c) ELSE configured_database(d, c),
     config   |-> c,
     offered  |-> dvServer.secure,      \* what the server could do then
     alive    |-> TRUE]

DvInitState ==
    /\ dvDriver \in DvDrivers
    /\ dvInit = FALSE
    /\ dvServer \in [up : {TRUE}, secure : BOOLEAN, databases : {DvDatabases}]
    /\ dvStep = NoStep
    /\ dvConns = <<>>
    /\ dvNext = 1
    /\ dvHeld = {}
    /\ dvTested = {}
    /\ dvAnswer = [to |-> "none", is |-> Ok, of |-> {}]

AnswerOf(to, is, of) == dvAnswer' = [to |-> to, is |-> is, of |-> of]
Answer(to, is) == AnswerOf(to, is, {})

(***************************************************************************)
(* init: the version check comes before the once-flag, so a refused        *)
(* handshake may be repeated. A pre-release of any version is refused.     *)
(***************************************************************************)
Versions == {"0.9.9", "0.10.0-alpha", "0.10.1", "invalid"}
ensure_compatible_host(v) == v = "0.10.1"

handle_init(v) ==
    /\ dvStep = NoStep
    /\ dvInit' = (dvInit \/ ensure_compatible_host(v))
    /\ Answer("init", IF ~ensure_compatible_host(v) THEN "SERVER_INCOMPATIBLE"
                      ELSE IF dvInit THEN "ALREADY_INITIALIZED" ELSE Ok)
    /\ UNCHANGED <<dvDriver, dvServer, dvStep, dvConns, dvNext, dvHeld, dvTested>>

(***************************************************************************)
(* conn/test and conn/open start alike: driver_id, configuration, connect. *)
(* An HTTP client holds no session on the server.                          *)
(***************************************************************************)
Sessions(d) == d \in {"opengauss", "tdengine"}

connect(kind, id, c) ==
    /\ dvStep = NoStep
    /\ kind = "open" => dvNext <= DvMaxConns    \* bound
    /\ IF id # dvDriver
       THEN Answer(kind, "INVALID_PARAMS") /\ UNCHANGED <<dvStep, dvHeld>>
       ELSE IF Refuses(dvDriver, c) \/ ~Accepts(dvDriver, c)
       THEN AnswerOf(kind, "FAILED", {c}) /\ UNCHANGED <<dvStep, dvHeld>>
       ELSE /\ dvStep' = [kind |-> kind, at |-> "version", made |-> Connection(dvDriver, c)]
            /\ dvHeld' = IF Sessions(dvDriver) THEN dvHeld \cup {0} ELSE dvHeld
            /\ UNCHANGED dvAnswer
    /\ UNCHANGED <<dvDriver, dvInit, dvServer, dvConns, dvNext, dvTested>>

\* The session answers a query while the server has it; HTTP asks anew.
Alive(s) ==
    CASE Sessions(dvDriver) -> s.alive /\ dvServer.up
      [] dvDriver = "clickhouse" -> /\ dvServer.up /\ s.secure = dvServer.secure
                                    /\ s.database \in dvServer.databases \cup {DefaultDatabase}
      [] OTHER -> s.alive

\* server_version: SELECT version(). openGauss shows "unknown" when it fails
\* while opening; the other drivers and every conn/test fail. DuckDB reports
\* a fixed text.
Tolerates(kind) == dvDriver = "duckdb" \/ (dvDriver = "opengauss" /\ kind = "open")

Fails(kind) ==
    /\ dvStep' = NoStep
    /\ dvHeld' = dvHeld \ {0}
    /\ AnswerOf(kind, "FAILED", {dvStep.made.config})
    /\ UNCHANGED <<dvConns, dvNext, dvTested>>

\* Fault: a test that connects is a success, nothing is asked of the server.
handle_conn_test_onlyConnects ==
    /\ dvStep.kind = "test"
    /\ dvStep' = NoStep
    /\ dvHeld' = dvHeld \ {0}
    /\ dvTested' = {dvStep.made.config}
    /\ Answer("test", Ok)
    /\ UNCHANGED <<dvDriver, dvInit, dvServer, dvConns, dvNext>>

handle_conn_test ==
    /\ dvStep.kind = "test"
    /\ IF ~Alive(dvStep.made) THEN Fails("test")
       ELSE IF dvStep.at = "version" /\ dvDriver \in {"opengauss", "tdengine"}
       THEN dvStep' = [dvStep EXCEPT !.at = "ping"] /\ UNCHANGED <<dvHeld, dvConns, dvNext, dvTested, dvAnswer>>
       ELSE /\ dvStep' = NoStep
            /\ dvHeld' = dvHeld \ {0}
            /\ dvTested' = {dvStep.made.config}
            /\ Answer("test", Ok)
            /\ UNCHANGED <<dvConns, dvNext>>
    /\ UNCHANGED <<dvDriver, dvInit, dvServer>>

open_connection ==
    /\ dvStep.kind = "open"
    /\ IF ~Alive(dvStep.made) /\ ~Tolerates("open") THEN Fails("open")
       ELSE /\ dvStep' = NoStep
            /\ dvConns' = [i \in DOMAIN dvConns \cup {dvNext} |->
                              IF i = dvNext THEN dvStep.made ELSE dvConns[i]]
            /\ dvHeld' = IF 0 \in dvHeld THEN (dvHeld \ {0}) \cup {dvNext} ELSE dvHeld
            /\ dvNext' = dvNext + 1
            /\ Answer("open", Ok)
            /\ UNCHANGED dvTested
    /\ UNCHANGED <<dvDriver, dvInit, dvServer>>

handle_conn_ping(i) ==
    /\ dvStep = NoStep
    /\ Answer("ping", IF Alive(dvConns[i]) THEN Ok ELSE "FAILED")
    /\ UNCHANGED <<dvDriver, dvInit, dvServer, dvStep, dvConns, dvNext, dvHeld, dvTested>>

(***************************************************************************)
(* conn/use. ClickHouse and TDengine check the database with the server;   *)
(* openGauss and DuckDB only confirm the one they are on. DuckDB accepts   *)
(* "main" as another name of its file.                                     *)
(***************************************************************************)
Confirms(s, db) ==
    \/ db = Blank
    \/ dvDriver = "opengauss" /\ Alive(s) /\ db = s.database
    \/ dvDriver = "duckdb" /\ db \in {s.database, "main"}
    \/ dvDriver \in {"clickhouse", "tdengine"} /\ Alive(s) /\ db \in dvServer.databases

handle_conn_use(i, db) ==
    /\ dvStep = NoStep
    /\ Answer("use", IF Confirms(dvConns[i], db) THEN Ok ELSE "FAILED")
    /\ dvConns' = IF Confirms(dvConns[i], db) /\ db # Blank /\ dvDriver \in {"clickhouse", "tdengine"}
                  THEN [dvConns EXCEPT ![i].database = db] ELSE dvConns
    /\ UNCHANGED <<dvDriver, dvInit, dvServer, dvStep, dvNext, dvHeld, dvTested>>

close(i) ==
    /\ dvStep = NoStep
    /\ dvConns' = [j \in DOMAIN dvConns \ {i} |-> dvConns[j]]
    /\ dvHeld' = dvHeld \ {i}
    /\ Answer("close", Ok)
    /\ UNCHANGED <<dvDriver, dvInit, dvServer, dvStep, dvNext, dvTested>>

\* A request reaches call_connless when it names no connection, and the
\* connection's call when it names one.
DvRoute(m, i) ==
    /\ dvStep = NoStep
    /\ m \notin RuntimeMethods
    /\ Answer(m, IF m \in (IF i = 0 THEN call_connless ELSE call(dvDriver))
                 THEN "served" ELSE "METHOD_NOT_FOUND")
    /\ UNCHANGED <<dvDriver, dvInit, dvServer, dvStep, dvConns, dvNext, dvHeld, dvTested>>

(***************************************************************************)
(* The server stops, comes back with or without encryption, or loses a     *)
(* database that no session is on.                                         *)
(***************************************************************************)
Dead(s) == [s EXCEPT !.alive = FALSE]
DvServerStops ==
    /\ dvDriver # "duckdb" /\ dvServer.up
    /\ dvServer' = [dvServer EXCEPT !.up = FALSE]
    /\ dvHeld' = {}
    /\ dvConns' = [i \in DOMAIN dvConns |-> Dead(dvConns[i])]
    /\ dvStep' = IF dvStep = NoStep THEN dvStep ELSE [dvStep EXCEPT !.made = Dead(@)]
    /\ dvTested' = {}
    /\ UNCHANGED <<dvDriver, dvInit, dvNext, dvAnswer>>
DvServerStarts ==
    /\ ~dvServer.up
    /\ \E secure \in BOOLEAN : dvServer' = [dvServer EXCEPT !.up = TRUE, !.secure = secure]
    /\ dvTested' = {}
    /\ UNCHANGED <<dvDriver, dvInit, dvStep, dvConns, dvNext, dvHeld, dvAnswer>>
DvServerDrops(db) ==
    /\ dvDriver # "duckdb" /\ dvServer.up /\ db \in dvServer.databases
    /\ Sessions(dvDriver) => /\ \A i \in DOMAIN dvConns : dvConns[i].alive => dvConns[i].database # db
                             /\ dvStep # NoStep => dvStep.made.database # db
    /\ dvServer' = [dvServer EXCEPT !.databases = @ \ {db}]
    /\ dvTested' = {}
    /\ UNCHANGED <<dvDriver, dvInit, dvStep, dvConns, dvNext, dvHeld, dvAnswer>>

DvNext ==
    \/ \E v \in Versions : handle_init(v)
    \/ \E kind \in {"test", "open"}, id \in DvDrivers, c \in DvConfigs : connect(kind, id, c)
    \/ handle_conn_test
    \/ open_connection
    \/ \E i \in DOMAIN dvConns : handle_conn_ping(i) \/ close(i)
    \/ \E i \in DOMAIN dvConns, db \in DvDatabases \cup {Blank, "main"} : handle_conn_use(i, db)
    \/ \E m \in DvMethods, i \in DOMAIN dvConns \cup {0} : DvRoute(m, i)
    \/ DvServerStops \/ DvServerStarts
    \/ \E db \in DvDatabases : DvServerDrops(db)

DvSpec == DvInitState /\ [][DvNext]_dvVars

-----------------------------------------------------------------------------
DvTypeOK ==
    /\ dvDriver \in DvDrivers
    /\ dvInit \in BOOLEAN
    /\ DOMAIN dvConns \subseteq 1..DvMaxConns
    /\ dvNext \in 1..(DvMaxConns + 1)
    /\ dvHeld \subseteq 0..DvMaxConns
    /\ dvTested \subseteq DvConfigs

(***************************************************************************)
(* Encryption that the form asks for is used: a connection whose top-level *)
(* field, or in its absence whose extra parameter, says secure is never    *)
(* an unencrypted one, and one that says prefer is encrypted when the      *)
(* server could do it. (The TDengine driver documents that it reads the    *)
(* top-level field only; a null field counts as present for openGauss;     *)
(* only openGauss knows the word prefer.)                                  *)
(***************************************************************************)
Asked(d, c, word) ==
    \/ c.scheme = word
    \/ c.extra = word /\ d = "clickhouse" /\ ~Given(c.scheme)
    \/ c.extra = word /\ d = "opengauss" /\ c.scheme = Missing
EncryptionIsKept ==
    \A i \in DOMAIN dvConns :
        LET made == dvConns[i]
        IN  /\ dvDriver # "duckdb" /\ Asked(dvDriver, made.config, "secure") => made.secure
            /\ dvDriver = "opengauss" /\ Asked(dvDriver, made.config, "prefer") => made.secure = made.offered

(***************************************************************************)
(* A test leaves nothing behind and a close gives its session back: while  *)
(* no request is being served, the server's sessions are those of open     *)
(* connections. Identifiers are not reused (dvHeld is numbered by the      *)
(* order of opening).                                                      *)
(***************************************************************************)
SessionsAreConnections ==
    /\ dvStep = NoStep => dvHeld \subseteq DOMAIN dvConns
    /\ Sessions(dvDriver) => \A i \in DOMAIN dvConns : dvConns[i].alive => i \in dvHeld

(***************************************************************************)
(* What conn/test accepted, conn/open accepts as long as the server stays  *)
(* as it was: whatever the server did while the test was running, no open  *)
(* of the tested form is refused or fails before the server changes again  *)
(* (dvTested is emptied then).                                             *)
(***************************************************************************)
TestPredictsOpen ==
    dvAnswer.to = "open" /\ dvAnswer.is = "FAILED" => dvAnswer.of \cap dvTested = {}
=============================================================================
