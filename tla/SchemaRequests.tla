---------------------------- MODULE SchemaRequests ----------------------------
(***************************************************************************)
(* The schema requests of the Rust SQL drivers, in three parts that share  *)
(* nothing: lists and dumps of openGauss, ClickHouse and TDengine, the     *)
(* catalog of DuckDB, and the tables of a TDengine database.               *)
(***************************************************************************)
EXTENDS Naturals, Sequences, FiniteSets, SequencesExt

-------------------------------------------------------------------------------
(***************************************************************************)
(* schema/objects and schema/dump_ddl of the openGauss, ClickHouse and     *)
(* TDengine drivers (session.rs, metadata.rs and handlers.rs under         *)
(* src/extensions/ipc).  A list is put together from one query per kind of *)
(* object and a dump from one query per object, each a request of its own  *)
(* to the server, while other sessions create and drop objects.  The other *)
(* schema requests are one query each.  TDengine's list of tables is made  *)
(* differently and has a part of its own below.                            *)
(*                                                                         *)
(* An object stands for its columns, indexes and text.  A materialized     *)
(* view of ClickHouse keeps its rows in a table of its own, whose name     *)
(* begins with .inner_id. or, in a database without uuids, with .inner.:   *)
(* the kinds "inner_id" and "inner".                                       *)
(***************************************************************************)

CONSTANTS SrDrivers,   \* subset of {"opengauss", "clickhouse", "tdengine"}
          SrNames,     \* names of objects
          SrSchemas,   \* schemas of the openGauss database, "public" among them
          SrMax,       \* bound: objects at a time
          SrChanges,   \* bound: objects created or dropped during a request, in one another's place
          SrLength     \* bound: objects asked for in a dump

VARIABLES srDriver, srObjects,
          srCurrent,   \* the connection's database; "" for none
          srHand,      \* the request being handled
          srTouched,   \* objects created or dropped since it came
          srSeen       \* objects that existed at some time since it came

srVars == <<srDriver, srObjects, srCurrent, srHand, srTouched, srSeen>>

SrDatabases(driver) == IF driver = "opengauss" THEN {"d"} ELSE {"d", "e"}
SrHidden == {"", "system"}   \* no database, or one of the server's own
SrRelations(driver) ==
    CASE driver = "opengauss" -> {"table", "view", "matview", "sequence"}
      [] driver = "clickhouse" -> {"table", "view", "matview", "inner", "inner_id"}
      [] driver = "tdengine" -> {"table"}
SrKinds(driver) == SrRelations(driver) \cup IF driver = "opengauss" THEN {"function", "type"} ELSE {}
SrObject(driver) ==
    [db : SrDatabases(driver), schema : IF driver = "opengauss" THEN SrSchemas ELSE {""},
     name : SrNames, kind : SrKinds(driver)]
\* A relation's name is also the name of its row type; functions have names of their own.
SrClash(o, p) ==
    /\ o.db = p.db /\ o.schema = p.schema /\ o.name = p.name
    /\ o.kind = "function" <=> p.kind = "function"

SrIdle == [op |-> "idle", db |-> "", schema |-> "", kinds |-> {}, todo |-> <<>>, got |-> <<>>, asked |-> <<>>]
SrAsked(o, db, schema) == (db = "" \/ o.db = db) /\ (schema = "" \/ o.schema = schema)
SrOf(kinds) == {o \in srObjects : o.kind \in kinds}
SrRow(o, kind) == [of |-> o, kind |-> kind]
-----------------------------------------------------------------------------
(* openGauss: session.rs.  A request for another database than the         *)
(* connection's finds nothing, without an error.                           *)

database_matches(db) == db \in {"", srCurrent}
GaussSchema(schema) == IF schema = "" THEN "public" ELSE schema
GaussFind(db, schema, kinds) ==
    IF database_matches(db) THEN {o \in SrOf(kinds) : SrAsked(o, "", schema)} ELSE {}

list_schemas(db) == IF database_matches(db) THEN SrSchemas ELSE {}
GaussTables(db, schema) == {SrRow(o, "table") : o \in GaussFind(db, schema, {"table"})}
GaussViews(db, schema) == {SrRow(o, "view") : o \in GaussFind(db, schema, {"view"})}
list_sequences(db, schema) == {SrRow(o, "sequence") : o \in GaussFind(db, schema, {"sequence"})}
list_functions(db, schema) == {SrRow(o, "function") : o \in GaussFind(db, schema, {"function"})}
\* pg_type has the row types of relations too.
list_types(db, schema) ==
    {SrRow(o, "type") : o \in GaussFind(db, schema, {"type"} \cup SrRelations("opengauss"))}
list_views(db, schema) == GaussViews(db, schema)

\* The requests below a table or view; a schema that is not given is "public".
list_columns(db, schema, table) ==
    {o \in GaussFind(db, GaussSchema(schema), {"table", "view"}) : o.name = table}
list_checks(db, schema, table) == {o \in GaussFind(db, GaussSchema(schema), {"table"}) : o.name = table}
\* ... or, for indexes and triggers, any.
list_indexes(db, schema, table) ==
    {o \in GaussFind(db, schema, {"table", "matview"}) : table = "" \/ o.name = table}
list_triggers(db, schema, table) == {o \in GaussFind(db, schema, {"table", "view"}) : table = "" \/ o.name = table}
view_definition(db, schema, view) ==
    {o \in GaussFind(db, GaussSchema(schema), {"view", "matview"}) : o.name = view}
table_definition(db, schema, table) == {o \in GaussFind(db, GaussSchema(schema), {"table"}) : o.name = table}

\* The queries of list_objects.
GaussPlan(kinds) ==
    LET Wanted(k) == kinds = {} \/ k \in kinds
    IN  SelectSeq(<<"table", "view", "sequence", "function", "type">>, Wanted)
GaussQuery(k, db, schema) ==
    CASE k = "table" -> GaussTables(db, schema)
      [] k = "view" -> GaussViews(db, schema)
      [] k = "sequence" -> list_sequences(db, schema)
      [] k = "function" -> list_functions(db, schema)
      [] k = "type" -> list_types(db, schema)

\* The handlers of the requests of one query.
GaussHandle(request, db, schema, table) ==
    CASE request = "columns" -> IF table = "" THEN {} ELSE list_columns(db, schema, table)
      [] request = "views" -> {r.of : r \in list_views(db, schema)}
      [] request = "indexes" -> list_indexes(db, schema, table)
      [] request = "checks" -> list_checks(db, schema, table)
      [] request = "functions" -> {r.of : r \in list_functions(db, schema)}
      [] request = "triggers" -> list_triggers(db, schema, table)
      [] request = "sequences" -> {r.of : r \in list_sequences(db, schema)}
      [] request = "types" -> {r.of : r \in list_types(db, schema)}
      [] request = "view_definition" -> view_definition(db, schema, table)

GaussView(view, db, schema, table) ==
    IF view = "tables" THEN {r.of : r \in GaussTables(db, schema)} ELSE GaussHandle(view, db, schema, table)
-----------------------------------------------------------------------------
(* ClickHouse: metadata.rs.  The engine tells tables from views.           *)

\* A request without a database is refused when the connection has none of the user's.
resolve_database(db) == IF db # "" THEN {db} ELSE {srCurrent} \ SrHidden
\* Only the name .inner_id. is left out; a table named .inner. is listed as a table.
ClickhouseTables(db) == {SrRow(o, "table") : o \in {p \in SrOf({"table", "inner"}) : p.db = db}}
view_objects(db) == {SrRow(o, o.kind) : o \in {p \in SrOf({"view", "matview"}) : p.db = db}}
ClickhouseViews(db) == view_objects(db)
ClickhouseColumns(db, table) == {o \in srObjects : o.db = db /\ o.name = table}
ClickhouseIndexes(db, table) == {o \in SrOf({"table", "inner", "inner_id"}) : o.db = db /\ o.name = table}
\* SHOW CREATE TABLE, of whatever has the name.
table_ddl(db, table) == {o \in srObjects : o.db = db /\ o.name = table}

\* The queries of handle_schema_objects; none for other kinds, which is an error.
ClickhousePlan(kinds) ==
    (IF kinds = {} \/ "table" \in kinds THEN <<"tables">> ELSE <<>>)
        \o (IF kinds = {} \/ kinds \cap {"view", "matview"} # {} THEN <<"views">> ELSE <<>>)
ClickhouseQuery(q, db) == IF q = "tables" THEN ClickhouseTables(db) ELSE view_objects(db)

ClickhouseShows(view, db, table) ==
    CASE view = "tables" -> {r.of : r \in ClickhouseTables(db)}
      [] view = "views" -> {r.of : r \in ClickhouseViews(db)}
      [] view = "columns" -> ClickhouseColumns(db, table)
      [] view = "indexes" -> ClickhouseIndexes(db, table)
ClickhouseView(view, db, table) == UNION {ClickhouseShows(view, d, table) : d \in resolve_database(db)}

(* TDengine: handlers.rs *)

TdengineColumns(db, table) == {o \in srObjects : o.db \in resolve_database(db) /\ o.name = table}
TdengineView(view, db, table) == IF view = "columns" THEN TdengineColumns(db, table) ELSE {}
-----------------------------------------------------------------------------
(* schema/objects *)

SrAsks(hand) == srHand' = hand /\ srTouched' = {} /\ srSeen' = srObjects /\ UNCHANGED <<srDriver, srObjects, srCurrent>>
SrGoes(hand) == srHand' = hand /\ UNCHANGED <<srDriver, srObjects, srCurrent, srTouched, srSeen>>

GaussAskObjects(db, schema, kinds) ==
    /\ srDriver = "opengauss" /\ srHand.op = "idle"
    /\ SrAsks([SrIdle EXCEPT !.op = "list", !.db = db, !.schema = schema, !.kinds = kinds,
                             !.todo = IF database_matches(db) THEN GaussPlan(kinds) ELSE <<>>])

ClickhouseAskObjects(db, kinds) ==
    /\ srDriver = "clickhouse" /\ srHand.op = "idle"
    /\ ClickhousePlan(kinds) # <<>>
    /\ \E d \in resolve_database(db) :
          SrAsks([SrIdle EXCEPT !.op = "list", !.db = d, !.kinds = kinds, !.todo = ClickhousePlan(kinds)])

\* One query.  The rows are a bag in which each query's rows are kept apart.
SrQueries ==
    /\ srHand.op = "list" /\ srHand.todo # <<>>
    /\ LET q == Head(srHand.todo)
           rows == IF srDriver = "opengauss" THEN GaussQuery(q, srHand.db, srHand.schema)
                   ELSE ClickhouseQuery(q, srHand.db)
       IN  SrGoes([srHand EXCEPT !.todo = Tail(@), !.got = Append(@, rows)])
-----------------------------------------------------------------------------
(* schema/dump_ddl, object by object, in the connection's database.        *)

SrRefs ==
    [db : {""}, schema : {""}, name : SrNames, kind : {"table", "view", "sequence"}]

SrAskDump ==
    /\ srHand.op = "idle"
    /\ \E n \in 1..SrLength : \E refs \in [1..n -> SrRefs] :
          SrAsks([SrIdle EXCEPT !.op = "dump", !.todo = refs, !.asked = refs])

\* The statement of each object that is there, under the name it was asked for.
SrDumped(ref, found) ==
    \E o \in found : SrGoes([srHand EXCEPT !.todo = Tail(@), !.got = Append(@, [of |-> o, ref |-> ref])])
SrSkips == SrGoes([srHand EXCEPT !.todo = Tail(@)])
SrFails == /\ srHand' = SrIdle /\ srTouched' = {} /\ srSeen' = {}
           /\ UNCHANGED <<srDriver, srObjects, srCurrent>>


\* A view that is not there is left out; a table that is not there, or a server without
\* pg_get_tabledef, is an error.
GaussDump ==
    /\ srDriver = "opengauss" /\ srHand.op = "dump" /\ srHand.todo # <<>>
    /\ LET ref == Head(srHand.todo)
           table == table_definition(ref.db, ref.schema, ref.name)
           view == view_definition(ref.db, ref.schema, ref.name)
       IN  CASE ref.kind = "table" -> SrDumped(ref, table) \/ SrFails
             [] ref.kind = "view" -> IF view = {} THEN SrSkips ELSE SrDumped(ref, view)
             [] OTHER -> SrSkips

SrDumpsOne(kinds) ==
    /\ srHand.op = "dump" /\ srHand.todo # <<>>
    /\ LET ref == Head(srHand.todo)
           found == UNION {table_ddl(d, ref.name) : d \in resolve_database(ref.db)}
       IN  IF ref.kind \notin kinds THEN SrSkips
           ELSE IF found = {} THEN SrFails ELSE SrDumped(ref, found)

ClickhouseDump == srDriver = "clickhouse" /\ SrDumpsOne({"table", "view"})
TdengineDump == srDriver = "tdengine" /\ SrDumpsOne({"table"})

SrAnswers ==
    /\ srHand.op # "idle" /\ srHand.todo = <<>>
    /\ srHand' = SrIdle /\ srTouched' = {} /\ srSeen' = {}
    /\ UNCHANGED <<srDriver, srObjects, srCurrent>>
-----------------------------------------------------------------------------
(* Other sessions *)

SrMoves(o) ==
    /\ IF srHand.op = "idle" THEN UNCHANGED <<srTouched, srSeen>>
       ELSE /\ Cardinality(srTouched) < SrChanges /\ \A p \in srTouched : SrClash(o, p)   \* bound
            /\ srTouched' = srTouched \cup {o} /\ srSeen' = srSeen \cup srObjects'
    /\ UNCHANGED <<srDriver, srCurrent, srHand>>

SrCreates ==
    \E o \in SrObject(srDriver) :
        /\ Cardinality(srObjects) < SrMax /\ \A p \in srObjects : ~SrClash(o, p)
        /\ srObjects' = srObjects \cup {o} /\ SrMoves(o)

SrDrops == \E o \in srObjects : srObjects' = srObjects \ {o} /\ SrMoves(o)

SrInit ==
    /\ srDriver \in SrDrivers
    /\ srCurrent \in IF srDriver = "opengauss" THEN {"d"} ELSE {"d", "system"}
    /\ srObjects = {} /\ srHand = SrIdle /\ srTouched = {} /\ srSeen = {}

SrNext ==
    \/ \E db \in {"", "d", "e"}, kinds \in {{}, {"table"}, {"view"}, {"matview", "function"}} :
          \/ ClickhouseAskObjects(db, kinds)
          \/ \E schema \in SrSchemas \cup {""} : GaussAskObjects(db, schema, kinds)
    \/ SrQueries \/ SrAskDump \/ GaussDump \/ ClickhouseDump \/ TdengineDump \/ SrAnswers
    \/ SrCreates \/ SrDrops

SrSpec == SrInit /\ [][SrNext]_srVars
-----------------------------------------------------------------------------
(* list_foreign_keys joins the constraints of a table with the columns of  *)
(* every constraint of that name in the schema, on both sides.  A key is   *)
(* [name, table, cols]: cols pairs columns with the referenced ones.       *)

list_foreign_keys_own(keys, table) ==
    UNION {{[name |-> k.name, from |-> p[1], to |-> p[2]] : p \in k.cols} : k \in {j \in keys : j.table = table}}

list_foreign_keys(keys, table) ==
    UNION {{[name |-> k.name, from |-> p[1], to |-> q[2]] :
               p \in UNION {j.cols : j \in {i \in keys : i.name = k.name}},
               q \in UNION {j.cols : j \in {i \in keys : i.name = k.name}}} :
              k \in {j \in keys : j.table = table}}
-----------------------------------------------------------------------------
(* Properties *)

SrTypeOK ==
    /\ srDriver \in SrDrivers /\ srObjects \subseteq SrObject(srDriver) /\ Cardinality(srObjects) <= SrMax
    /\ srHand.op \in {"idle", "list", "dump"}
    /\ srTouched \subseteq SrObject(srDriver) /\ srSeen \subseteq SrObject(srDriver)

SrListed == srHand.op = "list" /\ srHand.todo = <<>>
SrTimes(o, kind) == Cardinality({i \in DOMAIN srHand.got : SrRow(o, kind) \in srHand.got[i]})
SrSteady(o) == \A p \in srTouched : ~SrClash(o, p)
\* A ClickHouse list shows an inner table as a table.
SrShownAs(o) == IF o.kind = "inner" THEN "table" ELSE o.kind
\* Kinds a list with no kinds asked for shows.
SrShown == IF srDriver = "clickhouse" THEN {"table", "view", "matview"}
           ELSE {"table", "view", "sequence", "function", "type"}
SrMatches(o) ==
    /\ SrShownAs(o) \in SrShown /\ SrAsked(o, srHand.db, srHand.schema)
    /\ srHand.kinds = {} \/ SrShownAs(o) \in srHand.kinds

(* An object that matches the request and is not touched while the list is *)
(* put together is in it exactly once under its own kind (ClickHouse shows *)
(* the .inner. table of a materialized view as a table); everything in     *)
(* the list existed at some time during the request, and a name nobody     *)
(* touched has no second row of another kind, but for its row type.        *)
SrListIsTrue ==
    SrListed =>
        /\ \A o \in srObjects : SrSteady(o) /\ SrMatches(o) => SrTimes(o, SrShownAs(o)) = 1
        /\ \A i \in DOMAIN srHand.got : \A r \in srHand.got[i] :
              /\ r.of \in srSeen /\ SrAsked(r.of, srHand.db, srHand.schema)
              /\ r.kind \in {SrShownAs(r.of), "type"}
              /\ SrSteady(r.of) => r.of \in srObjects

SrDumping == srHand.op = "dump"
SrFits(o, ref) ==
    /\ o.name = ref.name /\ o.db \in resolve_database(ref.db)
    /\ srDriver = "opengauss" => o.schema = GaussSchema(ref.schema)
SrDone == SubSeq(srHand.asked, 1, Len(srHand.asked) - Len(srHand.todo))
SrMust(ref) == IF srDriver = "tdengine" THEN ref.kind = "table" ELSE ref.kind \in {"table", "view"}

(* A dump that goes through has the statements of the objects asked for,   *)
(* in that order, each of an object of that name that existed during the   *)
(* request; every table is there, and a view is missing only if at some    *)
(* time it was.                                                            *)
SrDumpIsWhole ==
    SrDumping =>
        \E kept \in SUBSET DOMAIN SrDone :
            LET refs == SetToSortSeq(kept, <)
            IN  /\ Len(refs) = Len(srHand.got)
                /\ \A i \in DOMAIN refs : /\ srHand.got[i].ref = SrDone[refs[i]]
                                          /\ SrFits(srHand.got[i].of, SrDone[refs[i]])
                                          /\ srHand.got[i].of \in srSeen
                /\ \A j \in DOMAIN SrDone \ kept :
                      SrMust(SrDone[j]) =>
                          /\ SrDone[j].kind = "view" /\ srDriver = "opengauss"
                          /\ ~\E o \in srObjects : /\ SrFits(o, SrDone[j]) /\ SrSteady(o)
                                                   /\ o.kind \in {"view", "matview"}

(* Below a table of the tree, asked for with its database and schema, are  *)
(* the columns and indexes of that table and no other, and each view of    *)
(* the object list shows what the request of that name returns.            *)
SrTreeIsWhole ==
    \A o \in SrOf({"table"}) :
        LET View(view, table) == CASE srDriver = "opengauss" -> GaussView(view, o.db, o.schema, table)
                                   [] srDriver = "clickhouse" -> ClickhouseView(view, o.db, table)
                                   [] srDriver = "tdengine" -> TdengineView(view, o.db, table)
        IN  /\ View("columns", o.name) = {o}
            /\ srDriver # "tdengine" =>
                  /\ View("indexes", o.name) = {o}
                  /\ View("tables", "") = {p \in SrOf({"table", "inner"}) : p.db = o.db /\ p.schema = o.schema}
            /\ srDriver = "opengauss" =>
                  /\ \A request \in {"checks", "triggers"} : GaussHandle(request, o.db, o.schema, o.name) = {o}
                  /\ \A request \in {"sequences", "functions", "view_definition"} :
                        o \notin GaussHandle(request, o.db, o.schema, o.name)
                  /\ o \in GaussHandle("types", o.db, o.schema, o.name)
                  /\ o.schema \in list_schemas(o.db)

SrKeys ==
    LET keys == [name : {"k", "l"}, table : {"t", "u"},
                 cols : {{<<"a", "x">>}, {<<"b", "y">>}, {<<"a", "x">>, <<"b", "y">>}}]
    IN  {ks \in SUBSET keys : Cardinality(ks) <= 2
                              /\ \A j, k \in ks : j.name = k.name /\ j.table = k.table => j = k}

(* Every pair of columns of every foreign key is listed.  A pair that is   *)
(* no pair of the key is listed only for a key of several columns, each of *)
(* which appears with each column referenced, or for one whose name        *)
(* another table's key has too; every other key is listed as it is.        *)
SrKeysAreListed ==
    \A keys \in SrKeys, table \in {"t", "u"} :
        LET own == list_foreign_keys_own(keys, table)
            Entangled(k) == Cardinality(k.cols) > 1 \/ \E j \in keys \ {k} : j.name = k.name
        IN  /\ own \subseteq list_foreign_keys(keys, table)
            /\ \A r \in list_foreign_keys(keys, table) \ own :
                  \E k \in keys : k.table = table /\ k.name = r.name /\ Entangled(k)
-------------------------------------------------------------------------------
(***************************************************************************)
(* The schema requests of the DuckDB driver (duckdb/src/handlers.rs).      *)
(* Each is one query over the catalog functions, with filters appended for *)
(* the database and the schema that were given; an empty one, the current  *)
(* catalog and the name "main" append no database filter.  The catalog is  *)
(* a set of tables and views; what the user runs through exec/run changes  *)
(* it.  A column is known by its table and an index's text by the index.   *)
(***************************************************************************)

CONSTANTS DcSchemas,  \* schemas of the user
          DcNames,    \* names of tables and views
          DcIndexes,  \* names of secondary indexes
          DcMax       \* bound: objects at a time

VARIABLE dcObjects    \* the tables and views of every attached catalog

dcVars == dcObjects

DcFile == "file"                       \* current_database()
DcSystem == "information_schema"
DcObject == [db : {DcFile, "other", "temp"}, schema : DcSchemas \cup {DcSystem}, name : DcNames,
             kind : {"table", "view"}, internal : BOOLEAN, key : BOOLEAN, indexes : SUBSET DcIndexes]
DcSameName(o, p) == o.db = p.db /\ o.schema = p.schema /\ o.name = p.name
-----------------------------------------------------------------------------
(* Filters *)

is_default_catalog_reference(database) == database \in {"", DcFile, "main"}

append_database_schema_filters(database, schema, o) ==
    /\ is_default_catalog_reference(database) \/ o.db = database
    /\ schema = "" \/ o.schema = schema

should_include_internal(schema) == schema = DcSystem

DcTemporary(o) == o.db = "temp"
DcVisible(schema, o) == should_include_internal(schema) \/ (~o.internal /\ ~DcTemporary(o))
-----------------------------------------------------------------------------
(* Requests.  A row keeps the object it is about, which the answer does    *)
(* not show.                                                               *)

DcRow(o, kind) == [of |-> o, name |-> o.name, schema |-> o.schema, kind |-> kind]

handle_schema_databases == {DcFile}

handle_schema_schemas == DcSchemas \cup {DcSystem}

DcTables(database, schema) ==
    {DcRow(o, "table") : o \in {p \in dcObjects :
        /\ p.kind = IF should_include_internal(schema) THEN "view" ELSE "table"
        /\ DcVisible(schema, p) /\ append_database_schema_filters(database, schema, p)}}

DcViews(database, schema) ==
    {DcRow(o, "view") : o \in {p \in dcObjects :
        p.kind = "view" /\ DcVisible(schema, p) /\ append_database_schema_filters(database, schema, p)}}

\* The views of a catalog schema are shown as its tables, and then not again as views.
handle_schema_objects(database, schema, kinds) ==
    LET tables == kinds = {} \/ "table" \in kinds
        asTables == should_include_internal(schema) /\ tables
    IN  (IF tables THEN DcTables(database, schema) ELSE {})
            \cup (IF (kinds = {} \/ "view" \in kinds) /\ ~asTables THEN DcViews(database, schema) ELSE {})

handle_schema_views(database, schema) == DcViews(database, schema)

\* The objects whose columns are listed: temporary ones are not left out.
handle_schema_columns(database, schema, table) ==
    {o \in dcObjects : /\ o.name = table /\ (should_include_internal(schema) \/ ~o.internal)
                       /\ append_database_schema_filters(database, schema, o)}

\* The tables whose check constraints are listed, whatever their database.
handle_schema_checks(schema, table) ==
    {o \in dcObjects : o.kind = "table" /\ o.name = table /\ (schema = "" \/ o.schema = schema)}

\* The index of a primary key is listed with the others.
handle_schema_indexes(database, schema, table) ==
    UNION {{[of |-> o, index |-> i] : i \in o.indexes \cup IF o.key THEN {"key"} ELSE {}} :
              o \in {p \in dcObjects : p.name = table /\ append_database_schema_filters(database, schema, p)}}

DcIndexesNamed(table) ==
    UNION {{[of |-> o, index |-> i] : i \in o.indexes} : o \in {p \in dcObjects : p.name = table}}

\* The possible answers; none when the request fails.  Any table that matches gives its text.
\* The filters of the index query come after its ORDER BY: with one, the order is a condition
\* over the index's name, which fails as soon as there is an index to order.
handle_schema_dump_ddl(database, schema, table) ==
    LET filtered == ~is_default_catalog_reference(database) \/ schema # ""
        indexes == DcIndexesNamed(table)
    IN  IF filtered /\ indexes # {} THEN {}
        ELSE {[table |-> o, indexes |-> indexes] :
                 o \in {p \in dcObjects : /\ p.kind = "table" /\ p.name = table /\ ~p.internal
                                          /\ append_database_schema_filters(database, schema, p)}}

\* schema/object_view shows the rows of the request of the same name; columns and indexes need
\* a table.
handle_schema_object_view(view, database, schema) ==
    CASE view = "tables" -> handle_schema_objects(database, schema, {"table"})
      [] view = "views" -> handle_schema_views(database, schema)
-----------------------------------------------------------------------------
(* The user's statements *)

DcInit ==
    dcObjects = {[db |-> DcFile, schema |-> DcSystem, name |-> n, kind |-> "view", internal |-> TRUE,
                  key |-> FALSE, indexes |-> {}] : n \in {CHOOSE n \in DcNames : TRUE}}

DcCreates ==
    \E o \in DcObject :
        /\ Cardinality(dcObjects) < DcMax
        /\ o.schema \in DcSchemas /\ ~o.internal /\ o.indexes = {}
        /\ o.kind = "view" => ~o.key
        /\ \A p \in dcObjects : ~DcSameName(o, p)
        /\ dcObjects' = dcObjects \cup {o}

DcIndexesOne ==
    \E o \in dcObjects, i \in DcIndexes :
        /\ o.kind = "table"
        /\ \A p \in dcObjects : p.db = o.db /\ p.schema = o.schema => i \notin p.indexes
        /\ dcObjects' = (dcObjects \ {o}) \cup {[o EXCEPT !.indexes = @ \cup {i}]}

DcDrops ==
    \E o \in dcObjects : ~o.internal /\ dcObjects' = dcObjects \ {o}

DcNext == DcCreates \/ DcIndexesOne \/ DcDrops

DcSpec == DcInit /\ [][DcNext]_dcVars
-----------------------------------------------------------------------------
(* Properties *)

DcTypeOK == dcObjects \subseteq DcObject

DcInFile == {o \in dcObjects : o.db = DcFile}
DcAlone(o) == \A p \in dcObjects \ {o} : p.name # o.name \/ p.schema # o.schema
DcListed == UNION {handle_schema_objects(d, s, {}) : d \in handle_schema_databases, s \in handle_schema_schemas}

(* The host's tree, filled from schema/databases, schema/schemas and       *)
(* schema/objects, has every table and view of the file exactly once, and  *)
(* what opens below a row are that object's columns, checks and indexes,   *)
(* unless an attached or temporary catalog has one of the same schema and  *)
(* name.                                                                   *)
DcTreeIsWhole ==
    /\ \A o \in DcInFile : Cardinality({r \in DcListed : r.of = o}) = 1
    /\ \A o \in DcInFile : DcAlone(o) =>
          /\ handle_schema_columns(DcFile, o.schema, o.name) = {o}
          /\ handle_schema_checks(o.schema, o.name) \subseteq {o}
          /\ \A i \in handle_schema_indexes(DcFile, o.schema, o.name) : i.of = o
    /\ \A view \in {"tables", "views"}, s \in DcSchemas :
          handle_schema_object_view(view, DcFile, s)
              = {r \in handle_schema_objects(DcFile, s, {}) : r.kind = IF view = "tables" THEN "table" ELSE "view"}

(* A table dumped by name alone, when the name is its own, comes with all  *)
(* its secondary indexes, and without the one of its primary key, which    *)
(* the table's text creates.  Dumped with its schema it comes, alone, when *)
(* no table of that name has an index, and not at all otherwise: the index *)
(* query then fails.                                                       *)
DcDumpIsWhole ==
    \A o \in {p \in dcObjects : p.kind = "table"} :
        LET whole == [table |-> o, indexes |-> {[of |-> o, index |-> i] : i \in o.indexes}]
            namesakes == {p \in dcObjects \ {o} : p.name = o.name}
            qualified == handle_schema_dump_ddl(o.db, o.schema, o.name)
        IN  /\ namesakes = {} => handle_schema_dump_ddl("", "", o.name) = {whole}
            /\ (\A p \in namesakes \cup {o} : p.indexes = {}) => whole \in qualified
            /\ \A d \in qualified : d.indexes = {} /\ d.table.indexes = {} /\ d.table.schema = o.schema
-------------------------------------------------------------------------------
(***************************************************************************)
(* Listing the tables of a TDengine database (tdengine/src/handlers.rs,    *)
(* metadata.rs).  The list is put together from two queries, one for       *)
(* tables and one for super tables, and from two others when either of the *)
(* first fails; other sessions create and drop tables in between.  What a  *)
(* query tells depends on the server's version: probing finds out which    *)
(* columns its result has.                                                 *)
(***************************************************************************)

CONSTANTS TcNames,    \* names of tables
          TcChanges   \* bound: tables created or dropped while a list is made

VARIABLES tcTables,   \* the database: name -> [kind, parent]
          tcServer,   \* what the server's results show
          tcHand,     \* the request being handled
          tcSteady,   \* names not touched since the request came
          tcSeen,     \* tables that existed at some time since then
          tcMoves     \* changes since then

tcVars == <<tcTables, tcServer, tcHand, tcSteady, tcSeen, tcMoves>>

TcNobody == "none"
TcKinds == {"normal", "super", "child"}
TcEntry == [kind : TcKinds, parent : TcNames \cup {TcNobody}]
TcIdle == [pc |-> "idle", tables |-> {}, stables |-> {}, list |-> {}]
TcAt(pc) == tcHand.pc = pc
TcHere == {[name |-> n, kind |-> tcTables[n].kind, parent |-> tcTables[n].parent] : n \in DOMAIN tcTables}
-----------------------------------------------------------------------------
(* What a query returns: INS_TABLES may hold super tables too and always   *)
(* has a type; SHOW TABLES has no type, and the super table of a child     *)
(* only in some versions.  The stable_name of a super table's row, where   *)
(* there is one, is its own name.                                          *)

TcRow(o, typed, parents) ==
    [name |-> o.name, type |-> IF typed THEN o.kind ELSE TcNobody,
     stable |-> IF ~parents THEN TcNobody ELSE IF o.kind = "super" THEN o.name ELSE o.parent]

TcInsTables == {TcRow(o, TRUE, TRUE) : o \in {t \in TcHere : t.kind # "super" \/ tcServer.supers}}
TcInsStables == {TcRow(o, FALSE, tcServer.named) : o \in {t \in TcHere : t.kind = "super"}}
TcShownTables == {TcRow(o, FALSE, tcServer.parents) : o \in {t \in TcHere : t.kind # "super"}}
TcShownStables == {TcRow(o, FALSE, FALSE) : o \in {t \in TcHere : t.kind = "super"}}

\* A row without a type takes the default kind, or is a child if it has a super table; a super
\* table has none.
map_table_rows(rows, default) ==
    LET Kind(r) == IF r.type # TcNobody THEN r.type
                   ELSE IF default = "super" THEN "super"
                   ELSE IF r.stable # TcNobody THEN "child" ELSE "normal"
    IN  {[name |-> r.name, kind |-> Kind(r), parent |-> IF Kind(r) = "super" THEN TcNobody ELSE r.stable] :
            r \in rows}
-----------------------------------------------------------------------------
(* The handler *)

TcAsk ==
    /\ TcAt("idle")
    /\ tcHand' = [TcIdle EXCEPT !.pc = "tables"]
    /\ tcSteady' = TcNames /\ tcSeen' = TcHere /\ tcMoves' = 0
    /\ UNCHANGED <<tcTables, tcServer>>

TcReadTables ==
    /\ TcAt("tables")
    /\ \/ tcHand' = [tcHand EXCEPT !.pc = "stables", !.tables = map_table_rows(TcInsTables, "normal")]
       \/ tcHand' = [tcHand EXCEPT !.pc = "showTables"]
    /\ UNCHANGED <<tcTables, tcServer, tcSteady, tcSeen, tcMoves>>

TcFrom(source, rows) == {[source |-> source, row |-> r] : r \in rows}

\* INS_STABLES has the say on super tables; a row of INS_TABLES for one it does not have is kept.
TcMerged(tables, stables) ==
    LET supers == {s.name : s \in stables}
    IN  TcFrom("stables", stables)
            \cup TcFrom("tables", {t \in tables : t.kind # "super" \/ t.name \notin supers})

TcReadStables ==
    /\ TcAt("stables")
    /\ \/ tcHand' = [tcHand EXCEPT !.pc = "listed",
                        !.list = TcMerged(tcHand.tables, map_table_rows(TcInsStables, "super"))]
       \/ tcHand' = [tcHand EXCEPT !.pc = "showTables"]
    /\ UNCHANGED <<tcTables, tcServer, tcSteady, tcSeen, tcMoves>>

\* SHOW TABLES and SHOW STABLES: an error of either ends the request.
TcShowTables ==
    /\ TcAt("showTables")
    /\ \/ tcHand' = [tcHand EXCEPT !.pc = "showStables", !.tables = map_table_rows(TcShownTables, "normal")]
       \/ tcHand' = TcIdle
    /\ UNCHANGED <<tcTables, tcServer, tcSteady, tcSeen, tcMoves>>

TcShowStables ==
    /\ TcAt("showStables")
    /\ \/ tcHand' = [tcHand EXCEPT !.pc = "shown",
                        !.list = TcFrom("tables", tcHand.tables)
                                    \cup TcFrom("stables", map_table_rows(TcShownStables, "super"))]
       \/ tcHand' = TcIdle
    /\ UNCHANGED <<tcTables, tcServer, tcSteady, tcSeen, tcMoves>>

TcAnswer ==
    /\ tcHand.pc \in {"listed", "shown"}
    /\ tcHand' = TcIdle /\ tcSteady' = TcNames /\ tcSeen' = {} /\ tcMoves' = 0
    /\ UNCHANGED <<tcTables, tcServer>>
-----------------------------------------------------------------------------
(* Other sessions *)

TcTouched(n) ==
    /\ IF TcAt("idle") THEN UNCHANGED <<tcMoves, tcSteady, tcSeen>>
       ELSE /\ tcMoves < TcChanges /\ tcMoves' = tcMoves + 1
            /\ tcSteady' = tcSteady \ {n}
            /\ tcSeen' = tcSeen \cup TcHere'
    /\ UNCHANGED <<tcServer, tcHand>>

TcCreates(n, e) ==
    /\ n \notin DOMAIN tcTables
    /\ IF e.kind = "child" THEN e.parent \in DOMAIN tcTables /\ tcTables[e.parent].kind = "super"
       ELSE e.parent = TcNobody
    /\ tcTables' = [m \in DOMAIN tcTables \cup {n} |-> IF m = n THEN e ELSE tcTables[m]]
    /\ TcTouched(n)

TcDrops(n) ==
    /\ n \in DOMAIN tcTables /\ \A m \in DOMAIN tcTables : tcTables[m].parent # n
    /\ tcTables' = [m \in DOMAIN tcTables \ {n} |-> tcTables[m]]
    /\ TcTouched(n)

TcInit ==
    /\ tcTables = [n \in {} |-> TcNobody]
    /\ tcServer \in [supers : BOOLEAN, named : BOOLEAN, parents : BOOLEAN]
    /\ tcHand = TcIdle /\ tcSteady = TcNames /\ tcSeen = {} /\ tcMoves = 0

TcNext ==
    \/ TcAsk \/ TcReadTables \/ TcReadStables \/ TcShowTables \/ TcShowStables \/ TcAnswer
    \/ \E n \in TcNames : TcDrops(n) \/ \E e \in TcEntry : TcCreates(n, e)

TcSpec == TcInit /\ [][TcNext]_tcVars
-----------------------------------------------------------------------------
(* schema/object_view of the databases: columns the server's result lacks  *)
(* are left out, of the heading and of every row.                          *)

TcShows(has, c) ==
    CASE c = "name" -> TRUE
      [] c = "keep" -> has \cap {"keep", "keep0", "keep1"} # {}
      [] OTHER -> c \in has

TcViewColumns == <<"name", "ntables", "precision", "replica", "vgroups", "keep", "status", "create_time">>

\* One keep, or the parts of it that are there.
merge_keep_text(value) == IF "keep" \in value THEN {"keep"} ELSE value \cap {"keep0", "keep1"}

\* The cells of a database with these values, under the columns that are shown.
databases_object_view(has, value) ==
    LET Shown(c) == TcShows(has, c)
        columns == SelectSeq(TcViewColumns, Shown)
    IN  [i \in DOMAIN columns |->
            [column |-> columns[i],
             cell |-> IF columns[i] = "keep" THEN merge_keep_text(value) ELSE value \cap {columns[i]}]]
-----------------------------------------------------------------------------
(* Properties *)

TcTypeOK ==
    /\ DOMAIN tcTables \subseteq TcNames /\ \A n \in DOMAIN tcTables : tcTables[n] \in TcEntry
    /\ tcHand.pc \in {"idle", "tables", "stables", "showTables", "showStables", "listed", "shown"}
    /\ tcMoves \in 0..TcChanges

TcRowsOf(n) == {r \in tcHand.list : r.row.name = n}
TcNow(n) == [name |-> n, kind |-> tcTables[n].kind, parent |-> tcTables[n].parent]

(* A table that nobody touches while the list is made is in it exactly     *)
(* once, with its kind and its super table, and a name that stays free is  *)
(* not; only a SHOW that does not name super tables takes children for     *)
(* normal tables.  Whatever is listed existed at some time during the      *)
(* request, however the two queries are interleaved with other sessions.   *)
TcListIsTrue ==
    tcHand.pc \in {"listed", "shown"} =>
        /\ \A n \in tcSteady :
              IF n \notin DOMAIN tcTables THEN TcRowsOf(n) = {}
              ELSE \E r \in tcHand.list :
                      /\ TcRowsOf(n) = {r}
                      /\ r.row = IF tcHand.pc = "shown" /\ ~tcServer.parents /\ tcTables[n].kind = "child"
                                 THEN [name |-> n, kind |-> "normal", parent |-> TcNobody] ELSE TcNow(n)
        /\ tcHand.pc = "listed" => {r.row : r \in tcHand.list} \subseteq tcSeen

(* Whatever the server tells about a database is shown under its column,   *)
(* the retention time too where only its parts are told.                   *)
TcViewIsWhole ==
    \A has \in SUBSET {"ntables", "keep", "keep0", "keep1", "status"} : \A value \in SUBSET has :
        value \subseteq UNION {databases_object_view(has, value)[i].cell :
                                   i \in DOMAIN databases_object_view(has, value)}
                          \cup IF "keep" \in value THEN {"keep0", "keep1"} ELSE {}
===============================================================================
