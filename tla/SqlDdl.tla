------------------------------- MODULE SqlDdl -------------------------------
(***************************************************************************)
(* The ALTER TABLE builders of the four Rust SQL drivers (duckdb,          *)
(* opengauss, clickhouse, tdengine: src/ddl.rs of each).  The host's table *)
(* designer hands over the old and the new table and the list of renames;  *)
(* the driver answers with statements, which the host then runs in order,  *)
(* stopping at the first that fails.  A statement is the record of what it *)
(* does; its text is left out.  The database's table is a function from    *)
(* column names to the column's contents, and "id" is the identity of the  *)
(* data a column holds: the name it had in the old table, or DdlNew.       *)
(*                                                                         *)
(* A column's type stands for its type and nullability together, the way   *)
(* effective_type joins them; keys, indexes and the table's own comment    *)
(* are not modelled.  allow_destructive concerns only alterations and      *)
(* with_comments only creations, so one choice sets both.                  *)
(***************************************************************************)
EXTENDS Naturals, Sequences, SequencesExt, FiniteSets

CONSTANTS
    DdlNames,       \* column names a table may use
    DdlTypes,       \* column types, nullability included
    DdlDefaults,    \* default expressions
    DdlComments,    \* comments, "" among them
    DdlDialects     \* the drivers asked

DdlNew == "new"

ASSUME DdlAssumption == "" \in DdlComments /\ DdlNew \notin DdlNames

VARIABLES
    ddl,        \* the request: dialect, old columns, the edit, options
    ddlTable,      \* the table in the database
    ddlPlan,       \* statements still to run
    ddlUndo,       \* the rollback statements that came with them
    ddlStage       \* "asked", "running", "failed", "done", "undone"

ddlVars == <<ddl, ddlTable, ddlPlan, ddlUndo, ddlStage>>

-----------------------------------------------------------------------------
(* The request.  An edit lists the wanted columns, each with its origin:   *)
(* the old column it continues, or DdlNew.                                 *)

DdlColumn == [name: DdlNames, type: DdlTypes, def: DdlDefaults, comment: DdlComments]

DdlWanted(old) == [origin: {DdlNew} \cup {old[i].name : i \in DOMAIN old},
                   name: DdlNames, type: DdlTypes, def: DdlDefaults, comment: DdlComments]

DdlDistinct(s) == \A i, j \in DOMAIN s : s[i].name = s[j].name => i = j

DdlEdits(old) ==
    {e \in UNION {[1..n -> DdlWanted(old)] : n \in 1..2} :
        /\ DdlDistinct(e)
        /\ \A i, j \in DOMAIN e : e[i].origin = e[j].origin /\ e[i].origin # DdlNew => i = j}

\* <<>> stands for a table that does not exist yet; types and defaults are only compared,
\* so the old ones are fixed
DdlOlds ==
    LET type == CHOOSE t \in DdlTypes : TRUE
        def == CHOOSE d \in DdlDefaults : TRUE
    IN  {o \in UNION {[1..n -> {c \in DdlColumn : c.type = type /\ c.def = def}] : n \in 0..2} :
            DdlDistinct(o)}

DdlNamesIn(cols) == {cols[i].name : i \in DOMAIN cols}
DdlFind(cols, name) == CHOOSE c \in Range(cols) : c.name = name

\* BuildAlterTableParams.column_renames, in the order of the new columns
DdlRenames(req) ==
    LET Renamed(c) == c.origin # DdlNew /\ c.origin # c.name
    IN  SelectSeq(req.edit, Renamed)

DdlRenamedOld(req) == {DdlRenames(req)[i].origin : i \in DOMAIN DdlRenames(req)}
DdlRenamedNew(req) == DdlNamesIn(DdlRenames(req))

-----------------------------------------------------------------------------
(* Statements *)

RenameOf(c) == [op |-> "rename", col |-> c.origin, to |-> c.name]
UnrenameOf(c) == [op |-> "rename", col |-> c.name, to |-> c.origin]
AddOf(c, comment) == [op |-> "add", col |-> c.name, type |-> c.type, def |-> c.def, comment |-> comment]
ModifyOf(c, def, comment) == [op |-> "modify", col |-> c.name, type |-> c.type, def |-> def, comment |-> comment]
DropOf(name) == [op |-> "drop", col |-> name]
CommentOf(name, text) == [op |-> "comment", col |-> name, text |-> text]

DdlEach(cols, Test(_), Out(_)) ==
    LET kept == SelectSeq(cols, Test) IN FlattenSeq([i \in DOMAIN kept |-> Out(kept[i])])

\* diff_comments: only columns found under their new name in the old table
DiffComments(req) ==
    LET Differs(c) == c.name \in DdlNamesIn(req.old) /\ DdlFind(req.old, c.name).comment # c.comment
        Set(c) == <<CommentOf(c.name, c.comment)>>
    IN  DdlEach(req.edit, Differs, Set)

DiffCommentsUndo(req) ==
    LET Differs(c) == c.name \in DdlNamesIn(req.old) /\ DdlFind(req.old, c.name).comment # c.comment
        Reset(c) == <<CommentOf(c.name, DdlFind(req.old, c.name).comment)>>
    IN  Reverse(DdlEach(req.edit, Differs, Reset))

RenameStatements(req) ==
    LET Every(c) == TRUE
        Rename(c) == <<RenameOf(c)>>
    IN  DdlEach(DdlRenames(req), Every, Rename)

\* duckdb and opengauss add a column and its comment in two statements
AddStatements(req) ==
    LET Fresh(c) == c.name \notin DdlRenamedNew(req) /\ c.name \notin DdlNamesIn(req.old)
        Add(c) == IF c.comment = "" THEN <<AddOf(c, "")>>
                  ELSE <<AddOf(c, ""), CommentOf(c.name, c.comment)>>
    IN  DdlEach(req.edit, Fresh, Add)

DropStatements(req, spared) ==
    LET Gone(c) == c.name \notin spared /\ c.name \notin DdlNamesIn(req.edit)
        Drop(c) == <<DropOf(c.name)>>
    IN  IF req.destructive THEN DdlEach(req.old, Gone, Drop) ELSE <<>>

-----------------------------------------------------------------------------
(* duckdb: rename, add, drop, comments; the rollback list only restores    *)
(* comments                                                                *)

DuckdbAlter(req) ==
    [plan |-> RenameStatements(req) \o AddStatements(req)
                \o DropStatements(req, DdlRenamedOld(req)) \o DiffComments(req),
     undo |-> DiffCommentsUndo(req)]

(* opengauss: the same order, but a renamed column's old name is not       *)
(* spared from the drops; every rename and added column has its rollback   *)

OpengaussUndo(req) ==
    LET Every(c) == TRUE
        Back(c) == <<UnrenameOf(c)>>
        Fresh(c) == c.name \notin DdlRenamedNew(req) /\ c.name \notin DdlNamesIn(req.old)
        Drop(c) == <<DropOf(c.name)>>
    IN  DiffCommentsUndo(req) \o Reverse(DdlEach(req.edit, Fresh, Drop))
            \o Reverse(DdlEach(DdlRenames(req), Every, Back))

OpengaussAlter(req) ==
    [plan |-> RenameStatements(req) \o AddStatements(req) \o DropStatements(req, {}) \o DiffComments(req),
     undo |-> OpengaussUndo(req)]

(* clickhouse: rename, drop, modify, add.  original_column looks a wanted  *)
(* column up under its new name first and under its old name second.       *)


OriginalColumn(req, name) ==
    IF name \in DdlNamesIn(req.old) THEN {DdlFind(req.old, name)}
    ELSE {DdlFind(req.old, c.origin) : c \in {d \in Range(DdlRenames(req)) : d.name = name}}

ClickhouseModifies(req) ==
    LET TypeChanged(c) == \E o \in OriginalColumn(req, c.name) : o.type # c.type
        DefaultChanged(c) == \E o \in OriginalColumn(req, c.name) : o.def # c.def
        Changed(c) == (TypeChanged(c) /\ req.destructive) \/ (DefaultChanged(c) /\ ~TypeChanged(c))
        Modify(c) == <<ModifyOf(c, c.def, c.comment)>>
    IN  DdlEach(req.edit, Changed, Modify)

ClickhouseAlter(req) ==
    LET Fresh(c) == OriginalColumn(req, c.name) = {}
        Add(c) == <<AddOf(c, c.comment)>>
    IN  [plan |-> RenameStatements(req) \o DropStatements(req, DdlRenamedOld(req))
                    \o ClickhouseModifies(req) \o DdlEach(req.edit, Fresh, Add),
         undo |-> <<>>]

(* tdengine: drop, then modify or add per wanted column; a rename is only  *)
(* warned about, so the new name is added beside the old column            *)

TdengineAlter(req) ==
    LET Every(c) == TRUE
        Change(c) == IF c.name \notin DdlNamesIn(req.old) THEN <<AddOf([c EXCEPT !.def = ""], "")>>
                     ELSE IF DdlFind(req.old, c.name).type # c.type
                          THEN <<ModifyOf(c, ddlTable[c.name].def, ddlTable[c.name].comment)>> ELSE <<>>
    IN  [plan |-> DropStatements(req, DdlRenamedOld(req)) \o DdlEach(req.edit, Every, Change),
         undo |-> <<>>]

-----------------------------------------------------------------------------
(* CREATE TABLE.  duckdb and opengauss comment in statements of their own, *)
(* clickhouse inside the column definition whatever the option says, and   *)
(* tdengine's column definition is a name and a type.                      *)

CreateOf(cols) == [op |-> "create", cols |-> cols]
PlainColumn(c) == [id |-> DdlNew, name |-> c.name, type |-> c.type, def |-> c.def, comment |-> ""]

CommentStatements(req) ==
    LET Commented(c) == c.comment # ""
        Set(c) == <<CommentOf(c.name, c.comment)>>
    IN  IF req.with_comments THEN DdlEach(req.edit, Commented, Set) ELSE <<>>

CommentedCreate(req) ==
    <<CreateOf([i \in DOMAIN req.edit |-> PlainColumn(req.edit[i])])>> \o CommentStatements(req)

ClickhouseCreate(req) ==
    <<CreateOf([i \in DOMAIN req.edit |-> [PlainColumn(req.edit[i]) EXCEPT !.comment = req.edit[i].comment]])>>

TdengineCreate(req) ==
    <<CreateOf([i \in DOMAIN req.edit |-> [PlainColumn(req.edit[i]) EXCEPT !.def = ""]])>>

BuildCreateTable(req) ==
    [plan |-> CASE req.dialect \in {"duckdb", "opengauss"} -> CommentedCreate(req)
                [] req.dialect = "clickhouse" -> ClickhouseCreate(req)
                [] req.dialect = "tdengine" -> TdengineCreate(req),
     undo |-> <<>>]

BuildAlterTable(req) ==
    CASE req.dialect = "duckdb" -> DuckdbAlter(req)
      [] req.dialect = "opengauss" -> OpengaussAlter(req)
      [] req.dialect = "clickhouse" -> ClickhouseAlter(req)
      [] req.dialect = "tdengine" -> TdengineAlter(req)

-----------------------------------------------------------------------------
(* The database running a statement *)

DdlStored(cols) ==
    [n \in DdlNamesIn(cols) |->
        LET c == DdlFind(cols, n)
        IN  [id |-> IF "id" \in DOMAIN c THEN c.id ELSE n, type |-> c.type, def |-> c.def, comment |-> c.comment]]

DdlApplies(s) ==
    IF s.op = "create" THEN DOMAIN ddlTable = {}
    ELSE IF s.op = "add" THEN s.col \notin DOMAIN ddlTable
    ELSE s.col \in DOMAIN ddlTable /\ (s.op = "rename" => s.to \notin DOMAIN ddlTable)

DdlWithout(name) == [n \in DOMAIN ddlTable \ {name} |-> ddlTable[n]]
DdlWith(name, contents) == [n \in DOMAIN ddlTable \cup {name} |-> IF n = name THEN contents ELSE ddlTable[n]]

DdlApplied(s) ==
    CASE s.op = "create" -> DdlStored(s.cols)
      [] s.op = "rename" -> [n \in (DOMAIN ddlTable \ {s.col}) \cup {s.to} |->
                                IF n = s.to THEN ddlTable[s.col] ELSE ddlTable[n]]
      [] s.op = "add" -> DdlWith(s.col, [id |-> DdlNew, type |-> s.type, def |-> s.def, comment |-> s.comment])
      [] s.op = "modify" -> DdlWith(s.col, [ddlTable[s.col] EXCEPT !.type = s.type, !.def = s.def, !.comment = s.comment])
      [] s.op = "drop" -> DdlWithout(s.col)
      [] s.op = "comment" -> DdlWith(s.col, [ddlTable[s.col] EXCEPT !.comment = s.text])

DdlInit ==
    /\ \E dialect \in DdlDialects, old \in DdlOlds, option \in BOOLEAN :
        \E edit \in DdlEdits(old) :
            /\ ddl = [dialect |-> dialect, old |-> old, edit |-> edit,
                      destructive |-> option, with_comments |-> option]
            /\ ddlTable = DdlStored(old)
    /\ ddlPlan = <<>>
    /\ ddlUndo = <<>>
    /\ ddlStage = "asked"

\* ddl/build: nothing reaches the database
DdlBuild ==
    /\ ddlStage = "asked"
    /\ LET built == IF ddl.old = <<>> THEN BuildCreateTable(ddl) ELSE BuildAlterTable(ddl)
       IN  ddlPlan' = built.plan /\ ddlUndo' = built.undo
    /\ ddlStage' = "running"
    /\ UNCHANGED <<ddl, ddlTable>>

\* exec/run of the next statement
DdlRun ==
    /\ ddlStage = "running"
    /\ ddlPlan # <<>>
    /\ ddlPlan' = Tail(ddlPlan)
    /\ IF DdlApplies(Head(ddlPlan))
       THEN ddlTable' = DdlApplied(Head(ddlPlan)) /\ ddlStage' = ddlStage
       ELSE ddlStage' = "failed" /\ ddlTable' = ddlTable
    /\ UNCHANGED <<ddl, ddlUndo>>

DdlRan ==
    /\ ddlStage = "running"
    /\ ddlPlan = <<>>
    /\ ddlStage' = "done"
    /\ UNCHANGED <<ddl, ddlTable, ddlPlan, ddlUndo>>

\* the host takes the whole change back
DdlUndo ==
    /\ ddlStage = "done"
    /\ ddlUndo # <<>>
    /\ ddlPlan' = ddlUndo
    /\ ddlStage' = "undoing"
    /\ UNCHANGED <<ddl, ddlTable, ddlUndo>>

DdlRunUndo ==
    /\ ddlStage = "undoing"
    /\ ddlPlan # <<>>
    /\ ddlPlan' = Tail(ddlPlan)
    /\ IF DdlApplies(Head(ddlPlan))
       THEN ddlTable' = DdlApplied(Head(ddlPlan)) /\ ddlStage' = IF Tail(ddlPlan) = <<>> THEN "undone" ELSE ddlStage
       ELSE ddlStage' = "failed" /\ ddlTable' = ddlTable
    /\ UNCHANGED <<ddl, ddlUndo>>

DdlNext == DdlBuild \/ DdlRun \/ DdlRan \/ DdlUndo \/ DdlRunUndo

DdlSpec == DdlInit /\ [][DdlNext]_ddlVars

-----------------------------------------------------------------------------
(* Properties *)

\* The table and the stage have their types (the state of one ddl/build request).
DdlTypeOK ==
    /\ DOMAIN ddlTable \subseteq DdlNames
    /\ \A n \in DOMAIN ddlTable : ddlTable[n].id \in DdlNames \cup {DdlNew}
    /\ ddlStage \in {"asked", "running", "failed", "done", "undoing", "undone"}

DdlIds == {ddlTable[n].id : n \in DOMAIN ddlTable}
DdlKeptIds == {ddl.edit[i].origin : i \in DOMAIN ddl.edit} \ {DdlNew}

\* No statement any dialect builds loses the data of a column the designer keeps or
\* renames, whether or not a later statement fails, and without allow_destructive no
\* column's data is lost at all (build_alter_table of the four drivers).
DdlKeepsData ==
    /\ DdlKeptIds \subseteq DdlIds
    /\ ~ddl.destructive => DdlNamesIn(ddl.old) \subseteq DdlIds

\* No wanted column takes the name of another old column
DdlPlainEdit ==
    \A i \in DOMAIN ddl.edit : LET c == ddl.edit[i]
                               IN  c.name \in DdlNamesIn(ddl.old) => c.origin = c.name

\* openGauss drops the old name of a renamed column, which no longer exists.
DdlDropsRenamed == ddl.dialect = "opengauss" /\ ddl.destructive /\ DdlRenames(ddl) # <<>>

\* What a wanted column is at the end.  A new one is as asked, but for what the dialect
\* cannot say of it.
DdlAdded(c) ==
    [id |-> DdlNew, type |-> c.type, def |-> IF ddl.dialect = "tdengine" THEN "" ELSE c.def,
     comment |-> CASE ddl.dialect = "tdengine" -> ""
                   [] ddl.dialect \in {"duckdb", "opengauss"} /\ ddl.old = <<>> /\ ~ddl.with_comments -> ""
                   [] OTHER -> c.comment]

\* Of a kept one, duckdb and opengauss change the comment only, and only under its old name;
\* clickhouse changes type, default and comment together, for a type that may be changed or
\* a default alone; tdengine changes the type only.
DdlKept(c, o) ==
    LET was == [id |-> c.origin, type |-> o.type, def |-> o.def, comment |-> o.comment]
        asked == [id |-> c.origin, type |-> c.type, def |-> c.def, comment |-> c.comment]
    IN  CASE ddl.dialect \in {"duckdb", "opengauss"} ->
                [was EXCEPT !.comment = IF c.origin = c.name THEN c.comment ELSE @]
          [] ddl.dialect = "clickhouse" ->
                IF (c.type # o.type /\ ddl.destructive) \/ (c.type = o.type /\ c.def # o.def) THEN asked ELSE was
          [] ddl.dialect = "tdengine" -> [was EXCEPT !.type = c.type]

DdlTarget ==
    LET kept(c) == c.origin # DdlNew /\ (ddl.dialect = "tdengine" => c.origin = c.name)
        left == {n \in DdlNamesIn(ddl.old) :
                    IF n \in DdlKeptIds THEN ddl.dialect = "tdengine" /\ n \in DdlRenamedOld(ddl)
                                        ELSE ~ddl.destructive}
    IN  [n \in DdlNamesIn(ddl.edit) \cup left |->
            IF n \notin DdlNamesIn(ddl.edit) THEN DdlStored(ddl.old)[n]
            ELSE LET c == DdlFind(ddl.edit, n)
                 IN  IF kept(c) THEN DdlKept(c, DdlFind(ddl.old, c.origin)) ELSE DdlAdded(c)]

\* A plain edit that does not fail leaves the table exactly as DdlTarget says: every kept
\* column with its own data, every new one, nothing dropped without allow_destructive, and
\* what the dialect does not carry over as it was.  It fails in opengauss, always, when
\* allow_destructive goes with a rename, and nowhere else (build_create_table,
\* build_alter_table).
DdlReachesTarget ==
    DdlPlainEdit =>
        /\ ddlStage = "failed" => DdlDropsRenamed
        /\ ddlStage = "done" => ddlTable = DdlTarget /\ ~DdlDropsRenamed

\* opengauss's rollback statements, run after a plain edit that dropped nothing, give back
\* the table there was before, comments included (build_alter_table with with_rollback).
DdlUndoRestores ==
    ddl.dialect = "opengauss" /\ DdlPlainEdit /\ ~ddl.destructive =>
        /\ ddlStage = "undone" => ddlTable = DdlStored(ddl.old)
        /\ ddlStage # "failed"
=============================================================================
