----------------------------- MODULE CsvExport ------------------------------
(***************************************************************************)
(* data/export as CSV in the DuckDB and openGauss drivers: which columns   *)
(* are written, and how cells become text.  DuckDB renders page after page *)
(* into one stream and ends every line; openGauss renders everything at    *)
(* once and joins the lines.                                               *)
(*                                                                         *)
(* Text is a sequence of characters: Comma is the delimiter, Quote the     *)
(* quote, Newline the end of a line, anything else an ordinary letter.     *)
(***************************************************************************)
EXTENDS Naturals, Sequences, SequencesExt, FiniteSets

CONSTANTS CvColumns,   \* the table's columns, in order; a name is a text
          CvTexts,     \* texts a cell may hold
          CvNulls,     \* the null strings the host may choose
          CvIncludes,  \* sequences of columns to include
          CvExcludes,  \* sets of columns to exclude
          CvRows       \* bound: rows exported

VARIABLES cvRequest, cvColumns, cvRows, cvText, cvHeader
cvVars == <<cvRequest, cvColumns, cvRows, cvText, cvHeader>>

Comma == ","
Quote == "q"
Newline == "n"
CvNoRequest == [driver |-> "none"]
CellNull == [null |-> TRUE, text |-> <<>>]
CellText(t) == [null |-> FALSE, text |-> t]
CvCells == {CellNull} \cup {CellText(t) : t \in CvTexts}

-----------------------------------------------------------------------------
(* Rendering.                                                              *)

Join(parts, between) ==
    FoldLeft(LAMBDA text, i : text \o (IF i = 1 THEN <<>> ELSE between) \o parts[i],
             <<>>, [i \in DOMAIN parts |-> i])

csv_escape(value, force_quote) ==
    IF force_quote \/ \E i \in DOMAIN value : value[i] \in {Comma, Quote, Newline}
    THEN <<Quote>> \o FlattenSeq([i \in DOMAIN value |->
                        IF value[i] = Quote THEN <<Quote, Quote>> ELSE <<value[i]>>]) \o <<Quote>>
    ELSE value

\* Without the quotes that tell a text from the null string.
cell_to_csv_field_bare(cell, null) == csv_escape(IF cell.null THEN null ELSE cell.text, FALSE)

cell_to_csv_field(cell, null) ==
    LET value == IF cell.null THEN null ELSE cell.text
    IN  csv_escape(value, ~cell.null /\ (value = <<>> \/ value = null))

csv_line(fields) == Join(fields, <<Comma>>)

HeaderLine(columns) == csv_line([i \in DOMAIN columns |-> csv_escape(columns[i], FALSE)])
RowLine(row, null) == csv_line([i \in DOMAIN row |-> cell_to_csv_field(row[i], null)])

render_csv_rows(request, columns, rows, headed) ==
    (IF request.header /\ ~headed THEN Append(HeaderLine(columns), Newline) ELSE <<>>)
       \o FlattenSeq([i \in DOMAIN rows |-> Append(RowLine(rows[i], request.null), Newline)])

rows_to_csv(request, columns, rows) ==
    Join((IF request.header THEN <<HeaderLine(columns)>> ELSE <<>>)
            \o [i \in DOMAIN rows |-> RowLine(rows[i], request.null)], <<Newline>>)

-----------------------------------------------------------------------------
(* Selecting columns.                                                      *)

Without(columns, excluded) == SelectSeq(columns, LAMBDA c : c \notin excluded)

selected_export_columns(request) ==
    Without(IF request.include = <<>> THEN CvColumns ELSE request.include, request.exclude)

\* Only a list of columns to include is looked at; an empty selection is "*".
export_sql(request) ==
    LET selected == Without(request.include, request.exclude)
    IN  IF selected = <<>> THEN CvColumns ELSE selected

Project(row, columns) ==
    [i \in DOMAIN columns |-> row[CHOOSE j \in DOMAIN CvColumns : CvColumns[j] = columns[i]]]

-----------------------------------------------------------------------------
CvInit ==
    /\ cvRequest = CvNoRequest
    /\ cvColumns = <<>> /\ cvRows = <<>> /\ cvText = <<>> /\ cvHeader = FALSE

\* A selection of nothing, or of a column that is not there, is refused.
duckdb_export(request) ==
    /\ cvRequest = CvNoRequest /\ request.driver = "duckdb"
    /\ selected_export_columns(request) # <<>>
    /\ ToSet(selected_export_columns(request)) \subseteq ToSet(CvColumns)
    /\ cvRequest' = request
    /\ cvColumns' = selected_export_columns(request)
    /\ UNCHANGED <<cvRows, cvText, cvHeader>>

duckdb_refuses(request) ==
    /\ cvRequest = CvNoRequest /\ request.driver = "duckdb"
    /\ \/ selected_export_columns(request) = <<>>
       \/ ~(ToSet(selected_export_columns(request)) \subseteq ToSet(CvColumns))
    /\ UNCHANGED cvVars

\* One page of the result is rendered behind what was rendered before.
fill_stream_buffer(rows) ==
    /\ cvRequest.driver = "duckdb" /\ Len(cvRows) + Len(rows) <= CvRows
    /\ LET page == [i \in DOMAIN rows |-> Project(rows[i], cvColumns)]
       IN  /\ cvText' = cvText \o render_csv_rows(cvRequest, cvColumns, page, cvHeader)
           /\ cvRows' = cvRows \o page
    /\ cvHeader' = TRUE
    /\ UNCHANGED <<cvRequest, cvColumns>>

\* The database refuses a column it has not.
opengauss_export(request, rows) ==
    /\ cvRequest = CvNoRequest /\ request.driver = "opengauss"
    /\ ToSet(export_sql(request)) \subseteq ToSet(CvColumns)
    /\ cvRequest' = request
    /\ cvColumns' = export_sql(request)
    /\ cvRows' = [i \in DOMAIN rows |-> Project(rows[i], cvColumns')]
    /\ cvText' = rows_to_csv(request, cvColumns', cvRows')
    /\ cvHeader' = request.header

CvRequests == [driver : {"duckdb", "opengauss"}, header : BOOLEAN, null : CvNulls,
               include : CvIncludes, exclude : CvExcludes]
CvPages == UNION {[1..n -> [DOMAIN CvColumns -> CvCells]] : n \in 0..CvRows}

CvNext ==
    \/ /\ cvRequest = CvNoRequest
       /\ \E request \in CvRequests :
             duckdb_export(request) \/ duckdb_refuses(request)
               \/ \E rows \in CvPages : opengauss_export(request, rows)
    \/ /\ cvRequest.driver = "duckdb"
       /\ \E rows \in CvPages : fill_stream_buffer(rows)

CvSpec == CvInit /\ [][CvNext]_cvVars

-----------------------------------------------------------------------------
(* Properties.                                                             *)

\* How a reader of CSV takes the text apart again, one character at a time: a
\* field is its text and whether it was quoted.
FieldEnds(at) ==
    [at EXCEPT !.row = Append(@, [quoted |-> at.quoted, text |-> at.text]),
               !.text = <<>>, !.quoted = FALSE, !.mode = "start"]
RowEnds(at) == LET done == FieldEnds(at) IN [done EXCEPT !.rows = Append(@, done.row), !.row = <<>>]

ReadChar(at, c) ==
    CASE at.mode = "in" /\ c = Quote   -> [at EXCEPT !.mode = "closed"]
      [] at.mode = "in" /\ c # Quote   -> [at EXCEPT !.text = Append(@, c)]
      [] at.mode = "closed" /\ c = Quote -> [at EXCEPT !.text = Append(@, c), !.mode = "in"]
      [] at.mode = "start" /\ c = Quote  -> [at EXCEPT !.quoted = TRUE, !.mode = "in"]
      [] at.mode # "in" /\ c = Comma     -> FieldEnds(at)
      [] at.mode # "in" /\ c = Newline   -> RowEnds(at)
      [] OTHER                           -> [at EXCEPT !.text = Append(@, c), !.mode = "plain"]

ReadCsv(text) ==
    LET end == FoldLeft(ReadChar, [rows |-> <<>>, row |-> <<>>, text |-> <<>>,
                                   quoted |-> FALSE, mode |-> "start"], text)
    IN  IF end.mode = "start" /\ end.row = <<>> THEN end.rows ELSE RowEnds(end).rows

ReadCell(field, null) ==
    IF ~field.quoted /\ field.text = null THEN CellNull ELSE CellText(field.text)

\* A line without a character at the end of a text nobody ended.
BlankAtEnd ==
    /\ cvRequest.driver = "opengauss" /\ Len(cvColumns) = 1
    /\ cvRequest.null = <<>> /\ cvRows # <<>> /\ Last(cvRows) = <<CellNull>>

\* A null string that needs quotes is quoted like a text.
NullNeedsQuotes(null) == \E i \in DOMAIN null : null[i] \in {Comma, Quote, Newline}
ReadsAs(cell, null) == IF cell.null /\ NullNeedsQuotes(null) THEN CellText(null) ELSE cell

\* What was exported can be read back, cell by cell: NULL, the empty text and a
\* text that looks like the null string stay apart, whatever the cells hold and
\* wherever the pages were cut.  Two things are lost: a NULL on a line of its own
\* that ends an openGauss export and is written as nothing, and that a cell was
\* NULL when the null string holds a delimiter, a quote or a line end.
ExportReadsBack ==
    cvRequest # CvNoRequest /\ (cvRequest.driver = "duckdb" => cvHeader) =>
        LET read == ReadCsv(cvText)
            skip == IF cvRequest.header THEN 1 ELSE 0
            cells == [i \in 1 .. Len(read) - skip |->
                        [j \in DOMAIN read[i + skip] |-> ReadCell(read[i + skip][j], cvRequest.null)]]
            rows == IF BlankAtEnd THEN Front(cvRows) ELSE cvRows
        IN  cells = [i \in DOMAIN rows |->
                        [j \in DOMAIN rows[i] |-> ReadsAs(rows[i][j], cvRequest.null)]]

\* A column the host excluded is not in the file; but openGauss applies the list only
\* to the columns to include, and when that leaves none writes the whole table.
ExcludedStaysOut ==
    cvRequest # CvNoRequest =>
        IF cvRequest.driver = "opengauss" /\ ToSet(cvRequest.include) \subseteq cvRequest.exclude
        THEN cvColumns = CvColumns
        ELSE ToSet(cvColumns) \cap cvRequest.exclude = {}

CsvExportSafe == ExportReadsBack /\ ExcludedStaysOut
=============================================================================
