------------------------------- MODULE Output -------------------------------
(***************************************************************************)
(* lib/output.c and the fields of lib/options.c: what is printed for a URL *)
(* that was decoded.  A text is a sequence of cells: what a cell shows,    *)
(* which column that is, and whether a separator or a newline follows.     *)
(* The values of a URL are whatever the decoder found: a cell says only    *)
(* whose they are.                                                         *)
(***************************************************************************)
EXTENDS Lists, SequencesExt

(* enum _faup_url_field_t: the bit of a field is its place here. *)
Fields == <<"none", "line", "scheme", "credential", "subdomain", "domain",
            "domain_without_tld", "host", "tld", "port", "resource_path",
            "query_string", "fragment", "url_type">>
Bit(field) == CHOOSE b \in DOMAIN Fields : Fields[b] = field
UrlFields == ToSet(Fields) \ {"none", "line"}

(* What the arguments of -f and -o stand for. *)
GetFieldFromName(name) == IF name \in UrlFields THEN name ELSE "none"
GetOutputFromName(name) == IF name \in {"csv", "json", "module"} THEN name ELSE "none"

(* faup_options_url_field_has_greater_than *)
HasGreaterThan_OrEqual(fields, field) == \E f \in fields : Bit(f) >= Bit(field)
HasGreaterThan(fields, field) == \E f \in fields : Bit(f) > Bit(field)

Cell(field, fields, of) ==
  [column |-> field, of |-> of,
   ends |-> IF HasGreaterThan(fields, field) THEN "separator" ELSE "newline"]

Cells(columns, fields, of) ==
  At([i \in DOMAIN columns |-> Cell(columns[i], fields, of)],
     {i \in DOMAIN columns : columns[i] \in fields})

HeaderColumns == Tail(Fields)
RowColumns == Tail(Tail(Fields))

HeaderText == [header |-> TRUE]
CsvHeader(opts) ==
  IF opts.print_header THEN Cells(HeaderColumns, opts.fields, HeaderText) ELSE <<>>

(* The number of the line is 0 when the URL is an argument. *)
LineNumber_FromZero(opts) ==
  IF opts.input_source = "argument" THEN 0 ELSE opts.current_line - 1
LineNumber(opts) == IF opts.input_source = "argument" THEN 0 ELSE opts.current_line

CsvLine(opts) ==
  IF opts.print_line
  THEN <<[column |-> "line", of |-> LineNumber(opts), ends |-> "separator"]>>
  ELSE <<>>

CsvRow(opts, url) == Cells(RowColumns, opts.fields, url)

(* The members of an object; what ends the last one is the end of the      *)
(* object.                                                                 *)
JsonObject(opts, url) ==
  <<[column |-> "open", of |-> url, ends |-> "newline"]>>
    \o Cells(RowColumns, opts.fields, url)
    \o <<[column |-> "close", of |-> url, ends |-> "newline"]>>

(* faup_output, after the modules' turn. *)
Output(opts, url) ==
  CASE opts.quiet \/ opts.output = "module" -> <<>>
    [] ~opts.quiet /\ opts.output \in {"none", "csv"} ->
         CsvHeader(opts) \o CsvLine(opts) \o CsvRow(opts, url)
    [] ~opts.quiet /\ opts.output = "json" -> JsonObject(opts, url)
=============================================================================
