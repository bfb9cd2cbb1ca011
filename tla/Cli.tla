-------------------------------- MODULE Cli ---------------------------------
(***************************************************************************)
(* tools/faup.c: the command line, read a word at a time, then the URL of  *)
(* the command line or the lines of a stream, one turn of the loop at a    *)
(* time.  An option and its argument are words of their own, but for       *)
(* "-ma", which is -m with the argument a.                                 *)
(***************************************************************************)
EXTENDS Output, LuaModules

CONSTANTS Commands,   \* command lines
          Streams     \* what can be read: sequences of characters

ASSUME CommandsAssumption == \A c \in Commands : c \in Seq(Range(c))
ASSUME StreamsAssumption == \A s \in Streams : s \in Seq(Range(s))

LF == "LF"
CR == "CR"
Clear == {"-a", "-e", "-l", "-p", "-q", "-t"}     \* options without an argument
WithArgument == {"-f", "-o", "-m", "-s", "-c", "-d"}
IsOption(word) == word \in Clear \cup WithArgument \cup {"-ma", "-w", "-h"}

VARIABLES words,      \* the words from optind on
          operands,   \* those that getopt moved behind the options
          opts,       \* faup_opts, with skip_file_check and snapshot_compare
          phase,
          stdin,      \* "tty", or "pipe"
          rest, eof,  \* what was not read yet, and feof
          modules,    \* fh->modules
          out,        \* stdout
          snapshot,   \* what was appended to the snapshot
          written,    \* the snapshot was written
          input,      \* history: what there is to be read
          given       \* history: the modules that the command line asks for

source == <<stdin, input>>
stream == <<rest, eof>>
cliVars == <<words, operands, opts, phase, source, stream, modules, out, snapshot, written, given>>

(* What the help says of -m: the modules up to the next option (the last   *)
(* of them is at Until), none if there is none, those that are enabled     *)
(* without it.  The last word is the URL, or there is none.  Unclear is    *)
(* what the help says nothing of, and Doubtful a line that it may be.      *)
Unclear == <<"unclear">>
Plain(ws, i) == i \in DOMAIN ws /\ ~IsOption(ws[i])

Until(ws, i) == CHOOSE j \in i .. Len(ws) :
                  ~Plain(ws, j + 1) /\ \A k \in i + 1 .. j : Plain(ws, k)

Doubtful(ws) ==
  LET ms == {i \in DOMAIN ws : ws[i] = "-m"}
  IN \/ \E i \in DOMAIN ws : ws[i] \in WithArgument \ {"-m"} /\ ~Plain(ws, i + 1)
     \/ \E i \in DOMAIN ws : ws[i] \in {"-ma", "-w"}
     \/ \E i, j \in ms : i # j
     \/ \E i \in ms : stdin = "pipe" /\ Until(ws, i) = Len(ws)

Asked(ws) ==
  LET ms == {i \in DOMAIN ws : ws[i] = "-m"}
      i == CHOOSE j \in ms : TRUE
      last == IF Until(ws, i) = Len(ws) THEN Len(ws) - 1 ELSE Until(ws, i)
  IN IF ms = {} THEN Enabled ELSE LoadFromArg(SubSeq(ws, i + 1, last))

Given(ws) == IF Doubtful(ws) THEN Unclear ELSE Asked(ws)

(* faup_options_defaults, and what main sets first *)
Defaults ==
  [print_header |-> FALSE, print_line |-> FALSE, input_source |-> "argument",
   current_line |-> 1, output |-> "csv", exec_modules |-> "path", modules_argv |-> <<>>,
   fields |-> UrlFields, snapshot_name |-> FALSE, quiet |-> FALSE,
   empty_lines_processed |-> FALSE, skip_file_check |-> FALSE, compare |-> FALSE]

CliInit ==
  /\ words \in Commands /\ stdin \in {"tty", "pipe"} /\ input = <<>>
  /\ given = Given(words)
  /\ operands = <<>> /\ opts = Defaults /\ phase = "options"
  /\ rest = <<>> /\ eof = FALSE
  /\ modules = <<>> /\ out = <<>> /\ snapshot = <<>> /\ written = FALSE

(***************************************************************************)
(* The loop over the options.                                              *)
(***************************************************************************)
AtOption(option) == phase = "options" /\ words # <<>> /\ Head(words) = option

Keep == UNCHANGED <<operands, phase, source, stream, modules, out, snapshot, written, given>>
Exit == phase' = "exited"
        /\ UNCHANGED <<words, operands, opts, source, stream, modules, out, snapshot, written, given>>

(* getopt goes on behind a word that is no option. *)
SkipOperand ==
  /\ phase = "options" /\ words # <<>> /\ ~IsOption(Head(words))
  /\ operands' = Append(operands, Head(words)) /\ words' = Tail(words)
  /\ UNCHANGED <<opts, phase, source, stream, modules, out, snapshot, written, given>>

Flag(o, option) ==
  CASE option = "-a" -> [o EXCEPT !.skip_file_check = TRUE]
    [] option = "-e" -> [o EXCEPT !.empty_lines_processed = TRUE]
    [] option = "-l" -> [o EXCEPT !.fields = @ \cup {"line"}, !.print_line = TRUE]
    [] option = "-p" -> [o EXCEPT !.print_header = TRUE]
    [] option = "-q" -> [o EXCEPT !.quiet = TRUE]
    [] option = "-t" -> o      \* only the decoder looks at it

ReadFlag ==
  \E option \in Clear :
    /\ AtOption(option)
    /\ opts' = Flag(opts, option) /\ words' = Tail(words)
    /\ Keep

(* An argument is the next word, whatever it looks like. *)
HasArgument == Len(words) > 1
Argument(o, option, optarg) ==
  CASE option = "-f" -> [o EXCEPT !.fields = {GetFieldFromName(optarg)}]
    [] option = "-o" -> [o EXCEPT !.output = GetOutputFromName(optarg)]
    [] option = "-s" -> [o EXCEPT !.snapshot_name = TRUE]
    [] option = "-c" -> [o EXCEPT !.compare = TRUE]
    [] option = "-d" -> o      \* the separator

ReadArgument ==
  \E option \in WithArgument \ {"-m"} :
    /\ AtOption(option) /\ HasArgument
    /\ ~(option = "-o" /\ GetOutputFromName(words[2]) = "none")
    /\ opts' = Argument(opts, option, words[2])
    /\ words' = Tail(Tail(words))
    /\ Keep

(* -m takes the words up to the next option, but for the last of all.      *)
Taken(ws) ==
  LET stops == {i \in DOMAIN ws : IsOption(ws[i])} \cup {Len(ws)}
  IN CHOOSE i \in stops : \A j \in stops : i <= j

(* has_module: the first argument of a second -m is left out. *)
ReadModules ==
  /\ AtOption("-m") /\ HasArgument
  /\ LET after == Tail(words)
         taken == SubSeq(after, 1, Taken(after) - 1)
         added == IF taken # <<>> /\ opts.modules_argv # <<>> THEN Tail(taken) ELSE taken
         argv == opts.modules_argv \o added
     IN /\ words' = SubSeq(after, Taken(after), Len(after))
        /\ opts' = [opts EXCEPT !.modules_argv = argv,
                                !.exec_modules = IF argv = <<>> THEN "noexec" ELSE "arg"]
  /\ Keep

(* optind-- goes back to -ma itself. *)
ReadAttachedModule ==
  /\ AtOption("-ma")
  /\ opts' = [opts EXCEPT !.exec_modules = IF @ = "arg" THEN "arg" ELSE "noexec"]
  /\ UNCHANGED words /\ Keep

(* Help, an unknown option, a missing argument, an output there is not. *)
Usage ==
  /\ \/ AtOption("-h")
     \/ \E option \in WithArgument : AtOption(option) /\ ~HasArgument
     \/ AtOption("-o") /\ HasArgument /\ GetOutputFromName(words[2]) = "none"
  /\ Exit

(* -w: faup_init, then the server; no further option is read. *)
Serve ==
  /\ AtOption("-w")
  /\ IF HasArgument
     THEN /\ modules' = ModulesNew(opts) /\ phase' = "serving"
          /\ UNCHANGED <<words, operands, opts, source, stream, out, snapshot, written, given>>
     ELSE Exit

(***************************************************************************)
(* What is read, decoded and printed.                                      *)
(***************************************************************************)
Ready == phase = "options" /\ words = <<>>

Url(text) == [text |-> text, changed |-> <<>>, placed |-> <<>>]

(* faup_decode and faup_output *)
Decoded(loaded, text) == DecodeUrlStart(loaded, Url(text))
Printed(loaded, o, text) ==
  ShownByModules(loaded, Decoded(loaded, text))
    \o Output(o, UrlOutput(loaded, Decoded(loaded, text)))

Compare ==
  /\ Ready /\ opts.compare
  /\ modules' = ModulesNew(opts) /\ phase' = "exited"
  /\ UNCHANGED <<words, operands, opts, source, stream, out, snapshot, written, given>>

NoOperand ==
  /\ Ready /\ ~opts.compare /\ stdin = "tty" /\ operands = <<>>
  /\ modules' = ModulesNew(opts) /\ phase' = "exited"
  /\ UNCHANGED <<words, operands, opts, source, stream, out, snapshot, written, given>>

IsFile == ~opts.skip_file_check /\ operands[1] \in LocalFiles

DecodeArgument ==
  /\ Ready /\ ~opts.compare /\ stdin = "tty" /\ operands # <<>> /\ ~IsFile
  /\ modules' = ModulesNew(opts)
  /\ opts' = [opts EXCEPT !.input_source = "argument"]
  /\ out' = Printed(modules', opts', operands[1])
  /\ phase' = "exited"
  /\ UNCHANGED <<words, operands, source, stream, snapshot, written, given>>

StartStream ==
  /\ Ready /\ ~opts.compare
  /\ \/ stdin = "pipe" /\ opts' = [opts EXCEPT !.input_source = "pipe"]
     \/ /\ stdin = "tty" /\ operands # <<>> /\ IsFile
        /\ opts' = [opts EXCEPT !.input_source = "file"]
  /\ modules' = ModulesNew(opts)
  /\ input' \in Streams /\ rest' = input'
  /\ phase' = "reading"
  /\ operands' = <<>> /\ UNCHANGED given
  /\ UNCHANGED <<words, stdin, eof, out, snapshot, written>>

(* readline *)
LineEnd == {i \in DOMAIN rest : rest[i] \in {LF, CR}}
ReadsToEnd_IfAnyRead == LineEnd = {} /\ rest # <<>>
ReadsToEnd == LineEnd = {}

Line ==
  IF LineEnd = {} THEN rest
  ELSE SubSeq(rest, 1, (CHOOSE i \in LineEnd : \A j \in LineEnd : i <= j) - 1)

Advance ==
  /\ rest' = SubSeq(rest, Len(Line) + 2, Len(rest))
  /\ eof' = ReadsToEnd

Reading == phase = "reading" /\ ~eof

SkipEmptyLine ==
  /\ Reading /\ Line = <<>> /\ ~opts.empty_lines_processed
  /\ Advance
  /\ UNCHANGED <<words, operands, opts, phase, source, modules, out, snapshot, written, given>>

DecodeLine ==
  /\ Reading /\ (Line # <<>> \/ opts.empty_lines_processed)
  /\ Advance
  /\ out' = out \o Printed(modules, opts, Line)
  /\ snapshot' = IF opts.snapshot_name THEN Append(snapshot, Decoded(modules, Line)) ELSE snapshot
  /\ opts' = [opts EXCEPT !.print_header = FALSE, !.current_line = @ + 1]
  /\ UNCHANGED <<words, operands, phase, source, modules, written, given>>

EndStream ==
  /\ phase = "reading" /\ eof
  /\ written' = opts.snapshot_name
  /\ phase' = "exited"
  /\ UNCHANGED <<words, operands, opts, source, stream, modules, out, snapshot, given>>

CliNext ==
  \/ SkipOperand \/ ReadFlag \/ ReadArgument \/ ReadModules \/ ReadAttachedModule
  \/ Usage \/ Serve \/ Compare \/ NoOperand \/ DecodeArgument
  \/ StartStream \/ SkipEmptyLine \/ DecodeLine \/ EndStream

(* One thread that waits for nothing but its input. *)
CliSpec == CliInit /\ [][CliNext]_cliVars /\ WF_cliVars(CliNext)

(***************************************************************************)
(* Properties                                                              *)
(***************************************************************************)
Shown == At(out, {i \in DOMAIN out : out[i].column # "module"})
EndsLine(cell) == IF opts.output = "json" THEN cell.column = "close" ELSE cell.ends = "newline"
Cut == LET shown == Shown IN CutAfter(shown, {i \in DOMAIN shown : EndsLine(shown[i])})
Lines == Cut.pieces

Of(line) == Last(line).of
IsHeader(line) == Of(line) = HeaderText
SelectsParts == opts.fields \cap UrlFields # {}

(* faup_output: what is printed is a sequence of whole lines (objects, in  *)
(* JSON), each about one URL or the header, with a separator between two   *)
(* cells and none at the end.  In CSV all of them, the header included,    *)
(* have the same columns, whatever options were given in whatever order,   *)
(* unless -f came after -l (then rows have a number and the header has no  *)
(* column for it), or selected no part of a URL.                           *)
RowsAgree ==
  LET lines == Lines
      WholeLine(line) ==
        \A i \in DOMAIN line :
          LET inside == opts.output = "csv" \/ i \in 2 .. Len(line) - 2
          IN /\ line[i].column = "line" \/ line[i].of = Of(line)
             /\ line[i].ends = IF inside /\ i < Len(line) THEN "separator" ELSE "newline"
      ColumnsOf(line) == [i \in DOMAIN line |-> line[i].column]
  IN phase = "exited" /\ SelectsParts =>
       /\ Cut.rest = <<>>
       /\ \A k \in DOMAIN lines : WholeLine(lines[k])
       /\ opts.output = "csv" /\ (opts.print_line => "line" \in opts.fields) =>
            Cardinality({ColumnsOf(lines[k]) : k \in DOMAIN lines}) <= 1

(* The lines of a stream, as any other program counts them: they end with  *)
(* LF, or with CR LF, the last one perhaps not at all.                     *)
RegularStream ==
  /\ \A i \in DOMAIN input : input[i] = CR => i < Len(input) /\ input[i + 1] = LF
  /\ opts.empty_lines_processed =>
       input # <<>> /\ Last(input) # LF /\ \A i \in DOMAIN input : input[i] # CR

Bare(l) == IF l # <<>> /\ Last(l) = CR THEN Front(l) ELSE l
LinesOf(text) ==
  LET cut == CutAfter(text, {i \in DOMAIN text : text[i] = LF})
  IN Append([k \in DOMAIN cut.pieces |-> Bare(Front(cut.pieces[k]))], Bare(cut.rest))

Wanted(lines) == At(lines, {k \in DOMAIN lines : lines[k] # <<>> \/ opts.empty_lines_processed})

Expected ==
  LET wanted == Wanted(LinesOf(input))
  IN [k \in DOMAIN wanted |->
        [text |-> wanted[k], changed |-> Those(given, Transforms), placed |-> Those(given, Outputs)]]

Rows == LET lines == Lines IN At(lines, {k \in DOMAIN lines : ~IsHeader(lines[k])})
StreamIsOver == phase = "exited" /\ eof
ModulesClear == given # Unclear /\ ToSet(given) \cap Nils = {}

(* run_from_stream, readline, the options and the modules together: when a *)
(* stream is over there is one row for each of its lines that is not empty *)
(* (or for all, with -e), in order, made of that line as the modules of    *)
(* the command line, in its order, changed it; and so has the snapshot.    *)
(* With -e a stream that ends with a newline has one row too many, and one *)
(* with CR LF one for each line: see RegularStream.                        *)
EveryLineOnce ==
  StreamIsOver /\ RegularStream /\ ModulesClear =>
    /\ SelectsParts /\ ~opts.quiet /\ opts.output \in {"csv", "json"} =>
         LET rows == Rows IN [k \in DOMAIN rows |-> Of(rows[k])] = Expected
    /\ written =>
         LET e == Expected IN snapshot = [k \in DOMAIN e |-> [e[k] EXCEPT !.placed = <<>>]]

(* current_line: the number in front of a row is the number of its line in *)
(* the stream, unless empty lines are skipped before it (they are not      *)
(* counted, though "-l" is to give the number of the line).                *)
NumbersAreLineNumbers ==
  LET lines == LinesOf(input)
  IN /\ StreamIsOver /\ RegularStream
     /\ opts.print_line /\ opts.output = "csv" /\ SelectsParts /\ ~opts.quiet
     /\ opts.empty_lines_processed \/ \A k \in 1 .. Len(lines) - 1 : lines[k] # <<>>
    => LET rows == Rows
       IN \A k \in DOMAIN rows : rows[k][1].of = k /\ Of(rows[k]).text = lines[k]

(* main: every command line is read to its end, and so is every stream,    *)
(* unless -m has its argument in the same word (optind-- then goes back to *)
(* it for ever).                                                           *)
ToolEnds ==
  "-ma" \notin ToSet(words) => <>(phase \in {"exited", "serving"})
=============================================================================
