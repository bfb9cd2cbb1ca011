SPECIFICATION CliSpec
CONSTANTS
  MaxWords = 4
  MaxChars = 3
  Commands <- MCCommands
  Streams <- MCStreams
  Enabled <- MCEnabled
  LocalFiles = {"a", "b", "n"}
  Transforms = {"a", "b"}
  Nils = {"n"}
  Outputs = {"b"}
INVARIANTS RowsAgree EveryLineOnce NumbersAreLineNumbers
 
CHECK_DEADLOCK FALSE
