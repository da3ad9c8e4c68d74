\* A check and then a run of the same machine, over every short file. A model takes
\* three settings and a key four: two of them set, two of them in the file.
CONSTANTS
  Values <- NamesAndValues
  NoWord = noword
  Unset = unset
  MaxCaller = 2
  MaxLines = 2
SPECIFICATION Spec
INVARIANTS TypeOK CallerThenFirstLine OneAddress ReadyStarts NothingIsSubstituted
CHECK_DEADLOCK FALSE
