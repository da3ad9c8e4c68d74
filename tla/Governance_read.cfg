\* The corpus changes between the ask and the read.
CONSTANTS
  Texts = {x1}
  Recipients = {partner}
  Malformed = {}
  Destinations = {}
  Corpora = {full, fuller, empty}
  EmptyCorpus = empty
  Nothing = nothing
  MaxActs = 1
  Takes = {t1}
  Reporters = {}
  Callers = {}
  ApprovalRefs = {w1}
  DecisionRefs = {d1}
  Lapses = FALSE
CHECK_DEADLOCK FALSE
SPECIFICATION Spec
INVARIANTS DoneAsDecided
