\* Two takes of main with the same questions, one approval apart.
CONSTANTS
  Texts = {report}
  Recipients = {partner}
  Malformed = {}
  Destinations = {}
  Corpora = {documents}
  EmptyCorpus = documents
  Nothing = nothing
  MaxActs = 1
  Takes = {t1, t2}
  Reporters = {}
  Callers = {}
  ApprovalRefs = {w1, w2}
  DecisionRefs = {d1, d2}
  Lapses = TRUE
SYMMETRY TakeSymmetry
SPECIFICATION Spec
INVARIANTS OneApprovalOneExecution NothingRan
PROPERTIES KeepsThePromise EntersOnlyOnAFreshAnswer
