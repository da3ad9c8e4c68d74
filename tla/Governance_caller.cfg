\* A program resumes a run at will and merges other state into it.
CONSTANTS
  Texts = {x1, x2}
  Recipients = {partner}
  Malformed = {}
  Destinations = {}
  Corpora = {documents, empty}
  EmptyCorpus = empty
  Nothing = nothing
  MaxActs = 1
  Takes = {t1}
  Reporters = {}
  Callers = {t1}
  ApprovalRefs = {w1}
  DecisionRefs = {d1}
  Lapses = TRUE
SPECIFICATION Spec
INVARIANTS GovernanceInv ExecutedAsApproved
PROPERTY EntersOnlyOnAFreshAnswer
