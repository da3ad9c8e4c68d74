\* One take of main through a whole run: read, write, send, in any order.
CONSTANTS
  Texts = {x1, x2}
  Recipients = {partner, nobody}
  Malformed = {nobody}
  Destinations = {drop}
  Corpora = {full, empty}
  EmptyCorpus = empty
  Nothing = nothing
  MaxActs = 3
  Takes = {t1}
  Reporters = {}
  Callers = {}
  ApprovalRefs = {w1, w2, w3}
  DecisionRefs = {d1, d2, d3}
  Lapses = FALSE
  Capacity = 2
SPECIFICATION StreamSpec
INVARIANTS StreamTypeOK ReaskIsTheSameAsk SendDeliversTheSavedReport ArtefactNamesItsDecision NothingOwed GapsAreDeclared FileAccountsForEveryAct
