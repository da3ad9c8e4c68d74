\* One take of main with its reasoning node, to its end.
CONSTANTS
  Texts = {x1, x2}
  Recipients = {partner}
  Malformed = {}
  Destinations = {}
  Corpora = {documents}
  EmptyCorpus = documents
  Nothing = nothing
  MaxActs = 3
  Takes = {t1}
  Reporters = {}
  Callers = {}
  ApprovalRefs = {w1, w2, w3, w4}
  DecisionRefs = {d1, d2, d3}
  Lapses = TRUE
  Required <- FullTask
  MaxNudges = 2
  MaxCalls = 4
SPECIFICATION WholeFairSpec
INVARIANTS OneReport ReportFollowsTheWork
PROPERTIES RunsTheLoop EveryTakeEnds ApprovalReachesTheTake
