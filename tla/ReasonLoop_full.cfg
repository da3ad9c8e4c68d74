\* The whole task, six corrections, any six tool calls.
CONSTANTS
  Required <- FullTask
  MaxNudges = 6
  MaxCalls = 6
CHECK_DEADLOCK FALSE
SPECIFICATION FairSpec
INVARIANTS TypeOK RequestedInItsWindow SavedReportIsTheDraft UnfinishedWasCorrected
PROPERTIES DraftIsWrittenOnce RunEnds
