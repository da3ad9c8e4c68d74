\* A remark becomes the report.
CONSTANTS
  Required <- FullTask
  MaxNudges = 6
  MaxCalls = 6
CHECK_DEADLOCK FALSE
SPECIFICATION Spec
INVARIANTS ReportAnswersTheRequest
