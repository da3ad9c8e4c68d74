\* Three invocations of the scripts, one after another and all at once.
CONSTANTS
  Scripts = {p1, p2, p3}
  NoProcess = none
  Unreadable = unreadable
  Habits = {"careful", "any"}
CHECK_DEADLOCK FALSE
SPECIFICATION FairSpec
INVARIANTS TypeOK CarefulOrphansNothing ResetKeepsNothing
PROPERTIES RemovesOnlyOverTheDead ResetEnds
