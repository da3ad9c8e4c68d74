\* One script at a time, and a second start while a control plane is up.
CONSTANTS
  Scripts = {p1, p2, p3}
  NoProcess = none
  Unreadable = unreadable
  Habits = {"turns"}
CHECK_DEADLOCK FALSE
SPECIFICATION Spec
INVARIANTS NoDaemonIsOrphaned
