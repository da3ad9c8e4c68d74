\* A plain run without the index, after the pins moved.
CONSTANTS
  Distributions = {contract, server}
  Client = client
  Releases = {r1, r2}
  Absent = absent
  MaxRuns = 2
SPECIFICATION Spec
PROPERTY PlainRunRemovesNothing
