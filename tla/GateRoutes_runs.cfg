\* Runs of the gate over two environments, interrupted and failing anywhere.
CONSTANTS
  Distributions = {contract, server}
  Client = client
  Releases = {r1, r2}
  Absent = absent
  MaxRuns = 4
SPECIFICATION Spec
INVARIANTS GateInv IndexRecordIsTrue FullRunNamesItsRoute FindsOnlyWhatItDelivered
PROPERTY CheckoutsSurviveAPlainRun
