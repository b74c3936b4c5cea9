CONSTANTS
  Servers = {aioquic, quiche}
  Checking = {quiche}
  Page = page
  Last = 3
  Unfit = {2}
  MaxFailures = 2
SPECIFICATION Spec
INVARIANTS
  InstalledIsChecked
PROPERTIES
  InstalledCatchesUp
  ServicesCatchUp
CHECK_DEADLOCK FALSE
