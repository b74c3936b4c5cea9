CONSTANTS
  Servers = {aioquic, quiche}
  Checking = {quiche}
  Page = page
  Last = 3
  Unfit = {2}
  MaxFailures = 1
SPECIFICATION Spec
PROPERTIES
  ServicesAlwaysCatchUp
CHECK_DEADLOCK FALSE
