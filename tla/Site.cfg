CONSTANTS
  Off = Off
  Ports = {1, 2}
  MaxRequests = 2
  MaxMishaps = 1
  Admins = {a1, a2}
  Upkeep = upkeep
  Names = {"x", "y"}
  First = "x"
  Uploads = {{"x"}}
  MaxChanges = 3
  MaxWeeks = 1
  MaxFaults = 1
SPECIFICATION Spec
PROPERTIES PortSafe AccessSafe
CHECK_DEADLOCK FALSE
SYMMETRY Symmetry
