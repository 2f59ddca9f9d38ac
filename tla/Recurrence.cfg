\* Three updates, two at once, over a winter with a short month.
SPECIFICATION CadenceSpec
CONSTANTS
  MonthLen <- Calendar
  FirstDow = 0
  Slots = 2
  MaxWindow = 40
  Clock <- Instants
  Unset = Unset
  Cadence <- Cadences
  Patch <- Patches
  Update = {u1, u2}
  MaxUpdates = 3
SYMMETRY Interchangeable
INVARIANT NextIsOnCadence
PROPERTIES ClaimMovesToNextRun WindowsAbut
CHECK_DEADLOCK FALSE
