SPECIFICATION Spec
CONSTANTS
  MaxSlots = 3
  MaxDisplay = 2
  MaxEdits = 3
  MaxFilters = 1
INVARIANTS TypeOK Owned Wired
CHECK_DEADLOCK FALSE
