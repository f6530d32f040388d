SPECIFICATION GroupSpec
CONSTANT MaxGroups = 3
PROPERTIES EditsAreServed
CHECK_DEADLOCK FALSE
