SPECIFICATION GroupSpec
CONSTANT MaxGroups = 3
INVARIANTS GroupTypeOK NeverStuck
PROPERTIES Settles
CHECK_DEADLOCK FALSE
