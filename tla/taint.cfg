\* Straight lines, branches, a loop, library calls and selects.
CONSTANT Programs <- Families
SPECIFICATION RunSpec
INVARIANTS TypeOK NoMissedFlow NothingInThePast TaintFollowsControl
PROPERTIES AbstractSpec SearchEnds
CHECK_DEADLOCK FALSE
