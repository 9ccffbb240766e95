\* Two releases; runs, faults, interruptions and reboots without a bound.
SPECIFICATION Spec
CONSTANTS Release = {r1, r2}
CHECK_DEADLOCK FALSE
INVARIANTS OldBinaryKept RestoredIsPrevious UpdatedIsEarned InstallsWhole
