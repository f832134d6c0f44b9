CONSTANTS
    demo = demo
    demo_v2 = demo_v2
    Spaces <- MCSpaces
    Globbed <- MCGlobbed
    Contents = {c1, c2}
    MaxVersion = 2
    Absent = Absent
    Torn = Torn
SPECIFICATION Spec
INVARIANTS HistoryWellFormed UncopiedVersionsRestorable
PROPERTY ListedSnapshotsStable
SYMMETRY Symmetry
CHECK_DEADLOCK FALSE
