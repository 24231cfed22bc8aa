SPECIFICATION Spec
CONSTANTS
    Parts = {"merge"}
    NoView = NoView
INVARIANT MergedWindowsExact
\* The inputs are finite.
CHECK_DEADLOCK FALSE
