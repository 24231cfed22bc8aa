SPECIFICATION Spec
CONSTANTS
    Parts = {"join", "serial", "merge", "numa", "subqueue", "freelist", "hash", "token",
             "readerwriter", "blocking", "spsc", "global", "local", "flink"}
    NoView = NoView
INVARIANTS
    TasksExact
    QueuesExact
    BenchmarksExact
\* The inputs are finite, and the benchmark programs end.
CHECK_DEADLOCK FALSE
