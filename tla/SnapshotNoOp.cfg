CONSTANT LogEntries <- MCPlainLogEntries
SPECIFICATION EntrySpec
INVARIANT SnapshotNoOp
