SPECIFICATION Spec
CONSTANTS
  Kinds <- MCKinds
  MaxOps = 4
INVARIANTS ReplaysTheLedger NothingLeftToApply
PROPERTIES HistoryIsFinal
