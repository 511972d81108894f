SPECIFICATION Spec
CONSTANTS
  Verbatim = FALSE
  Members <- NoMembers
  Tasks <- MCTasks
INVARIANTS
  ReadAsWritten
  DeclaresAsWritten
  PrintedReadsBack
CHECK_DEADLOCK FALSE
