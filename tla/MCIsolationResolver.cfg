CONSTANTS
  fc = fc
  Level = {"kata-fc", "runc"}
  Class = {fc}
  Caller = {c1, c2}
  Plain = {"runc"}
  Policy = "FallbackToRunc"
  TTL = 1
  Stall = 1
  Builtin <- MCBuiltin
  Files <- MCFiles
  MaxChanges = 2
CHECK_DEADLOCK FALSE
SPECIFICATION Spec
INVARIANT TypeOK
INVARIANT AnswersWereTrue
INVARIANT NothingIsWeakerUnsaid
PROPERTY AnswersCatchUp
