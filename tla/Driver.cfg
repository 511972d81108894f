SPECIFICATION DriverSpec
CONSTANTS
  Characters <- MCCharacters
  MaxWord = 12
  CommandLines <- MCCommandLines
INVARIANTS
  TokensStandWhereTheySay
  MaximalMunch
  OnlyBlanksSkipped
  RefusedTextIsIllegal
  NothingKeptBetweenFiles
  ExitStatusTellsFailure
PROPERTY ProgramEnds
CHECK_DEADLOCK FALSE
