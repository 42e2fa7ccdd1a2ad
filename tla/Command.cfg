\* Root, a user and a group; up to two jobs in a pipeline; commands of up to four characters.
CONSTANTS
  Ids = {0, 1}
  JobNames = {x, y}
  Statuses = {success, failed}
  Success = success
  Missing = Missing
  MaxBuilds = 2
  MaxLine = 4
SPECIFICATION CommandSpec
INVARIANTS
  CommandTypeOK
  JobsAreTheMatching
  WordsOfCommand
  RunsAsConfigured
  RootOnlyExplicitly
