\* Four tables, directories three deep, a prompt with room for two; a ring of four rows of two characters;
\* lines of five characters with three arguments of three.
CONSTANTS
  Cmds <- MCCmds
  AppTables = {"t10", "t11", "t11b", "t13"}
  NAME_LEN = 3
  CMD_SIZE = 10
  STR_LEN = 30
  MAX_TBL = 4
  MAX_LEVEL = 4
  Masks = {0, 2}
  Paths <- MCPaths
SPECIFICATION MCSpec
INVARIANTS
  DirectoryExact LinesExact
