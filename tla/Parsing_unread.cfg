SPECIFICATION ParseSpec
CONSTANTS
  Maximum = 4
  Overlap = 2
  MaxPages = 3
  Timeout = 2
  MaxTable = 3
  Texts <- MCTexts
  Files <- MCFiles
  Profiles <- MCProfiles
CHECK_DEADLOCK FALSE
INVARIANT UnreadPagesAreRendered
