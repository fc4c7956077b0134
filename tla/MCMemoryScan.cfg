\* Four posts under a clock that stands still, advances or steps back, or one post
\* with five comments: created before, between and after the pages, with the
\* argument first absent or above the cap.
CONSTANTS
  Base = 2
  IDWidth = 3
  Users = {alice}
  Times = {1, 2}
  MaxPosts = 4
  MaxComments = 5
  DefaultFirst = 1
  MaxFirst = 2
  Firsts = {0, 3}
SPECIFICATION ScanSpec
INVARIANTS
  PostsMirrorIndex
  ScanInOrder
  ScanComplete
  ScanKeepsThreads
CONSTRAINT OnePostWithComments
CHECK_DEADLOCK TRUE
