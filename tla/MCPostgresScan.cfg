\* Two requests and a reader on two connections: three posts, of times that repeat
\* and step back, or one post with three comments.  The third item is the one that
\* becomes visible late, ahead of the cursor or behind it.  With as many requests as
\* connections a second connection inside a transaction would block them all.
CONSTANTS
  Base = 2
  IDWidth = 2
  Requests = {r1, r2}
  Users = {alice}
  Times = {1, 2}
  MaxConns = 2
  MaxPosts = 3
  MaxComments = 3
  MaxFirst = 2
SPECIFICATION ScanSpec
INVARIANTS
  ScanInOrder
  ScanComplete
  ScanKeepsThreads
PROPERTIES
  CreatorsAnswered
CONSTRAINT PlainWrites
CHECK_DEADLOCK FALSE
