\* Two requests at a time, two connections, two posts of two users and two
\* comments: ids that become visible out of order, a switch during a transaction,
\* failures at every statement.  The model stops when the ids have run out.
CONSTANTS
  Base = 2
  IDWidth = 2
  Requests = {r1, r2}
  Users = {alice, bob}
  Times = {1}
  MaxConns = 2
  MaxPosts = 2
  MaxComments = 2
SPECIFICATION SafetySpec
INVARIANTS
  CommentsWhole
  AnswersMatchRows
  NoFalseRefusal
PROPERTIES
  ImplementsForumState
SYMMETRY Symmetry
CHECK_DEADLOCK FALSE
