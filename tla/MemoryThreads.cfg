\* Two posts and four comments: threads of every shape of that size, replies to
\* replies, a parent of the other post, comments switched off and on.
CONSTANTS
  Base = 2
  IDWidth = 3
  Users = {alice, bob}
  Times = {1}
  MaxPosts = 2
  MaxComments = 4
SPECIFICATION Spec
INVARIANTS
  DepthCountsAncestors
  TreeKeepsThreads
PROPERTIES
  ImplementsForumStore
CHECK_DEADLOCK TRUE
