\* The order of siblings, against the words of the API schema.
CONSTANTS
  Base = 2
  IDWidth = 2
  Users = {alice}
  Times = {1}
  MaxPosts = 1
  MaxComments = 3
SPECIFICATION Spec
INVARIANT CommentsNewestFirst
CHECK_DEADLOCK TRUE
