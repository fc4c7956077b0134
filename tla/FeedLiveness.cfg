\* One post, a buffer of one, three comments by two requests and a subscription, whose client
\* may stop reading for ever.  The model stops when its bounds are reached and
\* the client has left.
CONSTANTS
  Posts = {p1}
  BufferSize = 1
  MaxSubs = 1
  MaxEvents = 3
  Writers = {w1, w2}
  MaxComments = 3
SPECIFICATION FeedSpec
PROPERTIES
  WritersFinish
  DepartureCleansUp
  ShutdownEndsTracked
CHECK_DEADLOCK FALSE
