\* Two subscriptions, two requests at a time, two comments on two posts and
\* room for one event: overtaking publications, full channels, departures.
\* The bounds let every client leave and every comment be published: then the
\* model stops.
CONSTANTS
  Posts = {p1, p2}
  BufferSize = 1
  MaxSubs = 2
  MaxEvents = 2
  Writers = {w1, w2}
  MaxComments = 2
SPECIFICATION FeedSafetySpec
INVARIANTS
  RegistryExact
  NeverPanics
  EventsInOrder
  SubscriptionsMatchRegistry
  NoCommentMissed
SYMMETRY Symmetry
CHECK_DEADLOCK FALSE
