# Formal model of the forum API

TLA+ specifications of the Go program in `src/`: a forum with posts, threaded
comments, a GraphQL API with subscriptions, and a memory or PostgreSQL store.
TLC checks small instances of every module; TLAPS proves the theorems listed
below for all values of the constants.

* [1 The system](#1-the-system)
* [2 Modules](#2-modules)
* [3 Runs](#3-runs)
* [4 Proofs](#4-proofs)
* [5 What the code and its documents disagree on, and other observations](#5-observations)
* [6 What is not modelled](#6-what-is-not-modelled)
* [7 Plan](#7-plan)

## 1 The system

A request comes through `http.Server` and a chain of middleware. `/auth/login`
creates or finds a user and signs a session; `/graphql` runs queries, mutations
and, over websockets, subscriptions. Resolvers call the forum service; the
service checks its arguments, calls one of two stores, and publishes a comment
that the store reports as stored to the broadcaster.

```
 client ── http/middleware ── auth ──────────── AuthService ──┐
                         └─── graphql resolvers ─ ForumService ├── store: memory | postgres ── pool
                                │    │                │        │
                                │    └ userLoader ────┼────────┘   (author fields)
                                └ subscriptions ── Broadcaster     (events)
 shutdown.Manager ── http.Server, Resolver (subscriptions, loader), store
```

| Component | State | Operations | Hard behaviour | What makes it correct |
|---|---|---|---|---|
| memory store (`store/memory`) | posts and comments twice: a map by id and slices in listing order; counters; one RWMutex | create post, switch comments, create comment, list with a cursor | two copies of each post; a clock that steps back; insertion by binary search on string paths; pages between writes | both copies agree; listings keep their order; threads survive the order and the tree; scans lose and repeat nothing |
| forum service (`service/forum.go`) | none | argument checks, clamp of `first`, store call, then publish if it succeeded | the gap between the store's lock and the publication; an error for a comment that is stored | every refusal has its reason; no comment that was reported stored falls between the two |
| domain (`domain/tree.go`) | none | `BuildCommentTree` | one pass that relies on the order of its input | the tree has the threads of the listing |
| notifier | `subs`: post → id → channel; `seq`; a mutex | `Subscribe`, unsubscribe, `Publish` | close against send; slow receivers; nested maps | registry exact; no panic; order kept; drops only from a full buffer |
| subscriptions (`graphql/resolver.go`, `schema.resolvers.go`) | map of cancel functions; a goroutine, a watcher and three deferred calls per subscription | start, pass events, leave, Shutdown | clients that never read; departure or Shutdown between any two steps | nothing is left behind; no request waits for a client |
| user loader (`graphql/loaders.go`) | pending calls, timer, flight, `closed` | `Load`, `flush`, `Shutdown` | a timer that has fired and waits for the lock; Loads during a flight; Shutdown against both | one flight; no orphan; no stale answer; Shutdown drains |
| executor (`graphql/generated.go`) | per operation: values, errors, counters of deferred groups | run the fields of an object at once or in order, let nulls rise, deliver responses | fields that fail in any order; nested deferred groups against the reader of responses; mutations with effects whose response is lost, or hidden by an error | data and errors account for each other; mutations in order; `hasNext` true; every operation answered |
| postgres store | rows; transactions, row locks, identity sequences, a bounded pool | the same calls in one to five statements; listings in one or two | interleaved statements, lost connections, an unknown commit, rows visible out of order, pages between commits | the rows change like the abstract state; answers tell the truth; nobody waits for ever for a connection; scans lose only what was late |
| login and sessions | users, the signing secret | get-or-create, sign, verify; restart | two first logins of one name; a restart that loses the users but not the secret | one user per name; a session names its user |
| start, retry, middleware, health (`retry`, `http`, `cmd/api`) | the loop of `retry.Do`; per request the headers, the status and what was sent | ping until the database answers; the chain around every handler; readiness | a delay that wraps; a panic at any point of an answer; dependencies that change while they are checked | it serves only on a store that answered; header, answer and access log agree; readiness is true |
| shutdown manager (`shutdown/manager.go`, `cmd/api/main.go`) | the registered services, one deadline | wait for a signal, stop http, graphql, store | requests in hand, websockets that the server does not wait for, services that ignore the deadline | nothing is used after its end; the process ends |
| scalar, error codes, configuration, logging, JSON | none between requests | conversions and I/O | | not modelled, section 6 |

The list of hazards with their lines is in `PROJECT.json`.

## 2 Modules

| Module | Models | State | Uses |
|---|---|---|---|
| `Slices` | what the program uses of the Go library and of SQL: powers and numerals, string order, `sort.Search`, insertion, loops that append, `ORDER BY` | none | |
| `Threads` | `Depth`, ancestors, depth-first order, `BuildCommentTree` | none | `Slices` |
| `Paths` | the path that a store gives a comment, padded ids and dots | none | `Threads` |
| `ForumState` | what the store interfaces promise: posts, comments and listings, with no word on how | `posts`, `feed`, `comments`, `thread` | `Threads` |
| `ForumStore` | the same with the answer of every call | `reply` | `ForumState` |
| `MemoryStore` | memory store with the checks of the service | `core` field by field | `Paths`; implements `ForumStore` |
| `MemoryScan` | a client that pages while others write | the client's cursor and items | `MemoryStore` |
| `PostgresStore` | the writing calls of the postgres store, statement by statement | committed rows, sequences, one record per request | `Paths`; implements `ForumState` |
| `PostgresScan` | a client that pages while transactions commit | the client's cursor and items | `PostgresStore` |
| `Broadcaster` | `notifier.Broadcaster` | registry, channels with their history | |
| `CommentFeed` | `CreateComment` from the answer of the store on, subscriptions, `Resolver.Shutdown` | requests, goroutines, tracked cancel functions | composes with `Broadcaster` |
| `UserLoader` | the loader, its timers and Shutdown | fields of `userLoader`, goroutines, calls | |
| `Lifecycle` | requests that need the loader, `shutdown.Manager.run` over http server, resolver and store | handlers, signal, deadline, services stopped | extends `UserLoader` |
| `Executor` | one GraphQL operation as gqlgen's code runs it over this schema | values by position, errors, deferred groups, responses | |
| `Login` | `AuthService.Login` over both stores, tokens, restarts | users, tokens, secret | |
| `Retry` | `retry.Do` and its delays | loop variable, outcome | |
| `Server` | the start of the process, the middleware of every request, readiness | dependencies, one record per request | extends `Retry` |
| `DataProofs` | lemmas about the operators of `Slices` and `Threads`, and about paths | | `Threads` |
| `*Proofs` | theorems (section 4) | | the modules they are about, `DataProofs` |
| `MC*` | for TLC: symmetry sets, constraints, the operations of `MCExecutor` | | |

How the code became actions:

* **A critical section is a step.** The stores, the broadcaster and the loader
  do everything under one mutex; what happens outside it (the query of the
  loader, the closing of its calls, waits on channels, a publication after the
  store call) is a step of its own. `Publish` sends to all its channels in one
  step: only receivers run beside it, each on its own channel.
* **Paths are sequences of digits.** `Base` and `IDWidth` stand for 10 and 19.
  The runs use base 2 so that ids of different lengths occur with a handful of
  comments. The dot is a character below every digit, as in ASCII.
  PostgreSQL sorts the paths by the collation of its database (the migration
  names none); the model takes the order of bytes, as Go does.
* **The clock** of the memory store is any member of `Times` at each call:
  `time.Now().UTC()` drops the monotonic reading.
* **A `userCall` is named by the Load that made it**, a flight by the flush that
  runs it, and `flightDone` by the flight that will close it.
* **PostgreSQL** is READ COMMITTED. What a transaction has written stays in the
  record of its request until it commits. The conflict that matters is in
  `ShareHolders`: the UPDATE of `SetCommentsAllowed` waits for every transaction
  that has read the post `FOR SHARE`. The share lock on the parent and the key
  locks of foreign keys are left out: no statement of the program conflicts with
  them. `Fail` ends a call at any statement; `Reported` lets a commit succeed and
  look failed.
* **An error of the postgres store says nothing of its effect.** `Commit` may
  return an error after the server has committed (`pg/tx.go:28`), and so may a
  statement that commits by itself (`store/postgres/posts.go:18`, `:81`). Three modules have
  this. In `PostgresStore` it is `Reported`; a call whose commit outlives its
  answer is one that lasts until then. In `CommentFeed` it is `StoreUnanswered`: the
  comment is stored, and `CreateComment` returns the error without publishing
  (`service/forum.go:88`). In `Executor` the operation names its `store`: over
  `"postgres"` a mutation that reports an error may take effect with it (`Fail`) or
  later (`TakeEffectLate`), over `"memory"` never. `CommentFeed` does not tell the
  stores apart: over the memory store `StoreUnanswered` does not occur.
* **A page of the postgres store** is one statement for posts and two for
  comments (`GetPost`, then the listing), each on a connection and a snapshot of
  its own. A statement sees what was committed before it.
* **A position of a response** in `Executor` is the path of selected names and
  the number of the list element. A field is a step when it has a resolver;
  scalars read from an object have their value with the object. A selection has
  at most one `@defer` label per object. The deferred fields of an event of a
  subscription are computed, and no response has them.
* **A handler** in `Server` is what it may do to the `ResponseWriter`: write a
  header or a body, take over the connection, panic or return, in any order.
* **History variables**: `sent`, `dropped` and `taken` of a channel, `failed` comments of
  the feed, `known` of a Load, `reasons` of a request, `owed` of a scan, `late`, `tokens`, `waits`
  and `reached` of the retry, and the last four fields of a request of `Server`. They
  are read only by properties and mutants.

Abstract specifications: `MemoryStore` implements `ForumStore` (state and
answers); `PostgresStore` implements `ForumState`. `ForumState` states the
depth-first listing from the parent links alone, without paths, so the
refinement is what shows that the order of paths as strings, with its padding
and its dot, gives that listing. The answers of `PostgresStore` are not those of
`ForumStore`: a call that spans several statements may be refused for a reason
that held at one of them and not at another, or be told "failed" although it
had its effect. `NoFalseRefusal` and `AnswersMatchRows` say what does hold.

## 3 Runs

Bounds are named in the modules (`MaxPosts`, `MaxEvents`, ...) and given in the
`.cfg` files, each of which says what the instance contains.

| Run | Instance | Properties and what they show |
|---|---|---|
| `memory_threads` | 2 posts of 2 users, 4 comments | `DepthCountsAncestors`, `TreeKeepsThreads`, and `ImplementsForumStore`: listings stay depth first and every refusal has its reason |
| `memory_comment_order` | 1 post, 3 comments | violation: siblings are not listed newest first (section 5) |
| `memory_scan` | 4 posts without comments or 1 post with 5, 2 clock values, `first` absent or above the cap | `PostsMirrorIndex`: both copies of a post agree under a clock that steps back; `ScanInOrder`, `ScanComplete`: a scan repeats and loses nothing; `ScanKeepsThreads`: no page shows a reply before its parent |
| `comment_feed` | 2 posts, 2 subscriptions, 2 requests, 2 comments, buffer of 1 | `RegistryExact`, `NeverPanics`, `EventsInOrder` (order of publication, drops only behind a full buffer), `SubscriptionsMatchRegistry`, `NoCommentMissed`: of the comments stored under a subscription only drops, and those whose request was told of a failure, do not reach it |
| `feed_liveness` | 1 subscription, 3 comments by 2 requests | `WritersFinish`, `DepartureCleansUp`, `ShutdownEndsTracked`: requests whose comment was reported stored finish; departures and Shutdown leave nothing |
| `user_loader` | 3 Loads, 2 users, 3 timers | `SingleFlight`, `NoOrphan`, `KnownUserFound`, `ShutdownQuiesces` |
| `lifecycle` | 1 request and 1 websocket operation, 2 timers | `StopsAfterUse`, `RequestsAnswered`, `ProcessExits` |
| `postgres_store` | 2 requests, 2 connections, 2 posts, 2 comments | `ImplementsForumState`: rows refine the abstract state; `CommentsWhole`, `AnswersMatchRows`, `NoFalseRefusal`: answers are true |
| `postgres_scan` | 2 requests and a reader, 2 connections, 3 posts or 3 comments of one post | `ScanInOrder`, `ScanComplete`, `ScanKeepsThreads` where rows become visible behind the cursor; `CreatorsAnswered`: a pool with no more connections than requests suffices |
| `login` | 3 requests, 2 names, 4 ids, 1 restart | `OneUserPerName`, `LoginFindsItsUser`, `SessionNamesItsUser` |
| `executor` | 11 operations over every type of the schema, mutations over either store, lists of 0 to 2, 2 events | `ResponseTruthful`, `HasNextTruthful`, `MutationsSerial`, `OperationAnswered` |
| `server` | 8 attempts, delays of 8 bits, 2 requests, 2 dependencies | `StartsOnItsStore`, `AnswersAccountedFor`, `ReadinessTruthful` |

Why the bounds suffice: four comments give every shape of thread with a reply
to a reply beside a later sibling, and ids of one to three binary digits; five
comments with pages of one or two give insertions before, at and behind the
cursor. `OnePostWithComments` in `MCMemoryScan` lets posts be many or comments
be many, for a scan reads one listing only. In `postgres_scan` the third item is
the late one: it may become visible ahead of the cursor or behind it, after two
that may have been read in pages of one. Its constraint `PlainWrites` leaves out
the switch and failing statements, which `postgres_store` has and which no
listing tells apart. The hazards of the loader need a flight, a Load during it,
a fired timer and Shutdown: three Loads and timers. The order of shutdown shows
with one request that the server waits for and one websocket that it does not.
One subscription that overflows beside one that keeps up needs two subscriptions
and one event more than the buffer. A conflict of statements needs two requests;
a lost first login needs two, and a third comes after them. One timer per Load is
enough, since a timer is made only by a Load or for calls that came during a
flight. The operations of `executor` have lists, nested objects, groups inside
groups, a group at a root field, three mutations over each store with and without a failing
argument between two of them, and one selection over the complexity limit; with two elements one may fail beside
one that does not. Eight attempts in `server` pass the cap of the shift, and the
eight bits would wrap without it; two dependencies let one fail and not the
other. Each property has a mutant, a plausible error of the code, with which the
same instance violates it.

`CHECK_DEADLOCK FALSE` stands in the runs whose model ends when its bounds are
used up. The others never stop, because refused calls stay possible.

### Fairness

* `CommentFeed`: the Go scheduler runs every goroutine that can run (weak
  fairness of each step of a goroutine, of publishing and of Shutdown). `Leave`
  is enabled for good once the context is done. Its rivals in the `select` are
  `TakeEvent` and `PassOn`; weak fairness is enough since Leave stays enabled in
  both places. It is not assumed that clients read, leave or come.
* `Lifecycle`: while the process lives, timers fire (the one of the deadline
  too), goroutines run, handlers that have their user respond, and queries come
  back with users or an error (a flight uses `context.Background()` with no
  deadline, so this is an assumption on the database). No request need come, no
  client cancel, no signal arrive.
* `PostgresScan` (for `CreatorsAnswered`): statements return, `FOR SHARE` waits
  for nobody in this model (an UPDATE is one step), and the pool is first come,
  first served, which gives strong fairness of `Acquire` and of `Explain` where
  connections come and go. `UpdatePost` has weak fairness only: PostgreSQL
  promises no turn to an UPDATE among overlapping share locks, so only the
  creating calls are claimed to be answered. Nothing makes a client read on.
* `Executor`: resolvers return, the goroutines of fields and groups run, and the
  transport takes the responses that it reads at all (one over http, every one
  over a websocket). No event of a subscription need come.

## 4 Proofs

Every safety property of a passing run, and both refinements, are theorems:
for every value of the constants, from the assumptions that the modules name.
So are some facts that no run states because they follow from the same
invariants: that history stays, that answers are final, and, of what a liveness
property promises, the half that is a safety property: something can always go on.
An assumption on a constant says what the code fixes (a buffer of at least one,
a numeral with room for the largest id) and nothing of how steps interleave.
Each invariant is proved of the module's own `Next`, with one step per action;
the last step of a theorem is the temporal one.

### `DataProofs`: facts about data

Numbers and numerals, strings, slices, queries, threads and the paths that order
them: facts about the operators of `Slices` and `Threads`. The prover has no induction rule
that could be used here, so induction is done on sets: `FirstNatural` (a
nonempty set of naturals has a first element) follows from the well-foundedness
of finite sets under inclusion, and gives `Induction`, `StrongInduction` and
`Recursion`, that a recursive function on the naturals is what its equations
say. The lemmas on which the theorems below rest most:

* `SearchFirstFacts`, `InsertAtFacts`, `InsertKeepsOrdered`: the binary search
  and the insertion of the code keep any slice sorted by any transitive order.
* `FilterFacts`, `OrderByFacts`: what a loop that appends, and an `ORDER BY`, return.
* `DigitsKeepOrder`: numerals of one width sort as strings like their numbers.
* `PathOrderIsDepthFirst`: if every path is that of the parent, a dot and the
  padded id, and ids grow from parent to reply, then any list in the order of
  its paths is depth first, told from the parent links alone.
* `DotsCountAncestors`: the dots of a path are as many as the comments above it.

### `MemoryProofs`

For any users and bounds, any clock and ids of any width, from
`MemoryAssumption`, `PathAssumption` and, for the pages, `ScanAssumption`:

| Theorem | States |
|---|---|
| `BothCopiesAgree` | `Spec => []PostsMirrorIndex` |
| `DepthIsTrue` | `Spec => []DepthCountsAncestors` |
| `RepliesFindTheirParents` | `Spec => []NoReplyBecomesRoot`: in every listing a reply comes after its parent |
| `TreesKeepThreads` | `Spec => []TreeKeepsThreads` |
| `StoreKeepsItsPromise` | `Spec => ImplementsForumStore`: the refinement, with every answer |
| `ScansGoForward` | `ScanSpec => []ScanInOrder` |
| `ScansMissNothing` | `ScanSpec => []ScanComplete` |
| `ScansKeepThreads` | `ScanSpec => []ScanKeepsThreads` |
| `HistoryIsKept` | `Spec => [][HistoryKept]_vars`: nothing listed goes, changes (but for the switch of a post) or changes places |

`StoreInv` has three parts. `PostsInv` is `Mirrored`: the slice holds the posts
of the map and no others, strictly newest first. `ThreadsInv` is about the map of
comments: a reply is younger than its parent, in the same post, and has the
path that the parent gives it. `ListingInv` says of every listing that it holds
the comments of its post in the map, in the order of their paths. With
`PathOrderIsDepthFirst` this is what `ForumStore` promises; each call is then
shown to be the abstract call with the same answer, and a refusal to have its
reason. `TreesKeepThreads` rests besides on the pass of `BuildCommentTree`: since a
parent comes before its replies, no reply becomes a root.

A scan adds `ScanInv`: the items seen are in the order of the listing, no item
twice; the cursor is the key of the last of them; each item that is owed has
been seen or is ahead of the cursor; and a comment seen has all that it is below
seen before it. The last part is the one that a page could break: a parent
written after the cursor had passed its place would be missed. It holds because
a path that extends another is greater, and a page has everything between.

### `PostgresProofs`

For any requests, users, connections and bounds, from `PostgresAssumption`,
`PathAssumption` and, for the pages, `PageAssumption`:

| Theorem | States |
|---|---|
| `CommentsStayWhole` | `SafetySpec => []CommentsWhole` |
| `AnswersAlwaysMatch` | `SafetySpec => []AnswersMatchRows` |
| `RefusalsHaveReasons` | `SafetySpec => []NoFalseRefusal` |
| `SwitchedOffMeansOff` | `SafetySpec => [][OnlyWhereAllowed]_vars`: a comment becomes visible only while its post allows comments |
| `StatementsKeepThePromise` | `SafetySpec => ImplementsForumState`: the refinement |
| `PagesGoForward` | `ScanSpec => []ScanInOrder` |
| `PagesMissNothing` | `ScanSpec => []ScanComplete` |
| `PagesKeepThreads` | `ScanSpec => []ScanKeepsThreads` |
| `HistoryIsKept` | `SafetySpec => [][HistoryKept]_vars`: no committed row goes, changes (but for the switch) or changes places |
| `PoolNeverStuck` | `SafetySpec => []NeverAllWait`: of the calls under way one can always go on |

`StoreInv` says of every call, besides its types, what its transaction has
learned and may still rely on: `LockInv` (a post read `FOR SHARE` is still
switched on), `ParentInv` (its parent is still there, with the path that was
read), `IDInv` (nobody sees the id before the commit), `AnswerInv` and
`ReasonInv`. `DistinctIDs` keeps two calls from writing one row. The lemma
`CallOutlives` is the rely condition: what one step does to the rows leaves every
other call as it was, provided that no locked post is switched and no id reused,
and this is what `ShareHolders` and the sequences give.

`ThreadsInv` is what the threads need: a row answers a smaller id, although
rows become visible in any order, for a parent is read committed before the id
of its reply is taken; a call that writes has the path of what it asked for; and the
sequences never hand out more ids than the bounds allow (`Roomy`). The listings
are functions of the rows, so the commit of a row inserts it into one of them,
at a place that `PathOrderIsDepthFirst` makes depth first, and every other step
leaves them alone: that is `StatementsKeepThePromise`. `ScanInv` is that of the
memory store with a weaker claim on threads: with each comment seen its parent
is seen, since a visible reply has a visible parent and the parent has the
smaller path.

`HistoryIsKept`, in both stores, says that the ids of a listing before a step
are a subsequence of those after it (`EmbedsIn`), which an insertion at any
place keeps (`InsertAtKeepsOrder`). `PoolNeverStuck` takes the waits in order:
who waits for a row lock waits for a transaction, who waits for a connection
waits for a call that holds one, and a transaction, once begun, waits for
nothing; a call that took a second connection inside its transaction would
break the proof for a pool of one.

### `FeedProofs`

For any posts, requests, buffer and number of comments, events and
subscriptions, from `BroadcasterAssumption`. Of the broadcaster by itself:

| Theorem | States |
|---|---|
| `BroadcasterTypeCorrect` | `BroadcasterSpec => []BroadcasterTypeOK`, the buffer bound among it |
| `RegistryAlwaysExact` | `BroadcasterSpec => []RegistryExact` |
| `PublishNeverPanics` | `BroadcasterSpec => []NeverPanics` |
| `EventsAlwaysInOrder` | `BroadcasterSpec => []EventsInOrder` |

and of requests, subscriptions and Shutdown around it:

| Theorem | States |
|---|---|
| `FeedRunsBroadcaster` | `FeedSafetySpec => BroadcasterSpec`: the theorems above hold in the feed |
| `FeedKeepsEventsInOrder` | `FeedSafetySpec => []EventsInOrder`, by that step |
| `SubscriptionsAlwaysMatch` | `FeedSafetySpec => []SubscriptionsMatchRegistry` |
| `NoCommentFallsThrough` | `FeedSafetySpec => []NoCommentMissed` |
| `CommentsPublishedOnce` | `FeedSafetySpec => []OneEventEach`: one event for each comment that was reported stored, none for the others; to its post only, none twice to a subscription |
| `LeaversNeverStuck` | `FeedSafetySpec => []LeaversMayGo`: after its client has left, a subscription always has a step of its own |

`RegistryInv` is `BroadcasterTypeOK /\ RegistryExact /\ NeverPanics`: that no
send meets a closed channel rests on the registry holding open channels only,
and that no second close happens rests on the `sync.Once` being consumed exactly
when the channel is closed. `EventsInv` says of each channel that nothing sent
to it or dropped is of an event to come, that what is delivered and what is
waiting, in this order, are what was sent less what was dropped, and that a drop
stands behind a full buffer; a send appends to both sides of the equation and a
receive moves the boundary.

`FeedInv` adds to `RegistryInv` the types, `GoroutineInv` (a channel is open
exactly until the goroutine of its subscription has unsubscribed) and
`PublicationInv`: each comment stored since a subscription began was sent to it,
is in the hands of a request, or is in `failed`. `sent` records drops too, which is why it
says that the comment was offered, not that it arrived.

`CommentsInv` follows a comment from the store to its event: it is held by the
one request that stored it, until that request publishes it and lets go. One
whose request was told of a failure is held by nobody and has no event.
`SentInv` says that the events of a channel grow and are of comments on its post.
`DepartInv` joins the three facts that a departure passes through: the request's
context, `subCtx` and the closing of `out`.

### `LifecycleProofs`

First the loader by itself, for any sets of Loads, users and timers, from
`LoaderAssumption` (the names are distinct):

| Theorem | States |
|---|---|
| `TypeCorrect` | `SafetySpec => []TypeOK` |
| `OneFlightAtATime` | `SafetySpec => []SingleFlight` |
| `NoCallOrphaned` | `SafetySpec => []NoOrphan` |
| `ShutdownLeavesNothing` | `SafetySpec => []ShutdownQuiesces` |
| `NoFalseNotFound` | `SafetySpec => []KnownUserFound` |
| `NoCallClosedTwice` | `SafetySpec => []CallsClosedOnce`: no second close of a `done` channel |
| `AnswersAreFinal` | `SafetySpec => [][AnswersKept]_vars`: an answered call and a returned Load stay as they are |
| `NoLoadForgotten` | `SafetySpec => []WaitersServed`: a Load that waits is answered, in a batch, or pending for a flush that comes |
| `ShutdownAwaitsAFlight` | `SafetySpec => []FlightAwaited`: the flight Shutdown waits for is under way or over |

The invariant is in three parts. `FlightInv` joins the types, `SingleFlight` and
`NoOrphan` with two strengthenings. `TimerInv`: the timer in `l.timer` is the
only one armed or fired, and exists only between flights, except for a timer
that had fired when Shutdown took the lock. Without it a flush could find a
flight it does not know of. `CloserInv`: after `closed` a flight that leaves
calls behind is the one Shutdown awaits. `FreshInv` is about answers. `CallInv`:
a pending call is open, carries the id it is pending under and is in no batch;
`AnswerInv`: the query of a batch is made after the last Load that can join it.
Together they exclude a "not found" for a user known when the Load began.
`OnceInv` and `WaiterInv` are about calls: those in the batch of a flush that has
yet to answer are open; a Load waits on a call that is answered, in such a batch,
or pending for its user. What is pending has somebody to take it by `NoOrphan`.

Then the process, for any requests and websockets, from `LifecycleAssumption`
and that of the loader:

| Theorem | States |
|---|---|
| `ProcessRunsLoader` | `LifeSafetySpec => SafetySpec`: the loader's theorems hold in the process |
| `ServicesOutliveTheirUse` | `LifeSafetySpec => []StopsAfterUse` |

`LifeInv` adds `ManagerInv` to `FlightInv`: the loader is closed only from the
turn of the resolver on, and its shutdown is complete once that turn is over;
the server's turn ends within the deadline only without an open request. The
last part, that no flight is left for a closed store, then follows from
`ShutdownQuiesces`.

### `ExecutorProofs`

For every set of operations that document validation admits, of any size and
depth, from `OperationsAssumption`: names are those of the schema, below a
selected field only fields of its type are selected, root fields are distinct,
and a subscription has one.

| Theorem | States |
|---|---|
| `ResponsesAreTruthful` | `Spec => []ResponseTruthful`: over postgres with the doubt that an error leaves |
| `MutationsRunSerially` | `Spec => MutationsSerial`: an action property |
| `HasNextIsTrue` | `Spec => []HasNextTruthful` |
| `NoErrorIsLost` | `Spec => []EveryErrorReported`: a response stays the whole truth about its group, and in the end every failure is in one |
| `OperationNeverStuck` | `Spec => []AnswerNeverStuck`: until the operation has ended a field can move, a group is done or the response is due |

The argument is about the tree of values. `Tree`: a value that is no root hangs
from the one above it, which began before it, does not end before it unless it
is deferred, and is not "ok" above a null that counts. `Blamed` and `Fallen`:
a null that counts has an error in its own group, and an error has its null. By
induction on the `Height` of a position each value `Stands` below one of the
values that its group is due with (`EveryValueStands`). So a group that is due
has ended as a whole, and its response has lost its data exactly if one of its
fields has failed. `Candid` carries this over to the responses already given.
`Effective` adds for mutations that the store has carried out the root fields that
have succeeded, once and in their order, and besides only `Doubtful` ones, whose
error may hide an effect; a response has the errors of the root fields for good,
so that a late effect is still one of those it left in doubt; `Announced` adds for queries that
the two counters are the deferred groups that have begun and those not yet
delivered, which is what `hasNext` is computed from. `Core` has the types and
what each phase implies.

`Reported` adds that a delivered response has all the errors of its group: a
group is delivered when its values have ended, and ended values get no errors.
`OperationNeverStuck` goes down the tree: an object that cannot move waits
for a field or an element below it that has not ended, whose `Level` is smaller
(a page is above its items, an item above its author), so the descent ends at
one that can; in a mutation it starts from the first root field that has not
ended.

### `ServerProofs`

For any requests, dependencies, codes, attempts, delay and width of a duration,
from `ServerAssumption` and `RetryAssumption` (the capped delay fits, as 500 ms
does):

| Theorem | States |
|---|---|
| `EveryAnswerAccountedFor` | `Spec => []AnswersAccountedFor` |
| `ReadinessAlwaysTruthful` | `Spec => []ReadinessTruthful` |
| `ServesOnItsStore` | `Spec => []StartsOnItsStore` |

`ServerInv` says of a request inside the chain that the headers are set before
anything is sent, and that the `statusWriter` is as far as net/http unless a
header was written again (`InChain`); of a readiness check that what is left of
`allOK` is witnessed by the checks that are over (`CheckingInv`). `RetryInv`
counts the waits of `retry.Do` against its loop variable, each as long as
`backoff` of its attempt: the loop never runs past its last attempt, where it
would return nil. That the delays double up to their cap and none wraps is
arithmetic of powers (`PowFacts`).

### `LoginProofs`

For any requests, names and restarts (no assumption is used):

| Theorem | States |
|---|---|
| `NameHasOneUser` | `Spec => []OneUserPerName` |
| `LoginGetsItsUser` | `Spec => []LoginFindsItsUser` |
| `SessionStaysTrue` | `Spec => []SessionNamesItsUser` |

`LoginInv` adds to the three: no id above the counter is in use (so that a new
user disturbs nobody), a request whose insert met a conflict has a user to find
(`ConflictInv`; users are never removed while the process runs), and no token
carries a secret that is yet to come (`SecretInv`; a restart without a
configured secret therefore invalidates every token).

### Only model-checked

The liveness properties, since TLAPS does not reason about ENABLED and hence
not about fairness: `WritersFinish`, `DepartureCleansUp`, `ShutdownEndsTracked`,
`RequestsAnswered`, `ProcessExits`, `CreatorsAnswered`, `OperationAnswered`.
What is proved in their place is the half that needs no fairness, with the
guards written out: `LeaversNeverStuck`, `NoLoadForgotten` and
`ShutdownAwaitsAFlight`, `PoolNeverStuck`, `OperationNeverStuck` exclude that
everyone waits on everyone for every value of the constants; that what can go
on does so often enough to end is TLC's part.

`CommentsNewestFirst` is false (section 5).

### What the proofs changed in the model

* `Executor`: a list that had ended could start a deferred group that the code
  does not have, for the list was taken for an object; `Below` now excludes
  lists. The operations were restricted further than validation restricts them
  (no `@defer` in a subscription); they no longer are.
* Helpers that were recursive operators, or whose facts the prover could not
  reach, became the functions and choices of `Slices`; lemmas such as
  `FilterIsItsLoop` and `SearchFirstFacts` tie them to the loops of the code.

## 5 Observations

**Finding.** `schema.graphql:44` documents the comments of a post as
"depth-first, newest first". Both stores list siblings oldest first
(`store/memory/comments.go:99`, `ORDER BY path ASC` in
`store/postgres/gen/comments.sql.go:74`), and the run `memory_comment_order` shows it.

What the modelling met besides, and a reader of the code may want to know:

* A subscription that is between `Subscribe` and `trackSub`, or begins after
  `Resolver.Shutdown` has copied its map, is cancelled by nobody:
  `ShutdownEndsTracked` is about those found tracked.
* A timer that has fired before `userLoader.Shutdown` takes the lock may start
  a flight that Shutdown does not wait for. `ShutdownQuiesces` has exactly this
  exception (`late`).
* The test of `inFlight` at the start of `flush` never decides anything: a
  timer exists only between flights, and after `closed` nothing new is pending
  (`TimerInv`, `CloserInv`). `Load` is what needs the flag.
* With the memory store and a configured `JWT_SECRET` a session outlives the
  users: after a restart it stands for whoever gets its id.
  `SessionNamesItsUser` excludes that combination.
* Two requests may publish their comments in the opposite order of their ids,
  so a subscriber can get a reply before its parent.
* In PostgreSQL ids and `created_at` are taken before the commit: a comment or a
  post may become visible behind a later one.
  A scan that has passed that place misses it (`ScanComplete` states exactly this
  much), and ids alone tell a client nothing about what it has missed.
* Over postgres an error does not tell whether a call took effect. A comment that was
  stored with its answer lost is listed and is never published, so a subscriber
  that has listed before misses it (`NoCommentMissed` has this exception). The client of a
  mutation with an error of its own cannot tell whether to try again; only
  arguments that do not convert exclude an effect (`ResponseTruthful`).
* `UPDATE` of `SetCommentsAllowed` may be kept waiting by overlapping comments.
* `clampFirst` turns a `first` of 0 or less into 20, while `schema.graphql` speaks of
  a clamp to 1..100.
* Executor: the deferred fields of a mutation are computed and never delivered
  (`Exec` answers nil after its first response), nor are those of an event of a
  subscription (its handler never reads them); over http the transport reads
  one response, and the goroutine of a deferred group stays blocked on its
  channel. An inner deferred group may be delivered although an outer object has
  become null. One author that fails makes null of a whole page, and of the
  response of a mutation whose effect stays (`ResponseTruthful` says how the
  client can tell). Complexity counts selected fields, not the items of lists.
* Middleware: `Logger` is outside `RequestID`, so its records carry no request
  id. A header written twice is logged as the last one and sent as the first: a
  panic after the body has begun is logged as 500, seen as 200, and the answer
  ends as if it were complete. A connection that was taken over is logged as 200.
* Readiness: the checks share one deadline, so one slow check fails healthy
  ones after it.
* `retry.Do` with no attempts returns nil and calls nothing; a delay above 8.6 s
  would wrap with the shift of 30. The program passes 5 and 500 ms.

## 6 What is not modelled

* Configuration, logging, JSON: read once at start, or formatting. The scalar
  `Int64` and the error codes: conversions of one value.
* In `generated.go`: introspection, `__typename`, the text of values, several
  `@defer` labels on one object, field contexts and the parsing of the schema.
  The generated queries of sqlc are modelled as far as their locks, conditions
  and orders.
* Cursors are the key they carry; the refusal of one that does not decode
  changes nothing. Title and body checks are two Booleans.
* Expiry of tokens, cookies and the middleware that reads them; logout clears a
  cookie. The limit of a body and the characters of a request id.
* `retry.Get` has no caller. The pool's configuration; the wait of `pool.Close` for
  its connections. Time-outs of net/http.
* Deletion: no operation of the program sets `deletedAt`, so the branches on it
  are in the modules and never taken.

## 7 Plan

Done: the stores and their abstract specification, scans of both stores,
broadcaster, subscriptions, loader, the start and the end of the process,
middleware and readiness, the executor, postgres writes, login; every safety
property that a run checks, the action property of the executor and both
refinements proved; history, finality of answers and the absence of circular
waits proved besides.

What is left:

1. Progress itself: each never-stuck theorem with a quantity that every fair
   step makes smaller would be a proof of liveness by hand; the prover lacks
   the rule that would use it.
2. The abstract stores do not say that history is kept; an action property of
   `ForumState` would give it to both stores through their refinements.
3. Exact bounds: how many connections and waits a request needs at most.
