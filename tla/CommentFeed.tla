---------------------------- MODULE CommentFeed ----------------------------
(***************************************************************************)
(* From a created comment to the subscribers of its post: ForumService     *)
(* has the store keep the comment and only then publishes it, if the store *)
(* reports success; a subscription is a goroutine that moves events from   *)
(* its Broadcaster channel to the client until its context is done;        *)
(* Resolver.Shutdown cancels the subscriptions it finds tracked.           *)
(*                                                                         *)
(* Comments are numbered by their creation, events by their publication:   *)
(* two requests may publish in the opposite order.  A context stays done   *)
(* once it is done.  The client reads, or leaves, when it likes; new       *)
(* subscriptions may come at any time, since http.Server.Shutdown does not *)
(* touch the websocket connections that carry them.                        *)
(***************************************************************************)
EXTENDS Broadcaster

CONSTANTS Writers,       \* requests that create comments
          MaxComments    \* bound on the comments created

VARIABLES stored,    \* the post of each comment in the store, by comment id
          failed,    \* history: those whose request was told of a failure
          writer,    \* [w -> the comment it must still publish, 0 if none]
          comment,   \* [event -> the comment published]
          sub,       \* [id -> state of the subscription's goroutine]
          tracked,   \* keys of Resolver.subs
          cancels,   \* Shutdown's snapshot: the cancel functions still to call
          down       \* Shutdown: "no", "cancelling" or "cancelled"

feedVars == <<stored, failed, writer, comment, sub, tracked, cancels, down>>
allVars == <<broadcasterVars, feedVars>>

-----------------------------------------------------------------------------
(* CreateComment. *)

\* comments.Create has returned without an error: the comment can be listed.
StoreComment(w, post) ==
  /\ writer[w] = 0
  /\ Len(stored) < MaxComments
  /\ stored' = Append(stored, post)
  /\ writer' = [writer EXCEPT ![w] = Len(stored) + 1]
  /\ UNCHANGED <<failed, comment, sub, tracked, cancels, down>>
  /\ UNCHANGED broadcasterVars

\* The store has kept the comment and Create returns an error all the same: its
\* commit, or the answer to it, was lost.  CreateComment returns the error and does
\* not publish.  The database may do this, the memory store never does.
StoreUnanswered(w, post) ==
  /\ writer[w] = 0
  /\ Len(stored) < MaxComments
  /\ stored' = Append(stored, post)
  /\ failed' = failed \cup {Len(stored) + 1}
  /\ UNCHANGED <<writer, comment, sub, tracked, cancels, down>>
  /\ UNCHANGED broadcasterVars

\* Mutant of PublishComment: a full channel makes Publish wait.
PublishBlocking(w) ==
  /\ writer[w] # 0
  /\ \A id \in Listeners(stored[writer[w]]) : Len(chans[id].buf) < BufferSize
  /\ Publish(stored[writer[w]])
  /\ comment' = Append(comment, writer[w])
  /\ writer' = [writer EXCEPT ![w] = 0]
  /\ UNCHANGED <<stored, failed, sub, tracked, cancels, down>>

\* Mutant of PublishComment: the request ends without publishing a comment
\* that somebody else's comment has overtaken.
PublishNewest(w) ==
  /\ writer[w] # 0
  /\ writer' = [writer EXCEPT ![w] = 0]
  /\ IF writer[w] = Len(stored)
     THEN Publish(stored[writer[w]]) /\ comment' = Append(comment, writer[w])
     ELSE UNCHANGED <<broadcasterVars, comment>>
  /\ UNCHANGED <<stored, failed, sub, tracked, cancels, down>>

\* notifier.Publish, after the store's lock has been released.
PublishComment(w) ==
  /\ writer[w] # 0
  /\ Publish(stored[writer[w]])
  /\ comment' = Append(comment, writer[w])
  /\ writer' = [writer EXCEPT ![w] = 0]
  /\ UNCHANGED <<stored, failed, sub, tracked, cancels, down>>

-----------------------------------------------------------------------------
(* A subscription: CommentAdded, its goroutine and the watcher of trackSub. *)

\* ctx: the request's context is done; done: subCtx is done; hand: the event
\* received and not yet passed on; since: the comments stored when it began.
NewSub == [at |-> "tracking", ctx |-> FALSE, done |-> FALSE, hand |-> 0,
           since |-> Len(stored), outClosed |-> FALSE]

Subscriptions == DOMAIN sub

\* notifier.Subscribe returns to CommentAdded.
StartSubscription(post) ==
  /\ Subscribe(post)
  /\ sub' = [id \in 1..(seq + 1) |-> IF id = seq + 1 THEN NewSub ELSE sub[id]]
  /\ UNCHANGED <<stored, failed, writer, comment, tracked, cancels, down>>

\* trackSub, and the start of the two goroutines.
TrackSub(id) ==
  /\ sub[id].at = "tracking"
  /\ sub' = [sub EXCEPT ![id].at = "waiting", ![id].done = sub[id].ctx]
  /\ tracked' = tracked \cup {id}
  /\ UNCHANGED <<stored, failed, writer, comment, cancels, down>>
  /\ UNCHANGED broadcasterVars

\* case c := <-sub
TakeEvent(id) ==
  /\ sub[id].at = "waiting"
  /\ Receive(id)
  /\ sub' = [sub EXCEPT ![id].at = "holding", ![id].hand = Head(chans[id].buf)]
  /\ UNCHANGED <<stored, failed, writer, comment, tracked, cancels, down>>

\* case out <- &c: the client's transport takes the event.
PassOn(id) ==
  /\ sub[id].at = "holding"
  /\ sub' = [sub EXCEPT ![id].at = "waiting", ![id].hand = 0]
  /\ UNCHANGED <<stored, failed, writer, comment, tracked, cancels, down>>
  /\ UNCHANGED broadcasterVars

\* Mutant of Leave: the inner select does not watch the context.
LeaveWhenIdle(id) ==
  /\ sub[id].at = "waiting" /\ sub[id].done
  /\ sub' = [sub EXCEPT ![id].at = "leaving", ![id].hand = 0]
  /\ UNCHANGED <<stored, failed, writer, comment, tracked, cancels, down>>
  /\ UNCHANGED broadcasterVars

\* case <-subCtx.Done(), in either select: the deferred cancel finds it done.
Leave(id) ==
  /\ sub[id].at \in {"waiting", "holding"} /\ sub[id].done
  /\ sub' = [sub EXCEPT ![id].at = "leaving", ![id].hand = 0]
  /\ UNCHANGED <<stored, failed, writer, comment, tracked, cancels, down>>
  /\ UNCHANGED broadcasterVars

\* Mutant of EndUnsubscribe: the deferred call is missing.
EndKeepingChannel(id) ==
  /\ sub[id].at = "leaving"
  /\ sub' = [sub EXCEPT ![id].at = "unsubscribed"]
  /\ UNCHANGED <<stored, failed, writer, comment, tracked, cancels, down>>
  /\ UNCHANGED broadcasterVars

\* The deferred unsubscribe.
EndUnsubscribe(id) ==
  /\ sub[id].at = "leaving"
  /\ Unsubscribe(id)
  /\ sub' = [sub EXCEPT ![id].at = "unsubscribed"]
  /\ UNCHANGED <<stored, failed, writer, comment, tracked, cancels, down>>

\* The deferred close(out): the client's stream ends.
EndClose(id) ==
  /\ sub[id].at = "unsubscribed"
  /\ sub' = [sub EXCEPT ![id].at = "ended", ![id].outClosed = TRUE]
  /\ UNCHANGED <<stored, failed, writer, comment, tracked, cancels, down>>
  /\ UNCHANGED broadcasterVars

\* The watcher goroutine of trackSub.
Untrack(id) ==
  /\ id \in tracked /\ sub[id].done
  /\ tracked' = tracked \ {id}
  /\ UNCHANGED <<stored, failed, writer, comment, sub, cancels, down>>
  /\ UNCHANGED broadcasterVars

\* The client disconnects or stops its operation: the request's context is done
\* and, if it has been made, subCtx with it.
ClientLeaves(id) ==
  /\ ~sub[id].ctx
  /\ sub' = [sub EXCEPT ![id].ctx = TRUE, ![id].done = (sub[id].at # "tracking")]
  /\ UNCHANGED <<stored, failed, writer, comment, tracked, cancels, down>>
  /\ UNCHANGED broadcasterVars

-----------------------------------------------------------------------------
(* Resolver.Shutdown. *)

\* Under subMu, the cancel functions are copied.
ShutdownSnapshot ==
  /\ down = "no"
  /\ cancels' = tracked
  /\ down' = "cancelling"
  /\ UNCHANGED <<stored, failed, writer, comment, sub, tracked>>
  /\ UNCHANGED broadcasterVars

\* Mutant of ShutdownCancel: a subscription that already holds an event is left.
ShutdownCancelIdle(id) ==
  /\ down = "cancelling" /\ id \in cancels
  /\ cancels' = cancels \ {id}
  /\ sub' = [sub EXCEPT ![id].done = (@ \/ sub[id].at = "waiting")]
  /\ UNCHANGED <<stored, failed, writer, comment, tracked, down>>
  /\ UNCHANGED broadcasterVars

ShutdownCancel(id) ==
  /\ down = "cancelling" /\ id \in cancels
  /\ cancels' = cancels \ {id}
  /\ sub' = [sub EXCEPT ![id].done = TRUE]
  /\ UNCHANGED <<stored, failed, writer, comment, tracked, down>>
  /\ UNCHANGED broadcasterVars

ShutdownCancelled ==
  /\ down = "cancelling" /\ cancels = {}
  /\ down' = "cancelled"
  /\ UNCHANGED <<stored, failed, writer, comment, sub, tracked, cancels>>
  /\ UNCHANGED broadcasterVars

-----------------------------------------------------------------------------
FeedInit == /\ BroadcasterInit
            /\ stored = <<>> /\ failed = {} /\ comment = <<>>
            /\ writer = [w \in Writers |-> 0]
            /\ sub = <<>> /\ tracked = {} /\ cancels = {} /\ down = "no"

WriterNext == \E w \in Writers :
  \/ PublishComment(w)
  \/ \E p \in Posts : StoreComment(w, p) \/ StoreUnanswered(w, p)

GoroutineNext == \E id \in Subscriptions :
  \/ TrackSub(id) \/ TakeEvent(id) \/ PassOn(id)
  \/ Leave(id) \/ EndUnsubscribe(id) \/ EndClose(id) \/ Untrack(id)

ClientNext == \/ \E p \in Posts : StartSubscription(p)
              \/ \E id \in Subscriptions : ClientLeaves(id)

ShutdownNext == \/ ShutdownSnapshot \/ ShutdownCancelled
                \/ \E id \in Subscriptions : ShutdownCancel(id)

FeedNext == WriterNext \/ GoroutineNext \/ ClientNext \/ ShutdownNext

FeedSafetySpec == FeedInit /\ [][FeedNext]_allVars

\* The Go scheduler runs every goroutine that can run: requests, the goroutines
\* of a subscription and Shutdown go on.  Nothing makes a client read or leave.
FeedFairness ==
  /\ \A w \in Writers : WF_allVars(PublishComment(w))
  /\ \A id \in 1..MaxSubs :
       /\ WF_allVars(id \in Subscriptions /\ TrackSub(id))
       /\ WF_allVars(id \in Subscriptions /\ TakeEvent(id))
       /\ WF_allVars(id \in Subscriptions /\ Leave(id))
       /\ WF_allVars(id \in Subscriptions /\ EndUnsubscribe(id))
       /\ WF_allVars(id \in Subscriptions /\ EndClose(id))
       /\ WF_allVars(id \in Subscriptions /\ Untrack(id))
       /\ WF_allVars(id \in Subscriptions /\ ShutdownCancel(id))
  /\ WF_allVars(ShutdownCancelled)

FeedSpec == FeedSafetySpec /\ FeedFairness

-----------------------------------------------------------------------------
\* The state of a subscription agrees with the registry at every step, also
\* between two deferred calls: it is registered until its goroutine has
\* unsubscribed, and holds an event exactly while it passes one on.
SubscriptionsMatchRegistry ==
  \A id \in Subscriptions :
    /\ id \in Listeners(chans[id].post)
         <=> sub[id].at \in {"tracking", "waiting", "holding", "leaving"}
    /\ sub[id].hand # 0 <=> sub[id].at = "holding"
    /\ id \in tracked => sub[id].at # "tracking"

\* A comment stored while a subscription to its post is registered has been
\* received, waits in the channel, was dropped from a full one, is about to be
\* published, or is one of those whose request was told that it failed: between
\* storing and publishing nothing else gets lost, so a client that subscribes and
\* then lists misses only drops and comments whose author was told of a failure.
NoCommentMissed ==
  \A id \in Subscriptions : id \in Listeners(chans[id].post) =>
    \A c \in (sub[id].since + 1)..Len(stored) : stored[c] = chans[id].post =>
      \/ c \in failed
      \/ \E w \in Writers : writer[w] = c
      \/ \E e \in DOMAIN comment :
           /\ comment[e] = c
           /\ e \in {chans[id].sent[k] : k \in DOMAIN chans[id].sent}

\* A client that reads nothing, and one that is leaving, hold up no request: once
\* Create has reported success the comment is published.
WritersFinish == \A w \in Writers : writer[w] # 0 ~> writer[w] = 0

\* Nothing is left of the subscription.
Gone(id) == /\ id \in Subscriptions /\ sub[id].outClosed
            /\ id \notin tracked
            /\ id \notin Listeners(chans[id].post)

\* A client that goes away, at whatever point of its subscription, leaves
\* nothing behind: its goroutine ends, its channel leaves the registry and its
\* cancel function the map of Resolver.
DepartureCleansUp ==
  \A id \in 1..MaxSubs :
    (id \in Subscriptions /\ sub[id].ctx) ~> Gone(id)

\* Shutdown ends every subscription that it found tracked, whether its client
\* reads or not.
ShutdownEndsTracked == \A id \in 1..MaxSubs : id \in cancels ~> Gone(id)
=============================================================================
