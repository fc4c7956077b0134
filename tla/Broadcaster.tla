---------------------------- MODULE Broadcaster ----------------------------
(***************************************************************************)
(* notifier.Broadcaster: the registry of subscriptions by post and one     *)
(* buffered channel per subscription.  Subscribe, unsubscribe and Publish  *)
(* run under b.mu and are one step each; receivers take from their channel *)
(* without the mutex, which commutes with the sends of a Publish to other  *)
(* channels.                                                               *)
(*                                                                         *)
(* Events are numbered in the order of their Publish.  sent, dropped and   *)
(* taken are history: the events published to a subscription while it was  *)
(* registered, those lost for want of room and those received.             *)
(***************************************************************************)
EXTENDS Slices

CONSTANTS Posts, BufferSize,
          MaxSubs, MaxEvents      \* bounds on the calls of Subscribe and Publish

ASSUME BroadcasterAssumption == /\ BufferSize \in Nat /\ BufferSize >= 1
                                /\ MaxSubs \in Nat /\ MaxEvents \in Nat

VARIABLES seq,       \* b.seq, the id of the last subscription
          subs,      \* b.subs: [post -> ids], no entry for a post without any
          chans,     \* [id -> its channel, its sync.Once and its history]
          events,    \* number of events published
          panicked   \* a send on a closed channel, or a second close

broadcasterVars == <<seq, subs, chans, events, panicked>>

NewChan(post) == [post |-> post, open |-> TRUE, onceDone |-> FALSE, buf |-> <<>>,
                  sent |-> <<>>, dropped |-> {}, taken |-> <<>>]

Listeners(post) == IF post \in DOMAIN subs THEN subs[post] ELSE {}

\* Mutant of SetListeners: a post keeps its entry when nobody is left.
SetListenersKeepingPost(post, ids) ==
  [p \in DOMAIN subs \cup {post} |-> IF p = post THEN ids ELSE subs[p]]

\* The registry with the listeners of one post replaced.
SetListeners(post, ids) ==
  LET posts == IF ids = {} THEN DOMAIN subs \ {post} ELSE DOMAIN subs \cup {post}
  IN  [p \in posts |-> IF p = post THEN ids ELSE subs[p]]

-----------------------------------------------------------------------------
Subscribe(post) ==
  /\ seq < MaxSubs
  /\ seq' = seq + 1
  /\ subs' = SetListeners(post, Listeners(post) \cup {seq + 1})
  /\ chans' = [id \in 1..(seq + 1) |-> IF id = seq + 1 THEN NewChan(post)
                                                       ELSE chans[id]]
  /\ UNCHANGED <<events, panicked>>

\* Mutant of Unsubscribe: the channel is closed but stays in the registry.
UnsubscribeCloseOnly(id) ==
  /\ ~chans[id].onceDone
  /\ chans' = [chans EXCEPT ![id].open = FALSE, ![id].onceDone = TRUE]
  /\ UNCHANGED <<seq, subs, events, panicked>>

\* The function that Subscribe returns; every call after the first is empty.
Unsubscribe(id) ==
  LET post == chans[id].post
  IN  \/ /\ chans[id].onceDone
         /\ UNCHANGED broadcasterVars
      \/ /\ ~chans[id].onceDone
         /\ subs' = SetListeners(post, Listeners(post) \ {id})
         /\ panicked' = (panicked \/ ~chans[id].open)
         /\ chans' = [chans EXCEPT ![id].open = FALSE, ![id].onceDone = TRUE]
         /\ UNCHANGED <<seq, events>>

\* Mutant of Send: a full channel silently gives up its oldest event.
SendEvictingOldest(ch, e) ==
  [ch EXCEPT !.sent = Append(@, e),
             !.buf  = Append(IF Len(@) = BufferSize THEN Tail(@) ELSE @, e)]

\* select { case ch <- c: default: }
Send(ch, e) ==
  IF Len(ch.buf) < BufferSize
  THEN [ch EXCEPT !.sent = Append(@, e), !.buf = Append(@, e)]
  ELSE [ch EXCEPT !.sent = Append(@, e), !.dropped = @ \cup {e}]

Publish(post) ==
  /\ events < MaxEvents
  /\ events' = events + 1
  /\ panicked' = (panicked \/ \E id \in Listeners(post) : ~chans[id].open)
  /\ chans' = [id \in DOMAIN chans |-> IF id \in Listeners(post)
                                       THEN Send(chans[id], events + 1)
                                       ELSE chans[id]]
  /\ UNCHANGED <<seq, subs>>

\* A receive from the channel finds an event.
Receive(id) ==
  /\ chans[id].buf # <<>>
  /\ chans' = [chans EXCEPT ![id].buf = Tail(@),
                            ![id].taken = Append(@, Head(chans[id].buf))]
  /\ UNCHANGED <<seq, subs, events, panicked>>

-----------------------------------------------------------------------------
BroadcasterInit == /\ seq = 0 /\ subs = <<>> /\ chans = <<>>
                   /\ events = 0 /\ panicked = FALSE

BroadcasterNext == \/ \E p \in Posts : Subscribe(p)
                   \/ \E p \in Posts : Publish(p)
                   \/ \E id \in 1..seq : Unsubscribe(id)
                   \/ \E id \in 1..seq : Receive(id)

BroadcasterSpec == BroadcasterInit /\ [][BroadcasterNext]_broadcasterVars

-----------------------------------------------------------------------------
Event == Nat \ {0}
Chan == [post : Posts, open : BOOLEAN, onceDone : BOOLEAN,
         buf : Seq(Event), sent : Seq(Event), dropped : SUBSET Event,
         taken : Seq(Event)]

\* The registry, the channels and the counters hold values of their types, and a
\* channel never holds more than its buffer (notifier.go:10-16).
BroadcasterTypeOK ==
  /\ seq \in 0..MaxSubs
  /\ events \in 0..MaxEvents
  /\ panicked \in BOOLEAN
  /\ chans \in [1..seq -> Chan]
  /\ DOMAIN subs \subseteq Posts
  /\ \A p \in DOMAIN subs : subs[p] \subseteq 1..seq
  /\ \A id \in 1..seq : Len(chans[id].buf) <= BufferSize

\* The registry lists exactly the subscriptions whose channel is open, under
\* their own post, and keeps no entry for a post that nobody listens to.
RegistryExact ==
  /\ \A p \in DOMAIN subs : subs[p] # {}
  /\ \A id \in 1..seq : /\ id \in Listeners(chans[id].post) <=> chans[id].open
                        /\ chans[id].open <=> ~chans[id].onceDone
  /\ \A p \in DOMAIN subs : \A id \in subs[p] : chans[id].post = p

\* No order of Publish and of repeated calls of unsubscribe sends on a closed
\* channel or closes one twice: either would panic with b.mu held.
NeverPanics == ~panicked

Kept(ch) == Filter(ch.sent, {i \in DOMAIN ch.sent : ch.sent[i] \notin ch.dropped})

\* What a subscriber has received, followed by what waits in its channel, is
\* what was published to it, in that order and once each, less the drops; and an
\* event is dropped only behind a buffer's worth of earlier ones, so the first
\* BufferSize events of a subscription always arrive.
EventsInOrder ==
  \A id \in 1..seq : LET ch == chans[id] IN
    /\ ch.taken \o ch.buf = Kept(ch)
    /\ \A k \in DOMAIN ch.sent : ch.sent[k] \in ch.dropped =>
         Cardinality({j \in 1..(k - 1) : ch.sent[j] \notin ch.dropped}) >= BufferSize
=============================================================================
