----------------------------- MODULE FeedProofs -----------------------------
(***************************************************************************)
(* Proofs about Broadcaster and CommentFeed for any posts, requests,       *)
(* buffer and number of comments, events and subscriptions: the feed runs  *)
(* the Broadcaster as that module describes it, so what is proved of one   *)
(* holds of the other, and adds nothing to the registry that its           *)
(* goroutines do not take away.                                            *)
(***************************************************************************)
EXTENDS CommentFeed, DataProofs

-----------------------------------------------------------------------------
(* The registry and its channels: types. *)

\* Send keeps a channel a channel, full at most, and touches no other field.
LEMMA SendType ==
  ASSUME NEW ch \in Chan, NEW e \in Event, Len(ch.buf) <= BufferSize
  PROVE  /\ Send(ch, e) \in Chan
         /\ Len(Send(ch, e).buf) <= BufferSize
         /\ Send(ch, e).post = ch.post
         /\ Send(ch, e).open = ch.open
         /\ Send(ch, e).onceDone = ch.onceDone
<1> DEFINE sent == Append(ch.sent, e)
<1>1. sent \in Seq(Event)
  BY DEF Chan
<1>2. CASE Len(ch.buf) < BufferSize
  <2>1. Append(ch.buf, e) \in Seq(Event) /\ Len(Append(ch.buf, e)) = Len(ch.buf) + 1
    BY DEF Chan
  <2>2. Send(ch, e) = [ch EXCEPT !.sent = sent, !.buf = Append(ch.buf, e)]
    BY <1>2 DEF Send
  <2>3. Len(ch.buf) \in Nat
    BY DEF Chan
  <2>4. Send(ch, e) \in Chan
    BY <1>1, <2>1, <2>2 DEF Chan
  <2>5. /\ Send(ch, e).buf = Append(ch.buf, e) /\ Send(ch, e).post = ch.post
        /\ Send(ch, e).open = ch.open /\ Send(ch, e).onceDone = ch.onceDone
    BY <2>2 DEF Chan
  <2>6. Len(Send(ch, e).buf) <= BufferSize
    BY <1>2, <2>1, <2>3, <2>5, BroadcasterAssumption
  <2> QED BY <2>4, <2>5, <2>6
<1>3. CASE ~(Len(ch.buf) < BufferSize)
  <2>1. Send(ch, e) = [ch EXCEPT !.sent = sent, !.dropped = ch.dropped \cup {e}]
    BY <1>3 DEF Send
  <2>2. ch.dropped \cup {e} \in SUBSET Event
    BY DEF Chan
  <2> QED BY <1>1, <2>1, <2>2 DEF Chan
<1> QED BY <1>2, <1>3

\* Replacing a post's listeners changes that post's entry only and leaves no
\* empty entry behind.
LEMMA SetListenersFacts ==
  ASSUME NEW post, NEW ids, subs' = SetListeners(post, ids)
  PROVE  /\ DOMAIN subs' \subseteq DOMAIN subs \cup {post}
         /\ Listeners(post)' = ids
         /\ \A p : p # post => Listeners(p)' = Listeners(p)
         /\ \A p \in DOMAIN subs' : subs'[p] = Listeners(p)'
         /\ (\A p \in DOMAIN subs : subs[p] # {}) =>
              \A p \in DOMAIN subs' : subs'[p] # {}
  BY DEF SetListeners, Listeners

-----------------------------------------------------------------------------
LEMMA BroadcasterTypeStep ==
  BroadcasterTypeOK /\ [BroadcasterNext]_broadcasterVars => BroadcasterTypeOK'
<1> SUFFICES ASSUME BroadcasterTypeOK, [BroadcasterNext]_broadcasterVars
             PROVE  BroadcasterTypeOK'
  OBVIOUS
<1> USE BroadcasterAssumption
<1>t. /\ seq \in Nat /\ events \in Nat
      /\ \A p : Listeners(p) \subseteq 1..seq
      /\ \A id \in 1..seq : chans[id] \in Chan /\ Len(chans[id].buf) <= BufferSize
  BY DEF BroadcasterTypeOK, Listeners
<1>1. ASSUME NEW p \in Posts, Subscribe(p) PROVE BroadcasterTypeOK'
  <2>1. NewChan(p) \in Chan /\ Len(NewChan(p).buf) = 0
    BY DEF NewChan, Chan
  <2>2. seq' = seq + 1 /\ seq' \in 0..MaxSubs
    BY <1>1, <1>t DEF Subscribe, BroadcasterTypeOK
  <2> DEFINE new == NewChan(p)
  <2>c. /\ DOMAIN chans' = 1..seq'
        /\ \A id \in 1..seq' : (id \in 1..seq /\ chans'[id] = chans[id]) \/ chans'[id] = new
        /\ chans' = [id \in 1..seq' |-> chans'[id]]
    BY <1>1, <1>t, <2>2 DEF Subscribe
  <2>n. new \in Chan /\ Len(new.buf) <= BufferSize
    BY <2>1
  <2> HIDE DEF new
  <2>3. chans' \in [1..seq' -> Chan]
    <3>1. \A id \in 1..seq' : chans'[id] \in Chan
      BY <1>t, <2>n, <2>c
    <3> QED BY <2>c, <3>1
  <2>4. \A id \in 1..seq' : Len(chans'[id].buf) <= BufferSize
    <3> SUFFICES ASSUME NEW id \in 1..seq' PROVE Len(chans'[id].buf) <= BufferSize
      OBVIOUS
    <3>1. (id \in 1..seq /\ chans'[id] = chans[id]) \/ chans'[id] = new
      BY <2>c
    <3> QED BY <1>t, <2>n, <3>1
  <2>5. DOMAIN subs' \subseteq Posts
    <3>1. subs' = SetListeners(p, Listeners(p) \cup {seq + 1})
      BY <1>1 DEF Subscribe
    <3>2. DOMAIN subs' \subseteq DOMAIN subs \cup {p}
      BY ONLY <3>1, SetListenersFacts
    <3> QED BY <3>2 DEF BroadcasterTypeOK
  <2>6. \A q \in DOMAIN subs' : subs'[q] \subseteq 1..seq'
    <3>1. Listeners(p) \cup {seq + 1} \subseteq 1..seq'
      BY <1>t, <2>2
    <3>2. \A q : Listeners(q) \subseteq 1..seq'
      BY <1>t, <2>2
    <3>3. subs' = SetListeners(p, Listeners(p) \cup {seq + 1})
      BY <1>1 DEF Subscribe
    <3>4. \A q : Listeners(q)' \subseteq 1..seq'
      BY <3>1, <3>2, <3>3, SetListenersFacts
    <3>5. \A q \in DOMAIN subs' : subs'[q] = Listeners(q)'
      BY <3>3, SetListenersFacts
    <3> QED BY <3>4, <3>5
  <2> QED BY <1>1, <2>2, <2>3, <2>4, <2>5, <2>6 DEF Subscribe, BroadcasterTypeOK
<1>2. ASSUME NEW p \in Posts, Publish(p) PROVE BroadcasterTypeOK'
  <2>1. events' = events + 1 /\ events' \in 0..MaxEvents
    BY <1>2, <1>t DEF Publish, BroadcasterTypeOK
  <2>e. events + 1 \in Event
    BY <1>t DEF Event
  <2>2. /\ DOMAIN chans' = 1..seq
        /\ \A id \in 1..seq : /\ chans'[id] \in Chan
                              /\ Len(chans'[id].buf) <= BufferSize
    BY <1>2, <1>t, <2>e, SendType DEF Publish, BroadcasterTypeOK
  <2>3. chans' \in [1..seq -> Chan]
    BY <1>2, <2>2 DEF Publish
  <2>4. panicked' \in BOOLEAN
    BY <1>2 DEF Publish, BroadcasterTypeOK
  <2> QED BY <1>2, <2>1, <2>2, <2>3, <2>4 DEF Publish, BroadcasterTypeOK
<1>3. ASSUME NEW id \in 1..seq, Unsubscribe(id) PROVE BroadcasterTypeOK'
  <2>1. CASE UNCHANGED broadcasterVars
    BY <2>1 DEF broadcasterVars, BroadcasterTypeOK, Listeners
  <2>2. CASE ~chans[id].onceDone
    <3> DEFINE post == chans[id].post
               ch   == [chans[id] EXCEPT !.open = FALSE, !.onceDone = TRUE]
    <3>1. ch \in Chan /\ ch.buf = chans[id].buf /\ post \in Posts
      BY <1>t DEF Chan
    <3>2. /\ chans' = [chans EXCEPT ![id] = ch] /\ UNCHANGED <<seq, events>>
          /\ subs' = SetListeners(post, Listeners(post) \ {id})
          /\ panicked' \in BOOLEAN
      BY <1>3, <2>2 DEF Unsubscribe, BroadcasterTypeOK
    <3>3. chans' \in [1..seq -> Chan]
      BY <3>1, <3>2 DEF BroadcasterTypeOK
    <3>4. \A k \in 1..seq : Len(chans'[k].buf) <= BufferSize
      BY <3>1, <3>2, <1>t DEF BroadcasterTypeOK
    <3>5. DOMAIN subs' \subseteq Posts
      <4>1. DOMAIN subs' \subseteq DOMAIN subs \cup {post}
        BY <3>2, SetListenersFacts
      <4> QED BY <3>1, <4>1 DEF BroadcasterTypeOK
    <3>6. \A q : Listeners(q)' \subseteq 1..seq
      <4>1. Listeners(post) \ {id} \subseteq 1..seq
        BY <1>t
      <4> QED BY <4>1, <3>2, <1>t, SetListenersFacts
    <3>7. \A q \in DOMAIN subs' : subs'[q] \subseteq 1..seq
      <4>1. \A q \in DOMAIN subs' : subs'[q] = Listeners(q)'
        BY <3>2, SetListenersFacts
      <4> QED BY <3>6, <4>1
    <3> QED BY <3>2, <3>3, <3>4, <3>5, <3>7 DEF BroadcasterTypeOK
  <2> QED BY <1>3, <2>1, <2>2 DEF Unsubscribe
<1>4. ASSUME NEW id \in 1..seq, Receive(id) PROVE BroadcasterTypeOK'
  <2> DEFINE buf   == chans[id].buf
             taken == Append(chans[id].taken, Head(buf))
             ch    == [chans[id] EXCEPT !.buf = Tail(buf), !.taken = taken]
  <2>1. buf \in Seq(Event) /\ buf # <<>> /\ chans[id].taken \in Seq(Event)
    BY <1>4, <1>t DEF Receive, Chan
  <2>2. Tail(buf) \in Seq(Event) /\ Len(Tail(buf)) <= BufferSize /\ taken \in Seq(Event)
    BY <2>1, <1>t
  <2>3. ch \in Chan /\ Len(ch.buf) <= BufferSize
    BY <2>2, <1>t DEF Chan
  <2>4. chans' = [chans EXCEPT ![id] = ch] /\ UNCHANGED <<seq, subs, events, panicked>>
    BY <1>4 DEF Receive
  <2>5. chans' \in [1..seq -> Chan] /\ \A k \in 1..seq : Len(chans'[k].buf) <= BufferSize
    BY <2>3, <2>4, <1>t DEF BroadcasterTypeOK
  <2> QED BY <2>4, <2>5 DEF BroadcasterTypeOK, Listeners
<1>5. CASE UNCHANGED broadcasterVars
  BY <1>5 DEF broadcasterVars, BroadcasterTypeOK, Listeners
<1> QED BY <1>1, <1>2, <1>3, <1>4, <1>5 DEF BroadcasterNext

LEMMA BroadcasterTypeInit == BroadcasterInit => BroadcasterTypeOK
<1> SUFFICES ASSUME BroadcasterInit PROVE BroadcasterTypeOK
  OBVIOUS
<1>1. chans \in [1..seq -> Chan] /\ 1..seq = {}
  BY DEF BroadcasterInit
<1>2. DOMAIN subs = {}
  BY DEF BroadcasterInit
<1>3. seq \in 0..MaxSubs /\ events \in 0..MaxEvents
  BY BroadcasterAssumption DEF BroadcasterInit
<1>4. panicked \in BOOLEAN
  BY DEF BroadcasterInit
<1> QED BY <1>1, <1>2, <1>3, <1>4 DEF BroadcasterTypeOK

\* Values keep their types and a channel never holds more than bufferSize events.
THEOREM BroadcasterTypeCorrect == BroadcasterSpec => []BroadcasterTypeOK
  BY BroadcasterTypeInit, BroadcasterTypeStep, PTL DEF BroadcasterSpec

-----------------------------------------------------------------------------
(* The registry. *)

RegistryInv == BroadcasterTypeOK /\ RegistryExact /\ NeverPanics

\* RegistryExact read off the listeners: a subscription listens, to its own post,
\* exactly as long as its channel is open.
LEMMA RegistryByListeners ==
  ASSUME BroadcasterTypeOK
  PROVE  RegistryExact <=>
           /\ \A p \in DOMAIN subs : subs[p] # {}
           /\ \A id \in 1..seq : chans[id].open <=> ~chans[id].onceDone
           /\ \A p : \A id \in 1..seq :
                id \in Listeners(p) <=> chans[id].post = p /\ chans[id].open
<1>1. \A p \in DOMAIN subs : subs[p] = Listeners(p) /\ subs[p] \subseteq 1..seq
  BY DEF BroadcasterTypeOK, Listeners
<1>2. \A p : p \notin DOMAIN subs => Listeners(p) = {}
  BY DEF Listeners
<1>3. ASSUME RegistryExact, NEW p, NEW id \in 1..seq
      PROVE  id \in Listeners(p) <=> chans[id].post = p /\ chans[id].open
  <2>1. ASSUME id \in Listeners(p) PROVE chans[id].post = p
    BY <1>1, <1>2, <1>3, <2>1 DEF RegistryExact
  <2> QED BY <1>3, <2>1 DEF RegistryExact
<1>4. ASSUME \A p : \A id \in 1..seq :
               id \in Listeners(p) <=> chans[id].post = p /\ chans[id].open
      PROVE  /\ \A id \in 1..seq : id \in Listeners(chans[id].post) <=> chans[id].open
             /\ \A p \in DOMAIN subs : \A id \in subs[p] : chans[id].post = p
  BY <1>1, <1>4
<1> QED BY <1>3, <1>4 DEF RegistryExact

LEMMA RegistryStep == RegistryInv /\ [BroadcasterNext]_broadcasterVars => RegistryInv'
<1> SUFFICES ASSUME RegistryInv, [BroadcasterNext]_broadcasterVars
             PROVE  RegistryInv'
  OBVIOUS
<1>t. BroadcasterTypeOK /\ BroadcasterTypeOK'
  BY BroadcasterTypeStep DEF RegistryInv
<1>r. /\ \A p \in DOMAIN subs : subs[p] # {}
      /\ \A id \in 1..seq : chans[id].open <=> ~chans[id].onceDone
      /\ \A p : \A id \in 1..seq :
           id \in Listeners(p) <=> chans[id].post = p /\ chans[id].open
      /\ ~panicked
  BY <1>t, RegistryByListeners DEF RegistryInv, NeverPanics
<1> DEFINE Entries  == \A p \in DOMAIN subs : subs[p] # {}
           Onces    == \A id \in 1..seq : chans[id].open <=> ~chans[id].onceDone
           Matching == \A p : \A id \in 1..seq :
                         id \in Listeners(p) <=> chans[id].post = p /\ chans[id].open
<1>q. ASSUME Entries', Onces', Matching', ~panicked' PROVE RegistryInv'
  <2>1. RegistryExact'
    <3>1. \A p \in DOMAIN subs' : \A id \in subs'[p] : id \in 1..seq'
      BY <1>t DEF BroadcasterTypeOK
    <3>2. \A p \in DOMAIN subs' : subs'[p] = Listeners(p)'
      BY DEF Listeners
    <3> QED BY <1>q, <3>1, <3>2 DEF RegistryExact
  <2> QED BY <1>t, <1>q, <2>1 DEF RegistryInv, NeverPanics
<1> HIDE DEF Entries, Onces, Matching
<1>c. \A id \in 1..seq : chans[id] \in Chan
  BY <1>t DEF BroadcasterTypeOK
<1>1. ASSUME NEW p \in Posts, Subscribe(p) PROVE RegistryInv'
  <2>1. /\ seq \in Nat /\ seq' = seq + 1
        /\ subs' = SetListeners(p, Listeners(p) \cup {seq + 1})
        /\ \A id \in 1..seq : chans'[id] = chans[id]
        /\ chans'[seq + 1].post = p /\ chans'[seq + 1].open
        /\ ~chans'[seq + 1].onceDone
        /\ panicked' = panicked
    BY <1>1, <1>t DEF Subscribe, NewChan, BroadcasterTypeOK
  <2>2. \A id \in 1..seq' : id \in 1..seq \/ id = seq + 1
    BY <2>1
  <2>3. \A q : Listeners(q) \subseteq 1..seq
    BY <1>t DEF BroadcasterTypeOK, Listeners
  <2>4. Entries'
    BY <1>r, <2>1, SetListenersFacts DEF Entries
  <2>5. Onces'
    BY <1>r, <2>1, <2>2 DEF Onces
  <2>6. Matching'
    <3>1. /\ Listeners(p)' = Listeners(p) \cup {seq + 1}
          /\ \A q : q # p => Listeners(q)' = Listeners(q)
      BY <2>1, SetListenersFacts
    <3>2. \A q : seq + 1 \notin Listeners(q)
      BY <2>1, <2>3
    <3> QED BY <1>r, <2>1, <2>2, <3>1, <3>2 DEF Matching
  <2> QED BY <1>q, <1>r, <2>1, <2>4, <2>5, <2>6
<1>2. ASSUME NEW p \in Posts, Publish(p) PROVE RegistryInv'
  <2>1. events + 1 \in Event /\ DOMAIN chans = 1..seq
    BY <1>t, BroadcasterAssumption DEF BroadcasterTypeOK, Event
  <2>2. \A id \in 1..seq : /\ chans'[id].post = chans[id].post
                           /\ chans'[id].open = chans[id].open
                           /\ chans'[id].onceDone = chans[id].onceDone
    BY <1>2, <1>c, <1>t, <2>1, SendType DEF Publish, BroadcasterTypeOK
  <2>3. UNCHANGED <<seq, subs>>
    BY <1>2 DEF Publish
  <2>4. ~panicked'
    <3>1. \A id \in Listeners(p) : id \in 1..seq
      BY <1>t DEF BroadcasterTypeOK, Listeners
    <3> QED BY <1>2, <1>r, <3>1 DEF Publish
  <2>5. Entries' /\ Onces' /\ Matching'
    BY <1>r, <2>2, <2>3 DEF Entries, Onces, Matching, Listeners
  <2> QED BY <1>q, <2>4, <2>5
<1>3. ASSUME NEW id \in 1..seq, Unsubscribe(id) PROVE RegistryInv'
  <2>1. CASE UNCHANGED broadcasterVars
    BY <2>1 DEF RegistryInv, broadcasterVars, BroadcasterTypeOK, RegistryExact,
                NeverPanics, Listeners
  <2>2. CASE ~chans[id].onceDone
    <3> DEFINE post == chans[id].post
    <3>1. /\ subs' = SetListeners(post, Listeners(post) \ {id})
          /\ panicked' = (panicked \/ ~chans[id].open)
          /\ chans' = [chans EXCEPT ![id] = [chans[id] EXCEPT !.open = FALSE,
                                                             !.onceDone = TRUE]]
          /\ seq' = seq
      BY <1>3, <2>2 DEF Unsubscribe
    <3>2. /\ chans'[id].post = post /\ ~chans'[id].open /\ chans'[id].onceDone
          /\ \A k \in 1..seq \ {id} : chans'[k] = chans[k]
      BY <3>1, <1>c, <1>t DEF BroadcasterTypeOK, Chan
    <3>3. ~panicked'
      BY <1>r, <2>2, <3>1
    <3>4. Entries'
      BY <1>r, <3>1, SetListenersFacts DEF Entries
    <3>5. Onces'
      BY <1>r, <3>1, <3>2 DEF Onces
    <3>6. Matching'
      <4>1. /\ Listeners(post)' = Listeners(post) \ {id}
            /\ \A q : q # post => Listeners(q)' = Listeners(q)
        BY <3>1, SetListenersFacts
      <4> QED BY <1>r, <3>1, <3>2, <4>1 DEF Matching
    <3> QED BY <1>q, <3>3, <3>4, <3>5, <3>6
  <2> QED BY <1>3, <2>1, <2>2 DEF Unsubscribe
<1>4. ASSUME NEW id \in 1..seq, Receive(id) PROVE RegistryInv'
  <2>1. \A k \in 1..seq : /\ chans'[k].post = chans[k].post
                          /\ chans'[k].open = chans[k].open
                          /\ chans'[k].onceDone = chans[k].onceDone
    BY <1>4, <1>c, <1>t DEF Receive, BroadcasterTypeOK, Chan
  <2>2. UNCHANGED <<seq, subs, panicked>>
    BY <1>4 DEF Receive
  <2>3. Entries' /\ Onces' /\ Matching'
    BY <1>r, <2>1, <2>2 DEF Entries, Onces, Matching, Listeners
  <2> QED BY <1>q, <1>r, <2>2, <2>3
<1>5. CASE UNCHANGED broadcasterVars
  BY <1>5 DEF RegistryInv, broadcasterVars, BroadcasterTypeOK, RegistryExact,
              NeverPanics, Listeners
<1> QED BY <1>1, <1>2, <1>3, <1>4, <1>5 DEF BroadcasterNext

LEMMA RegistryInit == BroadcasterInit => RegistryInv
<1> SUFFICES ASSUME BroadcasterInit PROVE RegistryInv
  OBVIOUS
<1>1. DOMAIN subs = {} /\ 1..seq = {} /\ ~panicked
  BY DEF BroadcasterInit
<1> QED BY <1>1, BroadcasterTypeInit DEF RegistryInv, RegistryExact, NeverPanics

LEMMA RegistryInvariant == BroadcasterSpec => []RegistryInv
  BY RegistryInit, RegistryStep, PTL DEF BroadcasterSpec

\* The registry holds exactly the open channels, each under its own post, with no
\* empty entry left behind (notifier.go:25-45).
THEOREM RegistryAlwaysExact == BroadcasterSpec => []RegistryExact
  BY RegistryInvariant, PTL DEF RegistryInv

\* No interleaving of Subscribe, Publish and repeated unsubscribes sends on a
\* closed channel or closes one twice.
THEOREM PublishNeverPanics == BroadcasterSpec => []NeverPanics
  BY RegistryInvariant, PTL DEF RegistryInv

-----------------------------------------------------------------------------
(* The order of the events of one channel. *)

\* The indices of the events of a channel that are not dropped.
KeptAt(ch) == {i \in DOMAIN ch.sent : ch.sent[i] \notin ch.dropped}

\* Drops come behind a buffer's worth of kept events.
DropsBehindBuffer(ch) ==
  \A k \in DOMAIN ch.sent : ch.sent[k] \in ch.dropped =>
    Cardinality({j \in 1..(k - 1) : ch.sent[j] \notin ch.dropped}) >= BufferSize

\* The channel is in order, and events up to n only have been sent to it.
InOrder(ch, n) ==
  /\ \A k \in DOMAIN ch.sent : ch.sent[k] <= n
  /\ \A e \in ch.dropped : e <= n
  /\ ch.taken \o ch.buf = Kept(ch)
  /\ DropsBehindBuffer(ch)

LEMMA SendKeepsOrder ==
  ASSUME NEW ch \in Chan, NEW n \in Nat, InOrder(ch, n), Len(ch.buf) <= BufferSize
  PROVE  InOrder(Send(ch, n + 1), n + 1)
<1> DEFINE e == n + 1
           c == Send(ch, e)
           l == Len(ch.sent)
           sent == ch.sent
           more == Append(ch.sent, e)
           buf == ch.buf
           lost == ch.dropped
           taken == ch.taken
<1>1. /\ sent \in Seq(Event) /\ buf \in Seq(Event) /\ taken \in Seq(Event)
      /\ lost \subseteq Event /\ l \in Nat /\ e \in Event /\ DOMAIN sent = 1..l
  BY DEF Chan, Event
<1>2. /\ more \in Seq(Event) /\ Len(more) = l + 1 /\ more[l + 1] = e
      /\ \A k \in 1..l : more[k] = sent[k]
      /\ DOMAIN more = 1..(l + 1)
  BY <1>1
<1>3. /\ c.sent = more /\ c.taken = taken
      /\ Len(buf) < BufferSize => c.buf = Append(buf, e) /\ c.dropped = lost
      /\ ~(Len(buf) < BufferSize) => c.buf = buf /\ c.dropped = lost \cup {e}
  BY DEF Send, Chan
<1>4. /\ \A k \in 1..l : sent[k] <= n /\ sent[k] \in Nat
      /\ \A d \in lost : d <= n /\ d \in Nat
      /\ taken \o buf = Filter(sent, KeptAt(ch))
      /\ \A k \in 1..l : sent[k] \in lost =>
           Cardinality({j \in 1..(k - 1) : sent[j] \notin lost}) >= BufferSize
  <2>1. \A k \in 1..l : sent[k] <= n /\ sent[k] \in Nat
    BY <1>1 DEF InOrder, Event
  <2>2. \A d \in lost : d <= n /\ d \in Nat
    BY <1>1 DEF InOrder, Event
  <2>3. taken \o buf = Filter(sent, KeptAt(ch))
    BY Zenon DEF InOrder, Kept, KeptAt
  <2>4. \A k \in DOMAIN sent : sent[k] \in lost =>
          Cardinality({j \in 1..(k - 1) : sent[j] \notin lost}) >= BufferSize
    BY Zenon DEF InOrder, DropsBehindBuffer
  <2> HIDE DEF l, sent, buf, lost, taken
  <2> QED BY <1>1, <2>1, <2>2, <2>3, <2>4
<1> HIDE DEF c, l, sent, more, buf, lost, taken
<1>5. /\ \A k \in 1..l : sent[k] \in c.dropped <=> sent[k] \in lost
      /\ \A k \in 1..(l + 1) : more[k] <= e
      /\ \A d \in c.dropped : d <= e
  <2>1. \A k \in 1..l : sent[k] # e /\ sent[k] <= e
    BY <1>4
  <2>2. \A k \in 1..(l + 1) : k \in 1..l \/ k = l + 1
    BY <1>1
  <2>3. c.dropped = lost \/ c.dropped = lost \cup {e}
    BY <1>3
  <2>4. \A k \in 1..(l + 1) : more[k] <= e
    BY <1>2, <2>1, <2>2
  <2>5. e <= e
    OBVIOUS
  <2> HIDE DEF e
  <2>6. \A d \in lost : d <= e
    BY <1>4 DEF e
  <2> QED BY ONLY <2>1, <2>3, <2>4, <2>5, <2>6
<1>6. KeptAt(c) = IF Len(buf) < BufferSize THEN KeptAt(ch) \cup {l + 1} ELSE KeptAt(ch)
  <2>1. KeptAt(c) = {i \in 1..(l + 1) : more[i] \notin c.dropped}
    BY <1>2, <1>3 DEF KeptAt
  <2>2. KeptAt(ch) = {i \in 1..l : sent[i] \notin lost}
    BY <1>1 DEF KeptAt, sent, lost
  <2>3. \A i \in 1..l : i \in KeptAt(c) <=> i \in KeptAt(ch)
    BY <1>1, <1>2, <1>5, <2>1, <2>2
  <2>4. l + 1 \in KeptAt(c) <=> Len(buf) < BufferSize
    <3>1. e \notin lost
      BY <1>4
    <3> QED BY <1>1, <1>2, <1>3, <2>1, <3>1
  <2>5. l + 1 \notin 1..l /\ \A i \in 1..(l + 1) : i \in 1..l \/ i = l + 1
    BY <1>1
  <2> QED BY <2>1, <2>2, <2>3, <2>4, <2>5
<1>7. Filter(more, KeptAt(c)) =
        IF Len(buf) < BufferSize THEN Append(Filter(sent, KeptAt(ch)), e)
        ELSE Filter(sent, KeptAt(ch))
  <2>1. KeptAt(ch) \subseteq 1..l
    BY <1>1 DEF KeptAt, sent
  <2>2. l + 1 \notin 1..l
    BY <1>1
  <2>3. Filter(sent, KeptAt(c)) = Filter(sent, KeptAt(ch))
    <3>1. \A i \in 1..Len(sent) : i \in KeptAt(c) <=> i \in KeptAt(ch)
      BY <1>6, <2>2 DEF l, sent
    <3>2. Len(sent) \in Nat
      BY <1>1
    <3> QED BY <3>1, <3>2, FilterSame
  <2>4. Filter(more, KeptAt(c)) = IF l + 1 \in KeptAt(c) THEN Append(Filter(sent, KeptAt(c)), e)
                                  ELSE Filter(sent, KeptAt(c))
    <3>1. more = Append(sent, e) /\ l = Len(sent)
      BY DEF more, sent, l
    <3>2. sent \in Seq(Event) /\ e \in Event
      BY <1>1
    <3> HIDE DEF e
    <3> QED BY ONLY <3>1, <3>2, FilterAppend
  <2> QED BY <1>6, <2>1, <2>2, <2>3, <2>4
<1>8. taken \o Append(buf, e) = Append(taken \o buf, e)
  BY <1>1
<1>9. c.taken \o c.buf = Kept(c)
  <2>1. Kept(c) = Filter(more, KeptAt(c))
    BY <1>3 DEF Kept, KeptAt
  <2> QED BY <1>3, <1>4, <1>7, <1>8, <2>1
<1>10. DropsBehindBuffer(c)
  <2>1. ASSUME NEW k \in 1..(l + 1), more[k] \in c.dropped
        PROVE  Cardinality({j \in 1..(k - 1) : more[j] \notin c.dropped}) >= BufferSize
    <3>1. {j \in 1..(k - 1) : more[j] \notin c.dropped} = {j \in 1..(k - 1) : sent[j] \notin lost}
      BY <1>1, <1>2, <1>5
    <3>2. CASE k \in 1..l
      BY <1>2, <1>4, <1>5, <2>1, <3>1, <3>2
    <3>3. CASE k = l + 1
      <4>1. ~(Len(buf) < BufferSize) /\ Len(buf) \in Nat /\ Len(taken) \in Nat
        BY <1>1, <1>2, <1>3, <1>4, <2>1, <3>3
      <4>2. Cardinality({i \in 1..Len(sent) : i \in KeptAt(ch)}) = Len(Filter(sent, KeptAt(ch)))
        BY <1>1, FilterLength
      <4>3. {i \in 1..Len(sent) : i \in KeptAt(ch)} = {j \in 1..(k - 1) : sent[j] \notin lost}
        BY <1>1, <3>3 DEF KeptAt, sent, lost, l
      <4>4. Len(taken \o buf) = Len(taken) + Len(buf)
        BY <1>1
      <4>5. Len(taken) + Len(buf) >= BufferSize
        BY ONLY <4>1, BroadcasterAssumption
      <4>6. Cardinality({j \in 1..(k - 1) : sent[j] \notin lost}) = Len(taken \o buf)
        BY ONLY <1>4, <4>2, <4>3, Zenon
      <4> QED BY ONLY <3>1, <4>4, <4>5, <4>6
    <3>4. k \in 1..l \/ k = l + 1
      BY <1>1
    <3> QED BY ONLY <3>2, <3>3, <3>4
  <2>2. DOMAIN c.sent = 1..(l + 1) /\ c.sent = more
    BY <1>2, <1>3
  <2> QED BY <2>1, <2>2, Zenon DEF DropsBehindBuffer
<1>11. \A k \in DOMAIN c.sent : c.sent[k] <= e
  BY <1>2, <1>3, <1>5
<1> QED BY <1>5, <1>9, <1>10, <1>11 DEF InOrder, c
-----------------------------------------------------------------------------
(* The order of events, over the steps of the registry. *)

EventsInv == BroadcasterTypeOK /\ \A id \in 1..seq : InOrder(chans[id], events)

\* What a subscription has received, has waiting and has lost is not affected by
\* the other fields of its channel, nor by later events.
LEMMA OrderOfSameEvents ==
  ASSUME NEW ch \in Chan, NEW other \in Chan, NEW n \in Nat, NEW m \in Nat, n <= m,
         InOrder(ch, n), other.sent = ch.sent, other.dropped = ch.dropped,
         other.taken \o other.buf = ch.taken \o ch.buf
  PROVE  InOrder(other, m)
<1>1. Kept(other) = Kept(ch) /\ (DropsBehindBuffer(ch) => DropsBehindBuffer(other))
  BY Zenon DEF Kept, DropsBehindBuffer
<1>2. /\ \A k \in DOMAIN ch.sent : ch.sent[k] \in Nat
      /\ \A e \in ch.dropped : e \in Nat
  BY DEF Chan, Event
<1>3. \A e \in Nat : e <= n => e <= m
  OBVIOUS
<1>4. \A k \in DOMAIN other.sent : other.sent[k] <= m
  BY <1>2, <1>3 DEF InOrder
<1>5. \A e \in other.dropped : e <= m
  BY <1>2, <1>3 DEF InOrder
<1> QED BY <1>1, <1>4, <1>5 DEF InOrder

LEMMA EventsInit == BroadcasterInit => EventsInv
<1> SUFFICES ASSUME BroadcasterInit PROVE EventsInv
  OBVIOUS
<1>1. 1..seq = {}
  BY DEF BroadcasterInit
<1> QED BY <1>1, BroadcasterTypeInit DEF EventsInv

LEMMA EventsStep == EventsInv /\ [BroadcasterNext]_broadcasterVars => EventsInv'
<1> SUFFICES ASSUME EventsInv, [BroadcasterNext]_broadcasterVars
             PROVE  \A id \in 1..seq' : InOrder(chans'[id], events')
  BY BroadcasterTypeStep DEF EventsInv
<1>t. /\ BroadcasterTypeOK /\ BroadcasterTypeOK' /\ seq \in Nat /\ events \in Nat
      /\ DOMAIN chans = 1..seq
      /\ \A id \in 1..seq : /\ chans[id] \in Chan /\ InOrder(chans[id], events)
                            /\ Len(chans[id].buf) <= BufferSize
  <2>1. BroadcasterTypeOK /\ BroadcasterTypeOK'
    BY BroadcasterTypeStep DEF EventsInv
  <2>2. seq \in Nat /\ events \in Nat /\ DOMAIN chans = 1..seq
    BY <2>1, BroadcasterAssumption DEF BroadcasterTypeOK
  <2>3. \A id \in 1..seq : /\ chans[id] \in Chan /\ InOrder(chans[id], events)
                           /\ Len(chans[id].buf) <= BufferSize
    BY <2>1 DEF EventsInv, BroadcasterTypeOK
  <2> QED BY <2>1, <2>2, <2>3
<1>s. ASSUME NEW ch \in Chan, InOrder(ch, events) PROVE InOrder(ch, events + 1)
  <2>1. events \in Nat /\ events + 1 \in Nat /\ events <= events + 1
    BY <1>t
  <2> QED BY <1>s, <2>1, OrderOfSameEvents
<1>1. ASSUME NEW p \in Posts, Subscribe(p)
      PROVE  \A id \in 1..seq' : InOrder(chans'[id], events')
  <2>1. InOrder(NewChan(p), events)
    <3> DEFINE ch == NewChan(p)
    <3>1. ch.sent = <<>> /\ ch.dropped = {} /\ ch.taken = <<>> /\ ch.buf = <<>>
      BY DEF NewChan
    <3> HIDE DEF ch
    <3>2. DOMAIN ch.sent = {} /\ 1..Len(ch.sent) = {}
      BY <3>1
    <3>3. Kept(ch) = <<>>
      <4> DEFINE none == KeptAt(ch)
      <4>1. <<>> \in Seq(Event) /\ 1..Len(<<>>) \subseteq none
        OBVIOUS
      <4> HIDE DEF none
      <4>2. Filter(<<>>, none) = <<>>
        BY <4>1, FilterAll
      <4> QED BY <3>1, <4>2 DEF Kept, KeptAt, none
    <3>4. ch.taken \o ch.buf = <<>>
      BY <3>1
    <3> QED BY <3>1, <3>2, <3>3, <3>4 DEF InOrder, DropsBehindBuffer, ch
  <2>2. /\ events' = events /\ seq' = seq + 1
        /\ \A id \in 1..seq' : chans'[id] = IF id = seq + 1 THEN NewChan(p) ELSE chans[id]
    BY <1>1 DEF Subscribe
  <2>3. \A id \in 1..seq' : id \in 1..seq \/ id = seq + 1
    BY <1>t, <2>2
  <2>4. seq + 1 \notin 1..seq
    BY <1>t
  <2> QED BY <1>t, <2>1, <2>2, <2>3, <2>4
<1>2. ASSUME NEW p \in Posts, Publish(p)
      PROVE  \A id \in 1..seq' : InOrder(chans'[id], events')
  <2>1. /\ events' = events + 1 /\ seq' = seq
        /\ \A id \in 1..seq : chans'[id] = IF id \in Listeners(p)
                                           THEN Send(chans[id], events + 1) ELSE chans[id]
    BY <1>2, <1>t DEF Publish
  <2>2. \A id \in 1..seq : InOrder(Send(chans[id], events + 1), events + 1)
    BY <1>t, SendKeepsOrder
  <2>3. \A id \in 1..seq : InOrder(chans[id], events + 1)
    BY <1>t, <1>s
  <2> QED BY <2>1, <2>2, <2>3
<1>3. ASSUME NEW id \in 1..seq, Unsubscribe(id), ~chans[id].onceDone
      PROVE  \A k \in 1..seq' : InOrder(chans'[k], events')
  <2> DEFINE ch == [chans[id] EXCEPT !.open = FALSE, !.onceDone = TRUE]
  <2>1. /\ chans' = [chans EXCEPT ![id] = ch] /\ UNCHANGED <<seq, events>>
    BY <1>3 DEF Unsubscribe
  <2>2. /\ ch \in Chan /\ ch.sent = chans[id].sent /\ ch.dropped = chans[id].dropped
        /\ ch.taken = chans[id].taken /\ ch.buf = chans[id].buf
    BY <1>t DEF Chan
  <2> HIDE DEF ch
  <2>3. InOrder(ch, events)
    <3>1. events <= events
      BY <1>t
    <3> QED BY <1>t, <2>2, <3>1, OrderOfSameEvents
  <2>4. \A k \in 1..seq : chans'[k] = IF k = id THEN ch ELSE chans[k]
    BY <1>t, <2>1
  <2> QED BY <1>t, <2>1, <2>3, <2>4
<1>4. ASSUME NEW id \in 1..seq, Receive(id)
      PROVE  \A k \in 1..seq' : InOrder(chans'[k], events')
  <2> DEFINE buf == chans[id].buf
             got == chans[id].taken
             taken == Append(got, Head(buf))
             ch == [chans[id] EXCEPT !.buf = Tail(buf), !.taken = taken]
  <2>1. /\ chans' = [chans EXCEPT ![id] = ch] /\ UNCHANGED <<seq, events>>
    BY <1>4 DEF Receive
  <2>2. buf \in Seq(Event) /\ buf # <<>> /\ got \in Seq(Event)
    BY <1>4, <1>t DEF Receive, Chan
  <2>3. /\ Tail(buf) \in Seq(Event) /\ taken \in Seq(Event)
        /\ taken \o Tail(buf) = got \o buf
    <3> HIDE DEF buf, got
    <3>1. /\ Tail(buf) \in Seq(Event) /\ taken \in Seq(Event)
          /\ Len(taken \o Tail(buf)) = Len(got \o buf)
      BY <2>2
    <3>2. \A i \in 1..Len(got \o buf) : (taken \o Tail(buf))[i] = (got \o buf)[i]
      BY <2>2, <3>1
    <3> QED BY <2>2, <3>1, <3>2
  <2>4. /\ ch \in Chan /\ ch.sent = chans[id].sent /\ ch.dropped = chans[id].dropped
        /\ ch.taken = taken /\ ch.buf = Tail(buf)
    BY <1>t, <2>3 DEF Chan
  <2> HIDE DEF ch, taken
  <2>5. InOrder(ch, events)
    <3>1. events <= events
      BY <1>t
    <3>2. ch.taken \o ch.buf = chans[id].taken \o chans[id].buf
      BY <2>3, <2>4
    <3> QED BY ONLY <1>t, <2>4, <3>1, <3>2, OrderOfSameEvents
  <2>6. \A k \in 1..seq : chans'[k] = IF k = id THEN ch ELSE chans[k]
    BY <1>t, <2>1
  <2> QED BY <1>t, <2>1, <2>5, <2>6
<1>5. CASE UNCHANGED broadcasterVars
  BY <1>t, <1>5 DEF broadcasterVars
<1> QED
  <2>1. CASE BroadcasterNext
    <3>1. CASE \E p \in Posts : Subscribe(p)
      BY <1>1, <3>1
    <3>2. CASE \E p \in Posts : Publish(p)
      BY <1>2, <3>2
    <3>3. CASE \E id \in 1..seq : Unsubscribe(id)
      BY <1>3, <1>5, <3>3 DEF Unsubscribe
    <3>4. CASE \E id \in 1..seq : Receive(id)
      BY <1>4, <3>4
    <3> QED BY <2>1, <3>1, <3>2, <3>3, <3>4 DEF BroadcasterNext
  <2> QED BY <1>5, <2>1

LEMMA EventsInvariant == BroadcasterSpec => []EventsInv
  BY EventsInit, EventsStep, PTL DEF BroadcasterSpec

\* What a subscriber has received, and has waiting, is what was published to it, in
\* order and once each, less the drops, and nothing is dropped while there is room
\* (notifier.go:47-60).
THEOREM EventsAlwaysInOrder == BroadcasterSpec => []EventsInOrder
<1>1. EventsInv => EventsInOrder
  BY Zenon DEF EventsInv, InOrder, DropsBehindBuffer, EventsInOrder
<1> QED BY <1>1, EventsInvariant, PTL

-----------------------------------------------------------------------------
(* The inductive invariant. *)

SubRec == [at : {"tracking", "waiting", "holding", "leaving", "unsubscribed", "ended"},
           ctx : BOOLEAN, done : BOOLEAN, hand : Nat, since : Nat, outClosed : BOOLEAN]

Registered(s) == s.at \in {"tracking", "waiting", "holding", "leaving"}

FeedTypeOK ==
  /\ stored \in Seq(Posts)
  /\ writer \in [Writers -> Nat]
  /\ \A w \in Writers : writer[w] <= Len(stored)
  /\ sub \in [1..seq -> SubRec]
  /\ tracked \subseteq 1..seq /\ cancels \subseteq 1..seq

\* A goroutine that has not unsubscribed has an open channel, one that has has not.
GoroutineInv ==
  \A id \in 1..seq : /\ chans[id].open <=> Registered(sub[id])
                     /\ sub[id].hand # 0 <=> sub[id].at = "holding"
                     /\ id \in tracked => sub[id].at # "tracking"

\* Comment c has been sent to subscription id or is about to be published, or the
\* request that stored it was told of a failure.
Accounted(id, c) ==
  \/ c \in failed
  \/ \E w \in Writers : writer[w] = c
  \/ \E e \in DOMAIN comment :
       /\ comment[e] = c
       /\ \E k \in DOMAIN chans[id].sent : chans[id].sent[k] = e

\* Each publication adds its comment to comment, and NoCommentMissed holds.
PublicationInv ==
  /\ comment \in Seq(Nat) /\ Len(comment) = events
  /\ \A id \in 1..seq : chans[id].open =>
       \A c \in Nat : /\ sub[id].since < c /\ c <= Len(stored)
                      /\ stored[c] = chans[id].post
                      => Accounted(id, c)

FeedInv == RegistryInv /\ FeedTypeOK /\ GoroutineInv /\ PublicationInv

-----------------------------------------------------------------------------
(* A step of the feed is a step of the Broadcaster or leaves it alone. *)

LEMMA FeedStepsBroadcaster ==
  ASSUME FeedTypeOK, [FeedNext]_allVars
  PROVE  [BroadcasterNext]_broadcasterVars
<1>1. ASSUME NEW w \in Writers, PublishComment(w) PROVE BroadcasterNext
  <2>1. writer[w] \in 1..Len(stored)
    BY <1>1 DEF PublishComment, FeedTypeOK
  <2>2. stored[writer[w]] \in Posts
    BY <2>1 DEF FeedTypeOK
  <2> QED BY <1>1, <2>2 DEF PublishComment, BroadcasterNext
<1>2. ASSUME NEW w \in Writers, NEW p \in Posts, StoreComment(w, p) \/ StoreUnanswered(w, p)
      PROVE  UNCHANGED broadcasterVars
  BY <1>2 DEF StoreComment, StoreUnanswered
<1>3. ASSUME NEW id \in Subscriptions,
             \/ TrackSub(id) \/ TakeEvent(id) \/ PassOn(id)
             \/ Leave(id) \/ EndUnsubscribe(id) \/ EndClose(id) \/ Untrack(id)
      PROVE  BroadcasterNext \/ UNCHANGED broadcasterVars
  <2>1. id \in 1..seq
    BY DEF FeedTypeOK, Subscriptions
  <2> QED
    BY <1>3, <2>1 DEF TrackSub, TakeEvent, PassOn, Leave, EndUnsubscribe, EndClose, Untrack,
                      BroadcasterNext
<1>4. CASE ClientNext
  BY <1>4 DEF ClientNext, StartSubscription, ClientLeaves, BroadcasterNext
<1>5. CASE ShutdownNext
  BY <1>5 DEF ShutdownNext, ShutdownSnapshot, ShutdownCancelled, ShutdownCancel
<1>6. CASE UNCHANGED allVars
  BY <1>6 DEF allVars
<1> QED
  BY <1>1, <1>2, <1>3, <1>4, <1>5, <1>6 DEF FeedNext, WriterNext, GoroutineNext

-----------------------------------------------------------------------------
(* What the calls of the Broadcaster do to its channels. *)

\* Subscription id keeps its post and what was sent to it, and an open channel.
SameChan(id) == /\ chans'[id].post = chans[id].post
                /\ chans'[id].open = chans[id].open
                /\ chans'[id].sent = chans[id].sent

LEMMA SubscribeFacts ==
  ASSUME BroadcasterTypeOK, NEW post \in Posts, Subscribe(post)
  PROVE  /\ seq \in Nat /\ seq' = seq + 1 /\ events' = events
         /\ \A id \in 1..seq : SameChan(id)
         /\ chans'[seq + 1].open
<1>1. /\ seq \in Nat /\ seq' = seq + 1 /\ events' = events
      /\ chans' = [id \in 1..(seq + 1) |-> IF id = seq + 1 THEN NewChan(post) ELSE chans[id]]
  BY BroadcasterAssumption DEF BroadcasterTypeOK, Subscribe
<1>2. NewChan(post).open
  BY DEF NewChan
<1> HIDE DEF NewChan
<1>3. \A id \in 1..seq : chans'[id] = chans[id]
  BY <1>1
<1> QED BY <1>1, <1>2, <1>3 DEF SameChan

LEMMA UnsubscribeFacts ==
  ASSUME RegistryInv, NEW id \in 1..seq, Unsubscribe(id)
  PROVE  /\ UNCHANGED <<seq, events>>
         /\ \A k \in 1..seq \ {id} : SameChan(k)
         /\ chans'[id].post = chans[id].post /\ chans'[id].sent = chans[id].sent
         /\ ~chans'[id].open
<1>1. chans \in [1..seq -> Chan]
  BY DEF RegistryInv, BroadcasterTypeOK
<1>2. CASE chans[id].onceDone
  BY <1>1, <1>2 DEF Unsubscribe, broadcasterVars, RegistryInv, RegistryExact, SameChan
<1>3. CASE ~chans[id].onceDone
  <2>1. /\ chans' = [chans EXCEPT ![id] = [chans[id] EXCEPT !.open = FALSE, !.onceDone = TRUE]]
        /\ UNCHANGED <<seq, events>>
    BY <1>3 DEF Unsubscribe
  <2> QED BY <1>1, <2>1 DEF SameChan, Chan
<1> QED BY <1>2, <1>3

LEMMA ReceiveFacts ==
  ASSUME BroadcasterTypeOK, NEW id \in 1..seq, Receive(id)
  PROVE  /\ UNCHANGED <<seq, events>>
         /\ \A k \in 1..seq : SameChan(k)
         /\ Head(chans[id].buf) \in Nat \ {0}
<1>1. chans \in [1..seq -> Chan] /\ chans[id] \in Chan
  BY DEF BroadcasterTypeOK
<1>2. chans[id].buf \in Seq(Event) /\ chans[id].buf # <<>>
  BY <1>1 DEF Receive, Chan
<1>3. Head(chans[id].buf) \in Nat \ {0}
  BY <1>2 DEF Event
<1> DEFINE ch == [chans[id] EXCEPT !.buf = Tail(chans[id].buf),
                                   !.taken = Append(chans[id].taken, Head(chans[id].buf))]
<1>4. chans' = [chans EXCEPT ![id] = ch] /\ UNCHANGED <<seq, events>>
  BY DEF Receive
<1>5. ch.post = chans[id].post /\ ch.open = chans[id].open /\ ch.sent = chans[id].sent
  BY <1>1 DEF Chan
<1> HIDE DEF ch
<1> QED BY <1>1, <1>3, <1>4, <1>5 DEF SameChan

\* A published event is the last of those sent to each listener, and to no other.
LEMMA PublishFacts ==
  ASSUME RegistryInv, NEW post, Publish(post)
  PROVE  /\ UNCHANGED seq /\ events \in Nat /\ events' = events + 1
         /\ \A id \in 1..seq :
              /\ chans'[id].post = chans[id].post /\ chans'[id].open = chans[id].open
              /\ chans[id].sent \in Seq(Event)
              /\ IF chans[id].open /\ chans[id].post = post
                 THEN chans'[id].sent = Append(chans[id].sent, events + 1)
                 ELSE chans'[id].sent = chans[id].sent
<1>1. /\ chans \in [1..seq -> Chan] /\ events \in Nat
      /\ \A id \in 1..seq : chans[id].open /\ chans[id].post = post <=> id \in Listeners(post)
  BY RegistryByListeners DEF RegistryInv, BroadcasterTypeOK
<1>2. ASSUME NEW id \in 1..seq
      PROVE  /\ Send(chans[id], events + 1).sent = Append(chans[id].sent, events + 1)
             /\ Send(chans[id], events + 1).post = chans[id].post
             /\ Send(chans[id], events + 1).open = chans[id].open
  <2>1. chans[id] \in Chan
    BY <1>1
  <2> QED BY <2>1 DEF Send, Chan
<1>3. \A id \in 1..seq : chans[id].sent \in Seq(Event)
  BY <1>1 DEF Chan
<1>4. /\ UNCHANGED seq /\ events' = events + 1
      /\ \A id \in 1..seq : chans'[id] = IF id \in Listeners(post)
                                         THEN Send(chans[id], events + 1) ELSE chans[id]
  BY <1>1 DEF Publish
<1> HIDE DEF Send
<1> QED BY <1>1, <1>2, <1>3, <1>4

-----------------------------------------------------------------------------
(* Steps that leave the Broadcaster and the comments alone: the record of a *)
(* subscription, or Resolver's maps, change.                                *)

\* What a step may do to the goroutine of id without touching the Broadcaster.
Harmless(s, t) == /\ t \in SubRec /\ t.since = s.since
                  /\ Registered(t) <=> Registered(s)
                  /\ t.hand # 0 <=> t.at = "holding"
                  /\ t.at = "tracking" => s.at = "tracking"

LEMMA QuietStep ==
  ASSUME FeedInv, UNCHANGED broadcasterVars, UNCHANGED <<stored, failed, writer, comment>>,
         sub' \in [1..seq -> SubRec],
         \A id \in 1..seq : sub'[id] = sub[id] \/ Harmless(sub[id], sub'[id]),
         tracked' \subseteq 1..seq, cancels' \subseteq 1..seq,
         \A id \in tracked' : id \in tracked \/ sub'[id].at # "tracking"
  PROVE  FeedTypeOK' /\ GoroutineInv' /\ PublicationInv'
<1>1. seq' = seq /\ chans' = chans /\ events' = events
  BY DEF broadcasterVars
<1>2. FeedTypeOK'
  BY <1>1 DEF FeedInv, FeedTypeOK
<1>3. GoroutineInv'
  BY <1>1 DEF FeedInv, GoroutineInv, Harmless, Registered
<1>4. PublicationInv'
  <2>1. \A id \in 1..seq : sub'[id].since = sub[id].since
    BY DEF Harmless
  <2>2. \A id, c : Accounted(id, c)' <=> Accounted(id, c)
    BY <1>1 DEF Accounted
  <2> QED BY <1>1, <2>1, <2>2 DEF FeedInv, PublicationInv
<1> QED BY <1>2, <1>3, <1>4

LEMMA QuietSteps ==
  ASSUME FeedInv, NEW id \in Subscriptions,
         \/ TrackSub(id) \/ PassOn(id) \/ Leave(id) \/ EndClose(id)
         \/ ClientLeaves(id) \/ ShutdownCancel(id)
  PROVE  FeedTypeOK' /\ GoroutineInv' /\ PublicationInv'
<1>t. /\ id \in 1..seq /\ sub \in [1..seq -> SubRec] /\ sub[id] \in SubRec
      /\ tracked \subseteq 1..seq /\ cancels \subseteq 1..seq
      /\ sub[id].hand # 0 <=> sub[id].at = "holding"
  BY DEF FeedInv, FeedTypeOK, GoroutineInv, Subscriptions
<1>q. ASSUME NEW t \in SubRec, sub' = [sub EXCEPT ![id] = t],
             Harmless(sub[id], t), tracked' \subseteq 1..seq, cancels' \subseteq 1..seq,
             tracked' \subseteq tracked \/ (tracked' = tracked \cup {id} /\ t.at # "tracking"),
             UNCHANGED broadcasterVars, UNCHANGED <<stored, failed, writer, comment>>
      PROVE  FeedTypeOK' /\ GoroutineInv' /\ PublicationInv'
  <2>1. sub' \in [1..seq -> SubRec]
        /\ \A k \in 1..seq : sub'[k] = IF k = id THEN t ELSE sub[k]
    BY <1>t, <1>q
  <2>2. \A k \in tracked' : k \in tracked \/ sub'[k].at # "tracking"
    BY <1>t, <1>q, <2>1
  <2> QED BY <1>q, <2>1, <2>2, QuietStep
<1>1. CASE TrackSub(id)
  <2> DEFINE t == [sub[id] EXCEPT !.at = "waiting", !.done = sub[id].ctx]
  <2>1. sub' = [sub EXCEPT ![id] = t] /\ sub[id].at = "tracking"
    BY <1>1, <1>t DEF TrackSub
  <2>2. t \in SubRec /\ Harmless(sub[id], t) /\ t.at # "tracking"
    BY <1>t, <2>1 DEF SubRec, Harmless, Registered
  <2> QED BY <1>1, <1>q, <1>t, <2>1, <2>2 DEF TrackSub
<1>2. CASE PassOn(id)
  <2> DEFINE t == [sub[id] EXCEPT !.at = "waiting", !.hand = 0]
  <2>1. sub' = [sub EXCEPT ![id] = t] /\ sub[id].at = "holding"
    BY <1>2, <1>t DEF PassOn
  <2>2. t \in SubRec /\ Harmless(sub[id], t)
    BY <1>t, <2>1 DEF SubRec, Harmless, Registered
  <2> QED BY <1>2, <1>q, <1>t, <2>1, <2>2 DEF PassOn
<1>3. CASE Leave(id)
  <2> DEFINE t == [sub[id] EXCEPT !.at = "leaving", !.hand = 0]
  <2>1. sub' = [sub EXCEPT ![id] = t] /\ sub[id].at \in {"waiting", "holding"}
    BY <1>3, <1>t DEF Leave
  <2>2. t \in SubRec /\ Harmless(sub[id], t)
    BY <1>t, <2>1 DEF SubRec, Harmless, Registered
  <2> QED BY <1>3, <1>q, <1>t, <2>1, <2>2 DEF Leave
<1>4. CASE EndClose(id)
  <2> DEFINE t == [sub[id] EXCEPT !.at = "ended", !.outClosed = TRUE]
  <2>1. sub' = [sub EXCEPT ![id] = t] /\ sub[id].at = "unsubscribed"
    BY <1>4, <1>t DEF EndClose
  <2>2. t \in SubRec /\ Harmless(sub[id], t)
    BY <1>t, <2>1 DEF SubRec, Harmless, Registered
  <2> QED BY <1>4, <1>q, <1>t, <2>1, <2>2 DEF EndClose
<1>5. CASE ClientLeaves(id)
  <2> DEFINE done == (sub[id].at # "tracking")
             t == [sub[id] EXCEPT !.ctx = TRUE, !.done = done]
  <2>1. sub' = [sub EXCEPT ![id] = t]
    BY <1>5, <1>t DEF ClientLeaves
  <2>2. t \in SubRec /\ Harmless(sub[id], t)
    <3>1. done \in BOOLEAN
      OBVIOUS
    <3> HIDE DEF done
    <3> QED BY <1>t, <3>1 DEF SubRec, Harmless, Registered
  <2> QED BY <1>5, <1>q, <1>t, <2>1, <2>2 DEF ClientLeaves
<1>6. CASE ShutdownCancel(id)
  <2> DEFINE t == [sub[id] EXCEPT !.done = TRUE]
  <2>1. sub' = [sub EXCEPT ![id] = t] /\ cancels' \subseteq 1..seq
    BY <1>6, <1>t DEF ShutdownCancel
  <2>2. t \in SubRec /\ Harmless(sub[id], t)
    BY <1>t DEF SubRec, Harmless, Registered
  <2> QED BY <1>6, <1>q, <1>t, <2>1, <2>2 DEF ShutdownCancel
<1> QED BY <1>1, <1>2, <1>3, <1>4, <1>5, <1>6

-----------------------------------------------------------------------------
(* Steps that change what is stored, published or subscribed to. *)

\* What was accounted for stays so while writers keep their comments and nothing
\* sent, and no failure, is forgotten.
LEMMA AccountedStays ==
  ASSUME NEW id, NEW c, Accounted(id, c), failed \subseteq failed',
         \A w \in Writers : writer[w] = c => writer'[w] = c,
         comment' = comment, chans'[id].sent = chans[id].sent
  PROVE  Accounted(id, c)'
BY DEF Accounted

LEMMA StorePreserves ==
  ASSUME FeedInv, NEW w \in Writers, NEW post \in Posts,
         StoreComment(w, post) \/ StoreUnanswered(w, post)
  PROVE  FeedTypeOK' /\ GoroutineInv' /\ PublicationInv'
<1>1. /\ stored \in Seq(Posts) /\ Len(stored) \in Nat /\ writer \in [Writers -> Nat]
      /\ \A v \in Writers : writer[v] <= Len(stored)
  BY DEF FeedInv, FeedTypeOK
<1>2. /\ stored' = Append(stored, post) /\ writer[w] = 0
      /\ \/ writer' = [writer EXCEPT ![w] = Len(stored) + 1] /\ failed' = failed
         \/ writer' = writer /\ failed' = failed \cup {Len(stored) + 1}
      /\ UNCHANGED <<comment, sub, tracked, cancels>>
      /\ seq' = seq /\ chans' = chans /\ events' = events
  BY DEF StoreComment, StoreUnanswered, broadcasterVars
<1>3. /\ stored' \in Seq(Posts) /\ Len(stored') = Len(stored) + 1
      /\ \A c \in 1..Len(stored) : stored'[c] = stored[c]
  BY <1>1, <1>2
<1>4. /\ writer' \in [Writers -> Nat] /\ failed \subseteq failed'
      /\ \A v \in Writers : writer'[v] = writer[v] \/ (v = w /\ writer'[v] = Len(stored) + 1)
      /\ writer'[w] = Len(stored) + 1 \/ Len(stored) + 1 \in failed'
  BY <1>1, <1>2
<1>5. FeedTypeOK'
  BY <1>1, <1>2, <1>3, <1>4 DEF FeedInv, FeedTypeOK
<1>6. GoroutineInv'
  BY <1>2 DEF FeedInv, GoroutineInv
<1>7. ASSUME NEW id \in 1..seq, chans[id].open, NEW c \in Nat,
             sub[id].since < c, c <= Len(stored'), stored'[c] = chans[id].post
      PROVE  Accounted(id, c)'
  <2>1. CASE c = Len(stored) + 1
    BY <1>4, <2>1 DEF Accounted
  <2>2. CASE c # Len(stored) + 1
    <3>1. sub[id].since \in Nat
      BY DEF FeedInv, FeedTypeOK, SubRec
    <3>2. c \in 1..Len(stored) /\ stored[c] = chans[id].post
      BY <1>1, <1>3, <1>7, <2>2, <3>1
    <3>3. Accounted(id, c)
      BY <1>7, <3>2 DEF FeedInv, PublicationInv
    <3>4. \A v \in Writers : writer[v] = c => writer'[v] = c
      BY <1>2, <1>4, <3>2
    <3> QED BY <1>2, <3>3, <3>4, AccountedStays
  <2> QED BY <2>1, <2>2
<1>8. PublicationInv'
  BY <1>2, <1>7 DEF FeedInv, PublicationInv
<1> QED BY <1>5, <1>6, <1>8

LEMMA PublishPreserves ==
  ASSUME FeedInv, NEW w \in Writers, PublishComment(w)
  PROVE  FeedTypeOK' /\ GoroutineInv' /\ PublicationInv'
<1> DEFINE c0 == writer[w]
<1>1. /\ stored \in Seq(Posts) /\ Len(stored) \in Nat /\ writer \in [Writers -> Nat]
      /\ \A v \in Writers : writer[v] <= Len(stored)
      /\ comment \in Seq(Nat) /\ Len(comment) = events
  BY DEF FeedInv, FeedTypeOK, PublicationInv
<1>2. /\ c0 # 0 /\ Publish(stored[c0]) /\ comment' = Append(comment, c0)
      /\ writer' = [writer EXCEPT ![w] = 0]
      /\ UNCHANGED <<stored, failed, sub, tracked, cancels>>
  BY DEF PublishComment
<1>3. /\ seq' = seq /\ events \in Nat /\ events' = events + 1
      /\ \A id \in 1..seq :
           /\ chans'[id].post = chans[id].post /\ chans'[id].open = chans[id].open
           /\ chans[id].sent \in Seq(Event)
           /\ IF chans[id].open /\ chans[id].post = stored[c0]
              THEN chans'[id].sent = Append(chans[id].sent, events + 1)
              ELSE chans'[id].sent = chans[id].sent
  BY <1>2, PublishFacts DEF FeedInv
<1>4. /\ writer' \in [Writers -> Nat]
      /\ \A v \in Writers : writer'[v] = IF v = w THEN 0 ELSE writer[v]
  BY <1>1, <1>2
<1>5. /\ comment' \in Seq(Nat) /\ Len(comment') = events + 1
      /\ DOMAIN comment' = 1..(events + 1) /\ comment'[events + 1] = c0
      /\ \A e \in DOMAIN comment : e \in DOMAIN comment' /\ comment'[e] = comment[e]
  <2>1. c0 \in Nat
    BY <1>1
  <2> HIDE DEF c0
  <2> QED BY <1>1, <1>2, <1>3, <2>1
<1>6. FeedTypeOK'
  BY <1>1, <1>2, <1>3, <1>4 DEF FeedInv, FeedTypeOK
<1>7. GoroutineInv'
  BY <1>2, <1>3 DEF FeedInv, GoroutineInv
<1>8. ASSUME NEW id \in 1..seq, chans[id].open, NEW c \in Nat,
             sub[id].since < c, c <= Len(stored), stored[c] = chans[id].post
      PROVE  Accounted(id, c)'
  <2>s. \A k \in DOMAIN chans[id].sent :
          k \in DOMAIN chans'[id].sent /\ chans'[id].sent[k] = chans[id].sent[k]
    <3> DEFINE old == chans[id].sent
               new == chans'[id].sent
    <3>1. old \in Seq(Event) /\ (new = old \/ new = Append(old, events + 1))
      BY <1>3
    <3> HIDE DEF old, new
    <3>2. \A k \in DOMAIN old : k \in DOMAIN new /\ new[k] = old[k]
      BY ONLY <3>1
    <3> QED BY <3>2 DEF old, new
  <2>1. CASE c = c0
    <3>1. chans'[id].sent = Append(chans[id].sent, events + 1) /\ chans[id].sent \in Seq(Event)
      BY <1>3, <1>8, <2>1
    <3>2. /\ Len(chans[id].sent) + 1 \in DOMAIN chans'[id].sent
          /\ chans'[id].sent[Len(chans[id].sent) + 1] = events + 1
      BY <3>1
    <3>3. events + 1 \in DOMAIN comment' /\ comment'[events + 1] = c
      BY <1>3, <1>5, <2>1
    <3> QED BY <3>2, <3>3 DEF Accounted
  <2>2. CASE c # c0
    <3>1. Accounted(id, c)
      BY <1>8 DEF FeedInv, PublicationInv
    <3>2. CASE \E v \in Writers : writer[v] = c
      <4>1. PICK v \in Writers : writer[v] = c
        BY <3>2
      <4>2. writer'[v] = c
        BY <1>4, <2>2, <4>1
      <4> QED BY <4>2 DEF Accounted
    <3>3. CASE \E e \in DOMAIN comment :
                 comment[e] = c /\ \E k \in DOMAIN chans[id].sent : chans[id].sent[k] = e
      <4>1. PICK e \in DOMAIN comment :
                 comment[e] = c /\ \E k \in DOMAIN chans[id].sent : chans[id].sent[k] = e
        BY <3>3
      <4>2. e \in DOMAIN comment' /\ comment'[e] = c
        BY <1>5, <4>1
      <4>3. \E k \in DOMAIN chans'[id].sent : chans'[id].sent[k] = e
        BY <2>s, <4>1
      <4> QED BY <4>2, <4>3 DEF Accounted
    <3>4. CASE c \in failed
      BY <1>2, <3>4 DEF Accounted
    <3> QED BY <3>1, <3>2, <3>3, <3>4 DEF Accounted
  <2> QED BY <2>1, <2>2
<1>9. PublicationInv'
  BY <1>2, <1>3, <1>5, <1>8 DEF FeedInv, PublicationInv
<1> QED BY <1>6, <1>7, <1>9

\* A subscription begins with nothing behind it.
LEMMA StartPreserves ==
  ASSUME FeedInv, NEW post \in Posts, StartSubscription(post)
  PROVE  FeedTypeOK' /\ GoroutineInv' /\ PublicationInv'
<1>1. /\ stored \in Seq(Posts) /\ Len(stored) \in Nat /\ BroadcasterTypeOK
      /\ sub \in [1..seq -> SubRec] /\ tracked \subseteq 1..seq /\ cancels \subseteq 1..seq
  BY DEF FeedInv, FeedTypeOK, RegistryInv
<1>2. /\ Subscribe(post) /\ UNCHANGED <<stored, failed, writer, comment, tracked, cancels>>
      /\ sub' = [id \in 1..(seq + 1) |-> IF id = seq + 1 THEN NewSub ELSE sub[id]]
  BY DEF StartSubscription
<1>3. /\ seq \in Nat /\ seq' = seq + 1 /\ events' = events
      /\ \A id \in 1..seq : SameChan(id)
      /\ chans'[seq + 1].open
  BY <1>1, <1>2, SubscribeFacts
<1>4. NewSub \in SubRec /\ Registered(NewSub) /\ NewSub.hand = 0 /\ NewSub.at # "holding"
      /\ NewSub.since = Len(stored)
  BY <1>1 DEF NewSub, SubRec, Registered
<1> HIDE DEF NewSub
<1>5. /\ \A id \in 1..seq : sub'[id] = sub[id]
      /\ sub'[seq + 1] = NewSub
      /\ \A id \in 1..seq' : id \in 1..seq \/ id = seq + 1
      /\ seq + 1 \notin tracked
  BY <1>1, <1>2, <1>3
<1>6. FeedTypeOK'
  <2>1. sub' \in [1..seq' -> SubRec]
    BY <1>1, <1>2, <1>3, <1>4
  <2>2. tracked' \subseteq 1..seq' /\ cancels' \subseteq 1..seq'
    BY <1>1, <1>2, <1>3
  <2> QED BY <1>2, <2>1, <2>2 DEF FeedInv, FeedTypeOK
<1>7. GoroutineInv'
  <2> SUFFICES ASSUME NEW id \in 1..seq'
               PROVE  /\ chans'[id].open <=> Registered(sub'[id])
                      /\ sub'[id].hand # 0 <=> sub'[id].at = "holding"
                      /\ id \in tracked => sub'[id].at # "tracking"
    BY <1>2 DEF GoroutineInv, Registered
  <2>1. CASE id \in 1..seq
    BY <1>3, <1>5, <2>1 DEF FeedInv, GoroutineInv, SameChan
  <2>2. CASE id = seq + 1
    BY <1>3, <1>4, <1>5, <2>2
  <2> QED BY <1>5, <2>1, <2>2
<1>8. PublicationInv'
  <2> SUFFICES ASSUME NEW id \in 1..seq', chans'[id].open, NEW c \in Nat,
                      sub'[id].since < c, c <= Len(stored), stored[c] = chans'[id].post
               PROVE  Accounted(id, c)'
    BY <1>2, <1>3 DEF FeedInv, PublicationInv
  <2>1. CASE id = seq + 1
    BY <1>1, <1>4, <1>5, <2>1
  <2>2. CASE id \in 1..seq
    <3>1. Accounted(id, c)
      BY <1>3, <1>5, <2>2 DEF FeedInv, PublicationInv, SameChan
    <3> QED BY <1>2, <1>3, <2>2, <3>1, AccountedStays DEF SameChan
  <2> QED BY <1>5, <2>1, <2>2
<1> QED BY <1>6, <1>7, <1>8

\* A receive, and the unsubscription, change one goroutine with its channel.
LEMMA ChannelStepsPreserve ==
  ASSUME FeedInv, NEW id \in Subscriptions, TakeEvent(id) \/ EndUnsubscribe(id)
  PROVE  FeedTypeOK' /\ GoroutineInv' /\ PublicationInv'
<1>1. /\ id \in 1..seq /\ sub \in [1..seq -> SubRec] /\ sub[id] \in SubRec
      /\ tracked \subseteq 1..seq /\ cancels \subseteq 1..seq
      /\ chans[id].open <=> Registered(sub[id])
      /\ sub[id].hand # 0 <=> sub[id].at = "holding"
      /\ BroadcasterTypeOK
  BY DEF FeedInv, FeedTypeOK, GoroutineInv, RegistryInv, Subscriptions
<1>q. ASSUME NEW t \in SubRec, sub' = [sub EXCEPT ![id] = t], t.since = sub[id].since,
             UNCHANGED <<stored, failed, writer, comment, tracked, cancels, seq, events>>,
             \A k \in 1..seq \ {id} : SameChan(k),
             chans'[id].post = chans[id].post, chans'[id].sent = chans[id].sent,
             chans'[id].open <=> Registered(t), chans'[id].open => chans[id].open,
             t.hand # 0 <=> t.at = "holding", t.at # "tracking"
      PROVE  FeedTypeOK' /\ GoroutineInv' /\ PublicationInv'
  <2>1. \A k \in 1..seq : sub'[k] = IF k = id THEN t ELSE sub[k]
    BY <1>1, <1>q
  <2>2. FeedTypeOK'
    <3>1. sub' \in [1..seq' -> SubRec]
      BY <1>1, <1>q
    <3> QED BY <1>q, <3>1 DEF FeedInv, FeedTypeOK
  <2>3. GoroutineInv'
    <3> SUFFICES ASSUME NEW k \in 1..seq
                 PROVE  /\ chans'[k].open <=> Registered(sub'[k])
                        /\ sub'[k].hand # 0 <=> sub'[k].at = "holding"
                        /\ k \in tracked => sub'[k].at # "tracking"
      BY <1>q DEF GoroutineInv, Registered
    <3>1. CASE k = id
      BY <1>q, <2>1, <3>1
    <3>2. CASE k # id
      BY <1>q, <2>1, <3>2 DEF FeedInv, GoroutineInv, SameChan
    <3> QED BY <3>1, <3>2
  <2>4. PublicationInv'
    <3> SUFFICES ASSUME NEW k \in 1..seq, chans'[k].open, NEW c \in Nat,
                        sub'[k].since < c, c <= Len(stored), stored[c] = chans'[k].post
                 PROVE  Accounted(k, c)'
      BY <1>q DEF FeedInv, PublicationInv
    <3>1. /\ sub'[k].since = sub[k].since /\ chans'[k].post = chans[k].post
          /\ chans'[k].sent = chans[k].sent /\ chans[k].open
      BY <1>q, <2>1 DEF SameChan
    <3>2. Accounted(k, c)
      BY <3>1 DEF FeedInv, PublicationInv
    <3> QED BY <1>q, <3>1, <3>2, AccountedStays
  <2> QED BY <2>2, <2>3, <2>4
<1>2. CASE TakeEvent(id)
  <2> DEFINE e == Head(chans[id].buf)
             t == [sub[id] EXCEPT !.at = "holding", !.hand = e]
  <2>1. /\ Receive(id) /\ sub[id].at = "waiting"
        /\ sub' = [sub EXCEPT ![id] = t]
        /\ UNCHANGED <<stored, failed, writer, comment, tracked, cancels>>
    BY <1>1, <1>2 DEF TakeEvent
  <2>2. /\ UNCHANGED <<seq, events>>
        /\ \A k \in 1..seq : SameChan(k)
        /\ e \in Nat \ {0}
    BY <1>1, <2>1, ReceiveFacts
  <2> HIDE DEF e
  <2>3. /\ t \in SubRec /\ t.since = sub[id].since /\ t.hand # 0 /\ t.at = "holding"
    BY <1>1, <2>2 DEF SubRec
  <2>4. Registered(t) /\ Registered(sub[id])
    BY <2>1, <2>3 DEF Registered
  <2> HIDE DEF t
  <2> QED BY <1>1, <1>q, <2>1, <2>2, <2>3, <2>4 DEF SameChan
<1>3. CASE EndUnsubscribe(id)
  <2> DEFINE t == [sub[id] EXCEPT !.at = "unsubscribed"]
  <2>1. /\ Unsubscribe(id) /\ sub[id].at = "leaving"
        /\ sub' = [sub EXCEPT ![id] = t]
        /\ UNCHANGED <<stored, failed, writer, comment, tracked, cancels>>
    BY <1>1, <1>3 DEF EndUnsubscribe
  <2>2. /\ UNCHANGED <<seq, events>>
        /\ \A k \in 1..seq \ {id} : SameChan(k)
        /\ chans'[id].post = chans[id].post /\ chans'[id].sent = chans[id].sent
        /\ ~chans'[id].open
    BY <1>1, <2>1, UnsubscribeFacts DEF FeedInv
  <2>3. t \in SubRec /\ t.since = sub[id].since /\ t.hand = 0 /\ t.at = "unsubscribed"
    BY <1>1, <2>1 DEF SubRec
  <2>4. ~Registered(t)
    BY <2>3 DEF Registered
  <2> HIDE DEF t
  <2> QED BY <1>1, <1>q, <2>1, <2>2, <2>3, <2>4
<1> QED BY <1>2, <1>3

-----------------------------------------------------------------------------
LEMMA FeedInvInit == FeedInit => FeedInv
<1> SUFFICES ASSUME FeedInit PROVE FeedInv
  OBVIOUS
<1>1. RegistryInv /\ seq = 0 /\ events = 0
  BY RegistryInit DEF FeedInit, BroadcasterInit
<1>2. /\ stored = <<>> /\ failed = {} /\ writer = [w \in Writers |-> 0] /\ comment = <<>>
      /\ sub = <<>> /\ tracked = {} /\ cancels = {}
  BY DEF FeedInit
<1>3. 1..seq = {} /\ sub \in [1..seq -> SubRec]
  BY <1>1, <1>2
<1> QED BY <1>1, <1>2, <1>3 DEF FeedInv, FeedTypeOK, GoroutineInv, PublicationInv

LEMMA FeedInvNext == FeedInv /\ [FeedNext]_allVars => FeedInv'
<1> SUFFICES ASSUME FeedInv, [FeedNext]_allVars PROVE FeedInv'
  OBVIOUS
<1>1. RegistryInv'
  BY FeedStepsBroadcaster, RegistryStep DEF FeedInv
<1>2. FeedTypeOK' /\ GoroutineInv' /\ PublicationInv'
  <2>1. CASE UNCHANGED <<broadcasterVars, stored, failed, writer, comment, sub>>
             /\ tracked' \subseteq tracked /\ cancels' \subseteq tracked \cup cancels
    BY <2>1, QuietStep DEF FeedInv, FeedTypeOK
  <2>2. CASE WriterNext
    BY <2>2, StorePreserves, PublishPreserves DEF WriterNext
  <2>3. CASE GoroutineNext
    <3>1. PICK id \in Subscriptions :
            \/ TrackSub(id) \/ TakeEvent(id) \/ PassOn(id)
            \/ Leave(id) \/ EndUnsubscribe(id) \/ EndClose(id) \/ Untrack(id)
      BY <2>3 DEF GoroutineNext
    <3>2. CASE Untrack(id)
      BY <2>1, <3>2 DEF Untrack
    <3> QED BY <3>1, <3>2, QuietSteps, ChannelStepsPreserve
  <2>4. CASE ClientNext
    BY <2>4, StartPreserves, QuietSteps DEF ClientNext
  <2>5. CASE ShutdownNext
    <3>1. CASE ShutdownSnapshot \/ ShutdownCancelled
      BY <2>1, <3>1 DEF ShutdownSnapshot, ShutdownCancelled
    <3> QED BY <2>5, <3>1, QuietSteps DEF ShutdownNext
  <2>6. CASE UNCHANGED allVars
    BY <2>1, <2>6 DEF allVars, feedVars
  <2> QED BY <2>2, <2>3, <2>4, <2>5, <2>6 DEF FeedNext
<1> QED BY <1>1, <1>2 DEF FeedInv

\* The invariant holds in every behaviour of the feed.
LEMMA FeedInvAlways == FeedSafetySpec => []FeedInv
BY FeedInvInit, FeedInvNext, PTL DEF FeedSafetySpec

-----------------------------------------------------------------------------
\* The feed uses the Broadcaster only as its specification allows: the theorems
\* of BroadcasterSpec hold with requests and goroutines for callers.
THEOREM FeedRunsBroadcaster == FeedSafetySpec => BroadcasterSpec
<1>1. FeedInit => BroadcasterInit
  BY DEF FeedInit
<1>2. FeedInv /\ [FeedNext]_allVars => [BroadcasterNext]_broadcasterVars
  BY FeedStepsBroadcaster DEF FeedInv
<1> QED BY <1>1, <1>2, FeedInvAlways, PTL DEF FeedSafetySpec, BroadcasterSpec

\* No goroutine, client or Shutdown disturbs the order in which the events of a
\* subscription wait in its channel and leave it.
THEOREM FeedKeepsEventsInOrder == FeedSafetySpec => []EventsInOrder
  BY FeedRunsBroadcaster, EventsAlwaysInOrder

\* The state of each subscription's goroutine agrees with the registry between
\* any two steps of its deferred calls, its client, the watcher and Shutdown.
THEOREM SubscriptionsAlwaysMatch == FeedSafetySpec => []SubscriptionsMatchRegistry
<1>1. FeedInv => SubscriptionsMatchRegistry
  <2> SUFFICES ASSUME FeedInv, NEW id \in 1..seq
               PROVE  /\ id \in Listeners(chans[id].post) <=> Registered(sub[id])
                      /\ sub[id].hand # 0 <=> sub[id].at = "holding"
                      /\ id \in tracked => sub[id].at # "tracking"
    BY DEF SubscriptionsMatchRegistry, Subscriptions, FeedInv, FeedTypeOK, Registered
  <2> QED BY DEF FeedInv, GoroutineInv, RegistryInv, RegistryExact
<1> QED BY <1>1, FeedInvAlways, PTL

\* However the store, the requests and the subscriptions interleave, no comment
\* falls between being stored and being published, aside from those that Create
\* reports as an error although they are stored (CreateComment returns early).
THEOREM NoCommentFallsThrough == FeedSafetySpec => []NoCommentMissed
<1>1. FeedInv => NoCommentMissed
  <2> SUFFICES ASSUME FeedInv, NEW id \in 1..seq, id \in Listeners(chans[id].post),
                      NEW c \in (sub[id].since + 1)..Len(stored),
                      stored[c] = chans[id].post
               PROVE  \/ c \in failed
                      \/ \E w \in Writers : writer[w] = c
                      \/ \E e \in DOMAIN comment :
                           /\ comment[e] = c
                           /\ e \in {chans[id].sent[k] : k \in DOMAIN chans[id].sent}
    BY DEF NoCommentMissed, Subscriptions, FeedInv, FeedTypeOK
  <2>1. sub[id].since \in Nat /\ Len(stored) \in Nat
    BY DEF FeedInv, FeedTypeOK, SubRec
  <2>2. c \in Nat /\ sub[id].since < c /\ c <= Len(stored)
    BY <2>1
  <2>3. chans[id].open
    BY DEF FeedInv, RegistryInv, RegistryExact
  <2>4. Accounted(id, c)
    BY <2>2, <2>3 DEF FeedInv, PublicationInv
  <2> QED BY <2>4 DEF Accounted
<1> QED BY <1>1, FeedInvAlways, PTL

-----------------------------------------------------------------------------
(* One event for each comment, to the subscribers of its post only. *)

\* A comment is held by the one request that stored it until that publishes it,
\* except if the request was told of a failure: then nobody does.
CommentsInv ==
  /\ comment \in [1..events -> 1..Len(stored)] /\ failed \subseteq 1..Len(stored)
  /\ \A e \in 1..events : comment[e] \notin failed
  /\ \A e, f \in 1..events : comment[e] = comment[f] => e = f
  /\ \A w \in Writers : /\ \A e \in 1..events : writer[w] # comment[e]
                        /\ writer[w] \notin failed
  /\ \A v, w \in Writers : writer[v] = writer[w] /\ writer[v] # 0 => v = w
  /\ \A c \in 1..Len(stored) : \/ c \in failed
                               \/ \E w \in Writers : writer[w] = c
                               \/ \E e \in 1..events : comment[e] = c

\* The events of a subscription grow, and are of comments on its post.
SentInv ==
  \A id \in 1..seq : \A k \in DOMAIN chans[id].sent :
    /\ chans[id].sent[k] \in 1..events
    /\ stored[comment[chans[id].sent[k]]] = chans[id].post
    /\ \A l \in DOMAIN chans[id].sent : k < l => chans[id].sent[k] < chans[id].sent[l]

\* Neither is touched by a step that neither stores, publishes nor subscribes.
LEMMA OthersTouchNoComment ==
  ASSUME FeedInv, [FeedNext]_allVars, ~WriterNext,
         \A post \in Posts : ~StartSubscription(post)
  PROVE  /\ UNCHANGED <<stored, failed, writer, comment, seq, events>>
         /\ \A id \in 1..seq : /\ chans'[id].post = chans[id].post
                               /\ chans'[id].sent = chans[id].sent
<1>0. Subscriptions = 1..seq /\ RegistryInv /\ BroadcasterTypeOK
  BY DEF FeedInv, FeedTypeOK, Subscriptions, RegistryInv
<1>1. CASE GoroutineNext
  <2>1. PICK id \in 1..seq :
          \/ TrackSub(id) \/ TakeEvent(id) \/ PassOn(id)
          \/ Leave(id) \/ EndUnsubscribe(id) \/ EndClose(id) \/ Untrack(id)
    BY <1>0, <1>1 DEF GoroutineNext
  <2>2. CASE TakeEvent(id)
    BY <1>0, <2>2, ReceiveFacts DEF TakeEvent, SameChan
  <2>3. CASE EndUnsubscribe(id)
    BY <1>0, <2>3, UnsubscribeFacts DEF EndUnsubscribe, SameChan
  <2>4. CASE TrackSub(id) \/ PassOn(id) \/ Leave(id) \/ EndClose(id) \/ Untrack(id)
    BY <2>4 DEF TrackSub, PassOn, Leave, EndClose, Untrack, broadcasterVars
  <2> QED BY <2>1, <2>2, <2>3, <2>4
<1>2. CASE ClientNext
  BY <1>2 DEF ClientNext, ClientLeaves, broadcasterVars
<1>3. CASE ShutdownNext
  BY <1>3 DEF ShutdownNext, ShutdownSnapshot, ShutdownCancelled, ShutdownCancel, broadcasterVars
<1>4. CASE UNCHANGED allVars
  BY <1>4 DEF allVars, feedVars, broadcasterVars
<1> QED BY <1>1, <1>2, <1>3, <1>4 DEF FeedNext

LEMMA StoreKeepsComments ==
  ASSUME FeedInv, CommentsInv, SentInv, NEW w \in Writers, NEW post \in Posts,
         StoreComment(w, post) \/ StoreUnanswered(w, post)
  PROVE  CommentsInv' /\ SentInv'
<1> DEFINE n == Len(stored)
<1>1. /\ stored \in Seq(Posts) /\ n \in Nat /\ writer \in [Writers -> Nat]
      /\ \A v \in Writers : writer[v] <= n
  BY DEF FeedInv, FeedTypeOK
<1>2. /\ stored' = Append(stored, post)
      /\ \/ writer' = [writer EXCEPT ![w] = n + 1] /\ failed' = failed
         \/ writer' = writer /\ failed' = failed \cup {n + 1}
      /\ writer[w] = 0
      /\ comment' = comment /\ seq' = seq /\ chans' = chans /\ events' = events
  BY DEF StoreComment, StoreUnanswered, broadcasterVars
<1>3. Len(stored') = n + 1 /\ \A c \in 1..n : stored'[c] = stored[c]
  BY <1>1, <1>2
<1>4. \/ /\ failed' = failed
         /\ \A v \in Writers : writer'[v] = IF v = w THEN n + 1 ELSE writer[v]
      \/ /\ failed' = failed \cup {n + 1}
         /\ \A v \in Writers : writer'[v] = writer[v]
  BY <1>1, <1>2
<1>5. comment \in [1..events -> 1..n] /\ failed \subseteq 1..n
  BY DEF CommentsInv
<1> HIDE DEF n
<1>6. /\ \A e \in 1..events : comment[e] \in 1..n /\ comment[e] # n + 1
      /\ \A v \in Writers : writer[v] # n + 1
      /\ n + 1 \notin failed /\ n + 1 # 0 /\ 1..n \subseteq 1..(n + 1) /\ n + 1 \in 1..(n + 1)
  BY <1>1, <1>5
<1>7. comment' \in [1..events' -> 1..Len(stored')] /\ failed' \subseteq 1..Len(stored')
  <2>1. comment \in [1..events -> 1..(n + 1)]
    BY ONLY <1>5, <1>6
  <2>2. failed' \subseteq 1..(n + 1)
    BY ONLY <1>4, <1>5, <1>6
  <2> QED BY <1>2, <1>3, <2>1, <2>2
<1>8. \A v \in Writers : /\ \A e \in 1..events' : writer'[v] # comment'[e]
                         /\ writer'[v] \notin failed'
  <2>1. /\ \A v \in Writers : writer[v] \notin failed
        /\ \A v \in Writers : \A e \in 1..events : writer[v] # comment[e]
        /\ events' = events /\ comment' = comment
    BY <1>2 DEF CommentsInv
  <2> QED BY ONLY <1>4, <1>6, <2>1
<1>9. \A u, v \in Writers : writer'[u] = writer'[v] /\ writer'[u] # 0 => u = v
  BY <1>1, <1>4, <1>6 DEF CommentsInv
<1>10. ASSUME NEW c \in 1..Len(stored')
       PROVE  \/ c \in failed'
              \/ \E v \in Writers : writer'[v] = c
              \/ \E e \in 1..events' : comment'[e] = c
  <2>1. CASE c = n + 1
    BY <1>4, <2>1
  <2>2. CASE c # n + 1
    <3>1. c \in 1..n
      BY <1>1, <1>3, <2>2
    <3>2. CASE \E e \in 1..events : comment[e] = c
      BY <1>2, <3>2
    <3>3. CASE \E v \in Writers : writer[v] = c
      <4>1. PICK v \in Writers : writer[v] = c
        BY <3>3
      <4>2. v # w
        BY <1>2, <3>1, <4>1
      <4>3. writer'[v] = c
        BY <1>4, <4>1, <4>2
      <4> QED BY <4>3
    <3>4. CASE c \in failed
      BY <1>4, <3>4
    <3> QED BY <3>1, <3>2, <3>3, <3>4 DEF CommentsInv, n
  <2> QED BY <2>1, <2>2
<1>f. \A e \in 1..events' : comment'[e] \notin failed'
  <2>1. /\ \A e \in 1..events : comment[e] \notin failed
        /\ events' = events /\ comment' = comment
    BY <1>2 DEF CommentsInv
  <2> QED BY ONLY <1>4, <1>6, <2>1
<1>11. CommentsInv'
  BY <1>2, <1>7, <1>8, <1>9, <1>10, <1>f DEF CommentsInv
<1>12. SentInv'
  <2>1. \A e \in 1..events : stored'[comment'[e]] = stored[comment[e]]
    BY <1>2, <1>3, <1>6
  <2>2. seq' = seq /\ chans' = chans /\ events' = events
    BY <1>2
  <2>3. ASSUME NEW id \in 1..seq, NEW k \in DOMAIN chans[id].sent
        PROVE  /\ chans[id].sent[k] \in 1..events
               /\ stored'[comment'[chans[id].sent[k]]] = chans[id].post
               /\ \A l \in DOMAIN chans[id].sent :
                    k < l => chans[id].sent[k] < chans[id].sent[l]
    BY ONLY <2>1, <2>3, SentInv DEF SentInv
  <2> QED BY ONLY <2>2, <2>3 DEF SentInv
<1> QED BY <1>11, <1>12

LEMMA PublishKeepsComments ==
  ASSUME FeedInv, CommentsInv, SentInv, NEW w \in Writers, PublishComment(w)
  PROVE  CommentsInv' /\ SentInv'
<1> DEFINE n == Len(stored)
           c0 == writer[w]
           e0 == events + 1
<1>1. /\ stored \in Seq(Posts) /\ n \in Nat /\ writer \in [Writers -> Nat]
      /\ \A v \in Writers : writer[v] <= n
      /\ comment \in Seq(Nat) /\ Len(comment) = events
  BY DEF FeedInv, FeedTypeOK, PublicationInv
<1>2. /\ c0 # 0 /\ Publish(stored[c0]) /\ comment' = Append(comment, c0)
      /\ writer' = [writer EXCEPT ![w] = 0] /\ stored' = stored /\ failed' = failed
  BY DEF PublishComment
<1>3. /\ seq' = seq /\ events \in Nat /\ events' = e0
      /\ \A id \in 1..seq :
           /\ chans'[id].post = chans[id].post
           /\ chans[id].sent \in Seq(Event)
           /\ \/ /\ chans[id].post = stored[c0]
                 /\ chans'[id].sent = Append(chans[id].sent, e0)
              \/ chans'[id].sent = chans[id].sent
  BY <1>2, PublishFacts DEF FeedInv
<1>4. \A v \in Writers : writer'[v] = IF v = w THEN 0 ELSE writer[v]
  BY <1>1, <1>2
<1>5. c0 \in 1..n
  BY <1>1, <1>2
<1>6. /\ comment' \in Seq(Nat) /\ DOMAIN comment' = 1..e0 /\ comment'[e0] = c0
      /\ \A e \in 1..events : comment'[e] = comment[e]
  <2>1. c0 \in Nat
    BY <1>1
  <2> HIDE DEF c0
  <2> QED BY <1>1, <1>2, <1>3, <2>1
<1> HIDE DEF n, c0
<1>7. /\ \A e \in 1..events : comment[e] \in 1..n /\ comment[e] # c0
      /\ \A e \in 1..e0 : e \in 1..events \/ e = e0
      /\ 1..events \subseteq 1..e0 /\ e0 \notin 1..events /\ e0 \in 1..e0
  BY <1>3 DEF CommentsInv, n, c0
<1> HIDE DEF e0
<1>8. CommentsInv'
  <2>1. comment' \in [1..events' -> 1..Len(stored')]
    <3>1. \A e \in 1..e0 : comment'[e] \in 1..n
      BY <1>5, <1>6, <1>7
    <3>2. comment' = [e \in 1..e0 |-> comment'[e]]
      BY <1>6
    <3> QED BY <1>2, <1>3, <3>1, <3>2 DEF n
  <2>2. ASSUME NEW e \in 1..events', NEW f \in 1..events', comment'[e] = comment'[f]
        PROVE  e = f
    BY <1>3, <1>6, <1>7, <2>2 DEF CommentsInv
  <2>3. ASSUME NEW v \in Writers, NEW e \in 1..events' PROVE writer'[v] # comment'[e]
    <3>1. CASE v = w
      BY <1>3, <1>4, <1>5, <1>6, <1>7, <3>1
    <3>2. CASE v # w /\ e = e0
      BY <1>2, <1>4, <1>6, <3>2 DEF CommentsInv, c0
    <3>3. CASE v # w /\ e \in 1..events
      BY <1>4, <1>6, <3>3 DEF CommentsInv
    <3> QED BY <1>3, <1>7, <3>1, <3>2, <3>3
  <2>4. ASSUME NEW u \in Writers, NEW v \in Writers, writer'[u] = writer'[v], writer'[u] # 0
        PROVE  u = v
    BY <1>4, <2>4 DEF CommentsInv
  <2>5. ASSUME NEW c \in 1..n
        PROVE  \/ c \in failed
               \/ \E v \in Writers : writer'[v] = c
               \/ \E e \in 1..e0 : comment'[e] = c
    <3>1. CASE c = c0
      BY <1>6, <1>7, <3>1
    <3>2. CASE \E e \in 1..events : comment[e] = c
      BY <1>6, <1>7, <3>2
    <3>3. CASE c # c0 /\ \E v \in Writers : writer[v] = c
      BY <1>4, <3>3 DEF c0
    <3> QED BY <3>1, <3>2, <3>3 DEF CommentsInv, n
  <2>6. /\ failed' = failed /\ failed \subseteq 1..n
        /\ \A e \in 1..e0 : comment'[e] \notin failed
        /\ \A v \in Writers : writer'[v] \notin failed
    <3>1. /\ failed \subseteq 1..n /\ c0 \notin failed
          /\ \A e \in 1..events : comment[e] \notin failed
          /\ \A v \in Writers : writer[v] \notin failed
      BY DEF CommentsInv, n, c0
    <3>2. 0 \notin failed
      BY ONLY <3>1
    <3> QED BY ONLY <1>2, <1>4, <1>6, <1>7, <3>1, <3>2
  <2> QED BY ONLY <1>2, <1>3, <2>1, <2>2, <2>3, <2>4, <2>5, <2>6 DEF CommentsInv, n
<1>9. SentInv'
  <2> SUFFICES ASSUME NEW id \in 1..seq
               PROVE  \A k \in DOMAIN chans'[id].sent :
                        /\ chans'[id].sent[k] \in 1..e0
                        /\ stored[comment'[chans'[id].sent[k]]] = chans[id].post
                        /\ \A l \in DOMAIN chans'[id].sent :
                             k < l => chans'[id].sent[k] < chans'[id].sent[l]
    BY <1>2, <1>3 DEF SentInv
  <2> DEFINE old == chans[id].sent
             new == chans'[id].sent
             post == chans[id].post
  <2>1. /\ old \in Seq(Event)
        /\ \A k \in DOMAIN old : /\ old[k] \in 1..events /\ stored[comment[old[k]]] = post
                                 /\ \A l \in DOMAIN old : k < l => old[k] < old[l]
        /\ \/ post = stored[c0] /\ new = Append(old, e0)
           \/ new = old
    BY <1>3 DEF SentInv
  <2> HIDE DEF old, new, post
  <2>2. \A k \in DOMAIN old : old[k] \in 1..e0 /\ stored[comment'[old[k]]] = post
    BY <1>6, <1>7, <2>1
  <2>3. CASE new = old
    BY <2>1, <2>2, <2>3 DEF old, new, post
  <2>4. CASE post = stored[c0] /\ new = Append(old, e0)
    <3> DEFINE m == Len(old) + 1
    <3>0. e0 \in Event
      BY <1>3 DEF e0, Event
    <3>1. /\ DOMAIN new = 1..m /\ new[m] = e0 /\ Len(old) \in Nat
          /\ \A k \in DOMAIN old : new[k] = old[k]
          /\ DOMAIN old = 1..Len(old)
      BY <2>1, <2>4, <3>0
    <3>2. \A k \in DOMAIN new : k \in DOMAIN old \/ k = m
      BY ONLY <3>1
    <3>3. /\ \A k \in DOMAIN old : old[k] \in Int /\ old[k] < e0
          /\ \A l \in DOMAIN old : ~(m < l)
          /\ ~(m < m)
      BY ONLY <1>3, <2>1, <3>1 DEF e0
    <3> HIDE DEF m
    <3>4. ASSUME NEW k \in DOMAIN new
          PROVE  new[k] \in 1..e0 /\ stored[comment'[new[k]]] = post
      BY ONLY <1>6, <1>7, <2>2, <2>4, <3>1, <3>2, <3>4
    <3>5. ASSUME NEW k \in DOMAIN new, NEW l \in DOMAIN new, k < l
          PROVE  new[k] < new[l]
      BY ONLY <2>1, <3>1, <3>2, <3>3, <3>5
    <3> QED BY <3>4, <3>5 DEF new, post
  <2> QED BY <2>1, <2>3, <2>4
<1> QED BY <1>8, <1>9

LEMMA StartKeepsComments ==
  ASSUME FeedInv, CommentsInv, SentInv, NEW post \in Posts, StartSubscription(post)
  PROVE  CommentsInv' /\ SentInv'
<1>1. /\ Subscribe(post) /\ UNCHANGED <<stored, failed, writer, comment>>
      /\ BroadcasterTypeOK
  BY DEF StartSubscription, FeedInv, RegistryInv
<1>2. /\ seq \in Nat /\ seq' = seq + 1 /\ events' = events
      /\ \A id \in 1..seq : SameChan(id)
  BY <1>1, SubscribeFacts
<1>3. chans'[seq + 1].sent = <<>>
  <2>1. chans' = [id \in 1..(seq + 1) |-> IF id = seq + 1 THEN NewChan(post) ELSE chans[id]]
    BY <1>1, BroadcasterAssumption DEF Subscribe, BroadcasterTypeOK
  <2>2. NewChan(post).sent = <<>>
    BY DEF NewChan
  <2> HIDE DEF NewChan
  <2> QED BY <1>2, <2>1, <2>2
<1>4. CommentsInv'
  BY <1>1, <1>2 DEF CommentsInv
<1>5. SentInv'
  <2>1. \A id \in 1..seq' : id \in 1..seq \/ id = seq + 1
    BY <1>2
  <2> QED BY <1>1, <1>2, <1>3, <2>1 DEF SentInv, SameChan
<1> QED BY <1>4, <1>5

\* A comment has at most one event.  One that is stored has it or is about to get
\* it, except if its request was told of a failure: then it has none, ever.  A
\* subscription is sent events of comments on its post only, and none of them
\* twice: CreateComment publishes once, if Create has returned without an error,
\* and Publish sends to the channels of that post.
OneEventEach ==
  /\ \A e, f \in 1..events : comment[e] = comment[f] => e = f
  /\ \A c \in 1..Len(stored) :
       IF c \in failed THEN ~\E e \in 1..events : comment[e] = c
       ELSE \/ \E w \in Writers : writer[w] = c
            \/ \E e \in 1..events : comment[e] = c
  /\ \A id \in 1..seq : \A k \in DOMAIN chans[id].sent :
       /\ chans[id].sent[k] \in 1..events
       /\ stored[comment[chans[id].sent[k]]] = chans[id].post
       /\ \A l \in DOMAIN chans[id].sent :
            comment[chans[id].sent[k]] = comment[chans[id].sent[l]] => k = l

\* No interleaving of requests makes two events of a comment, loses the one of a
\* comment whose creation was reported, makes one of a comment whose request was told
\* of a failure, or sends one to the subscribers of another post or twice to the same.
THEOREM CommentsPublishedOnce == FeedSafetySpec => []OneEventEach
<1>1. FeedInit => CommentsInv /\ SentInv
  <2> SUFFICES ASSUME FeedInit PROVE CommentsInv /\ SentInv
    OBVIOUS
  <2>1. /\ seq = 0 /\ events = 0 /\ stored = <<>> /\ comment = <<>>
        /\ writer = [w \in Writers |-> 0] /\ failed = {}
    BY DEF FeedInit, BroadcasterInit
  <2>2. 1..seq = {} /\ 1..events = {} /\ Len(stored) = 0 /\ 1..Len(stored) = {}
    BY <2>1
  <2>3. comment \in [1..events -> 1..Len(stored)] /\ \A w \in Writers : writer[w] = 0
    BY <2>1, <2>2
  <2> QED BY <2>1, <2>2, <2>3 DEF CommentsInv, SentInv
<1>2. FeedInv /\ CommentsInv /\ SentInv /\ [FeedNext]_allVars => CommentsInv' /\ SentInv'
  <2> SUFFICES ASSUME FeedInv, CommentsInv, SentInv, [FeedNext]_allVars
               PROVE  CommentsInv' /\ SentInv'
    OBVIOUS
  <2>1. CASE WriterNext
    BY <2>1, StoreKeepsComments, PublishKeepsComments DEF WriterNext
  <2>2. CASE \E post \in Posts : StartSubscription(post)
    BY <2>2, StartKeepsComments
  <2>3. CASE ~WriterNext /\ ~\E post \in Posts : StartSubscription(post)
    <3>1. /\ UNCHANGED <<stored, failed, writer, comment, seq, events>>
          /\ \A id \in 1..seq : /\ chans'[id].post = chans[id].post
                                /\ chans'[id].sent = chans[id].sent
      BY <2>3, OthersTouchNoComment
    <3> QED BY <3>1 DEF CommentsInv, SentInv
  <2> QED BY <2>1, <2>2, <2>3
<1>3. FeedInv /\ CommentsInv /\ SentInv => OneEventEach
  <2> SUFFICES ASSUME FeedInv, CommentsInv, SentInv,
                      NEW id \in 1..seq,
                      NEW k \in DOMAIN chans[id].sent, NEW l \in DOMAIN chans[id].sent,
                      comment[chans[id].sent[k]] = comment[chans[id].sent[l]]
               PROVE  k = l
    BY DEF OneEventEach, CommentsInv, SentInv
  <2>1. chans[id].sent \in Seq(Event)
    BY DEF FeedInv, RegistryInv, BroadcasterTypeOK, Chan
  <2>2. k \in Int /\ l \in Int
    BY <2>1
  <2>3. chans[id].sent[k] = chans[id].sent[l] /\ chans[id].sent[k] \in Int
    BY DEF CommentsInv, SentInv
  <2>4. ~(k < l) /\ ~(l < k)
    BY <2>3 DEF SentInv
  <2> QED BY <2>2, <2>4
<1> QED BY <1>1, <1>2, <1>3, FeedInvAlways, PTL DEF FeedSafetySpec

-----------------------------------------------------------------------------
(* Who has left is not kept waiting. *)

\* A goroutine that has started knows that its client has gone; out is closed by
\* the last of its deferred calls.
DepartInv ==
  \A id \in 1..seq : /\ sub[id].ctx /\ sub[id].at # "tracking" => sub[id].done
                     /\ sub[id].outClosed <=> sub[id].at = "ended"

\* What a step may do to the record of a subscription.
Departing(s) == /\ s.ctx /\ s.at # "tracking" => s.done
                /\ s.outClosed <=> s.at = "ended"

LEMMA OneDeparts ==
  ASSUME FeedInv, NEW id \in Subscriptions, Departing(sub[id]),
         \/ TrackSub(id) \/ TakeEvent(id) \/ PassOn(id) \/ Leave(id) \/ EndUnsubscribe(id)
         \/ EndClose(id) \/ Untrack(id) \/ ClientLeaves(id) \/ ShutdownCancel(id)
  PROVE  /\ seq' = seq /\ DOMAIN sub' = 1..seq /\ Departing(sub'[id])
         /\ \A k \in 1..seq \ {id} : sub'[k] = sub[k]
<1>0. /\ id \in 1..seq /\ sub \in [1..seq -> SubRec] /\ sub[id] \in SubRec
      /\ RegistryInv /\ BroadcasterTypeOK
  BY DEF FeedInv, FeedTypeOK, RegistryInv, Subscriptions
<1>q. ASSUME NEW t, sub' = [sub EXCEPT ![id] = t], Departing(t), seq' = seq
      PROVE  /\ seq' = seq /\ DOMAIN sub' = 1..seq /\ Departing(sub'[id])
             /\ \A k \in 1..seq \ {id} : sub'[k] = sub[k]
  BY ONLY <1>0, <1>q
<1>1. CASE TrackSub(id)
  <2> DEFINE t == [sub[id] EXCEPT !.at = "waiting", !.done = sub[id].ctx]
  <2>1. sub' = [sub EXCEPT ![id] = t] /\ seq' = seq /\ sub[id].at = "tracking"
    BY <1>0, <1>1 DEF TrackSub, broadcasterVars
  <2>2. Departing(t)
    BY <1>0, <2>1 DEF Departing, SubRec
  <2> QED BY <1>q, <2>1, <2>2
<1>2. CASE TakeEvent(id)
  <2> DEFINE e == Head(chans[id].buf)
             t == [sub[id] EXCEPT !.at = "holding", !.hand = e]
  <2>1. sub' = [sub EXCEPT ![id] = t] /\ seq' = seq /\ sub[id].at = "waiting"
    BY <1>0, <1>2, ReceiveFacts DEF TakeEvent
  <2> HIDE DEF e
  <2>2. Departing(t)
    BY <1>0, <2>1 DEF Departing, SubRec
  <2> QED BY <1>q, <2>1, <2>2
<1>3. CASE PassOn(id)
  <2> DEFINE t == [sub[id] EXCEPT !.at = "waiting", !.hand = 0]
  <2>1. sub' = [sub EXCEPT ![id] = t] /\ seq' = seq /\ sub[id].at = "holding"
    BY <1>0, <1>3 DEF PassOn, broadcasterVars
  <2>2. Departing(t)
    BY <1>0, <2>1 DEF Departing, SubRec
  <2> QED BY <1>q, <2>1, <2>2
<1>4. CASE Leave(id)
  <2> DEFINE t == [sub[id] EXCEPT !.at = "leaving", !.hand = 0]
  <2>1. sub' = [sub EXCEPT ![id] = t] /\ seq' = seq /\ sub[id].at \in {"waiting", "holding"}
    BY <1>0, <1>4 DEF Leave, broadcasterVars
  <2>2. Departing(t)
    BY <1>0, <2>1 DEF Departing, SubRec
  <2> QED BY <1>q, <2>1, <2>2
<1>5. CASE EndUnsubscribe(id)
  <2> DEFINE t == [sub[id] EXCEPT !.at = "unsubscribed"]
  <2>1. sub' = [sub EXCEPT ![id] = t] /\ seq' = seq /\ sub[id].at = "leaving"
    BY <1>0, <1>5, UnsubscribeFacts DEF EndUnsubscribe
  <2>2. Departing(t)
    BY <1>0, <2>1 DEF Departing, SubRec
  <2> QED BY <1>q, <2>1, <2>2
<1>6. CASE EndClose(id)
  <2> DEFINE t == [sub[id] EXCEPT !.at = "ended", !.outClosed = TRUE]
  <2>1. sub' = [sub EXCEPT ![id] = t] /\ seq' = seq /\ sub[id].at = "unsubscribed"
    BY <1>0, <1>6 DEF EndClose, broadcasterVars
  <2>2. Departing(t)
    BY <1>0, <2>1 DEF Departing, SubRec
  <2> QED BY <1>q, <2>1, <2>2
<1>7. CASE Untrack(id)
  BY <1>0, <1>7 DEF Untrack, broadcasterVars
<1>8. CASE ClientLeaves(id)
  <2> DEFINE gone == (sub[id].at # "tracking")
             t == [sub[id] EXCEPT !.ctx = TRUE, !.done = gone]
  <2>1. sub' = [sub EXCEPT ![id] = t] /\ seq' = seq
    BY <1>0, <1>8 DEF ClientLeaves, broadcasterVars
  <2>2. Departing(t)
    BY <1>0 DEF Departing, SubRec
  <2> QED BY <1>q, <2>1, <2>2
<1>9. CASE ShutdownCancel(id)
  <2> DEFINE t == [sub[id] EXCEPT !.done = TRUE]
  <2>1. sub' = [sub EXCEPT ![id] = t] /\ seq' = seq
    BY <1>0, <1>9 DEF ShutdownCancel, broadcasterVars
  <2>2. Departing(t)
    BY <1>0 DEF Departing, SubRec
  <2> QED BY <1>q, <2>1, <2>2
<1> QED BY <1>1, <1>2, <1>3, <1>4, <1>5, <1>6, <1>7, <1>8, <1>9

\* The goroutine of a subscription whose client has left, or the watcher of its
\* context, has a step of its own to take until nothing of the subscription is left:
\* neither waits for the client, for a publication, for the other or for Shutdown
\* (both selects watch subCtx, and out is closed by whoever sent on it).
LeaversMayGo ==
  \A id \in Subscriptions : sub[id].ctx =>
    \/ Gone(id)
    \/ id \in tracked /\ sub[id].done
    \/ sub[id].at \in {"waiting", "holding"} /\ sub[id].done
    \/ sub[id].at \in {"tracking", "leaving", "unsubscribed"}

\* At whatever point of its subscription a client leaves, nothing it cannot count on
\* has to happen before everything is cleaned up.
THEOREM LeaversNeverStuck == FeedSafetySpec => []LeaversMayGo
<1>1. FeedInit => DepartInv
  <2> SUFFICES ASSUME FeedInit PROVE DepartInv
    OBVIOUS
  <2>1. 1..seq = {}
    BY DEF FeedInit, BroadcasterInit
  <2> QED BY <2>1 DEF DepartInv
<1>2. FeedInv /\ DepartInv /\ [FeedNext]_allVars => DepartInv'
  <2> SUFFICES ASSUME FeedInv, DepartInv, [FeedNext]_allVars PROVE DepartInv'
    OBVIOUS
  <2>0. /\ Subscriptions = 1..seq /\ BroadcasterTypeOK
        /\ \A id \in 1..seq : Departing(sub[id])
    BY DEF FeedInv, FeedTypeOK, RegistryInv, Subscriptions, DepartInv, Departing
  <2>1. CASE UNCHANGED <<sub, seq>>
    BY <2>1 DEF DepartInv
  <2>2. CASE \E id \in Subscriptions :
               \/ TrackSub(id) \/ TakeEvent(id) \/ PassOn(id) \/ Leave(id)
               \/ EndUnsubscribe(id) \/ EndClose(id) \/ Untrack(id)
               \/ ClientLeaves(id) \/ ShutdownCancel(id)
    <3>1. PICK id \in Subscriptions :
               \/ TrackSub(id) \/ TakeEvent(id) \/ PassOn(id) \/ Leave(id)
               \/ EndUnsubscribe(id) \/ EndClose(id) \/ Untrack(id)
               \/ ClientLeaves(id) \/ ShutdownCancel(id)
      BY <2>2
    <3>2. /\ seq' = seq /\ Departing(sub'[id])
          /\ \A k \in 1..seq \ {id} : sub'[k] = sub[k]
      BY <2>0, <3>1, OneDeparts
    <3>3. \A k \in 1..seq : Departing(sub'[k])
      BY ONLY <2>0, <3>2
    <3> QED BY <3>2, <3>3 DEF DepartInv, Departing
  <2>3. CASE \E post \in Posts : StartSubscription(post)
    <3>1. PICK post \in Posts : StartSubscription(post)
      BY <2>3
    <3>2. seq \in Nat /\ seq' = seq + 1
      BY <2>0, <3>1, SubscribeFacts DEF StartSubscription
    <3>3. Departing(NewSub)
      BY DEF Departing, NewSub
    <3> HIDE DEF NewSub
    <3>4. \A k \in 1..seq' : sub'[k] = IF k = seq + 1 THEN NewSub ELSE sub[k]
      BY <3>1, <3>2 DEF StartSubscription
    <3>5. \A k \in 1..seq' : k = seq + 1 \/ k \in 1..seq
      BY ONLY <3>2
    <3>6. \A k \in 1..seq' : Departing(sub'[k])
      BY ONLY <2>0, <3>3, <3>4, <3>5
    <3> QED BY <3>6 DEF DepartInv, Departing
  <2>4. CASE WriterNext
    <3>1. CASE \E w \in Writers : PublishComment(w)
      BY <2>1, <3>1, PublishFacts DEF PublishComment, FeedInv
    <3>2. CASE \E w \in Writers : \E post \in Posts :
                 StoreComment(w, post) \/ StoreUnanswered(w, post)
      BY <2>1, <3>2 DEF StoreComment, StoreUnanswered, broadcasterVars
    <3> QED BY <2>4, <3>1, <3>2 DEF WriterNext
  <2>5. CASE ShutdownSnapshot \/ ShutdownCancelled
    BY <2>1, <2>5 DEF ShutdownSnapshot, ShutdownCancelled, broadcasterVars
  <2>6. CASE UNCHANGED allVars
    BY <2>1, <2>6 DEF allVars, feedVars, broadcasterVars
  <2> QED
    BY <2>2, <2>3, <2>4, <2>5, <2>6 DEF FeedNext, GoroutineNext, ClientNext, ShutdownNext
<1>3. FeedInv /\ DepartInv => LeaversMayGo
  <2> SUFFICES ASSUME FeedInv, DepartInv, NEW id \in 1..seq, sub[id].ctx,
                      ~(id \in tracked /\ sub[id].done),
                      ~(sub[id].at \in {"waiting", "holding"} /\ sub[id].done),
                      sub[id].at \notin {"tracking", "leaving", "unsubscribed"}
               PROVE  Gone(id)
    BY DEF LeaversMayGo, Subscriptions, FeedInv, FeedTypeOK
  <2>1. sub[id].at \in {"tracking", "waiting", "holding", "leaving", "unsubscribed", "ended"}
        /\ id \in Subscriptions
    BY DEF FeedInv, FeedTypeOK, SubRec, Subscriptions
  <2>2. sub[id].at = "ended" /\ sub[id].outClosed /\ id \notin tracked
    BY <2>1 DEF DepartInv
  <2>3. ~chans[id].open
    BY <2>2 DEF FeedInv, GoroutineInv, Registered
  <2>4. id \notin Listeners(chans[id].post)
    BY <2>3 DEF FeedInv, RegistryInv, RegistryExact
  <2> QED BY <2>1, <2>2, <2>4 DEF Gone
<1> QED BY <1>1, <1>2, <1>3, FeedInvAlways, PTL DEF FeedSafetySpec
=============================================================================
