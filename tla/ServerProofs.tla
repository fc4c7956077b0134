---------------------------- MODULE ServerProofs ----------------------------
(***************************************************************************)
(* Proofs about Server for any requests, checks, status codes and attempts *)
(* of the retry.                                                           *)
(***************************************************************************)
EXTENDS Server, DataProofs

-----------------------------------------------------------------------------
(* The inductive invariant. *)

HeaderNames == {"X-Request-ID", "X-Content-Type-Options", "X-Frame-Options",
                "Referrer-Policy", "Cross-Origin-Opener-Policy",
                "Cross-Origin-Resource-Policy"}

RequestRec == [at : {"idle", "handler", "checking", "done"},
               headers : SUBSET HeaderNames, sentHeaders : SUBSET HeaderNames,
               sent : Nat, status : Nat, log : Nat,
               hijacked : BOOLEAN, expired : BOOLEAN,
               todo : SUBSET Checks, allOK : BOOLEAN,
               ready : BOOLEAN, panicked : BOOLEAN, again : BOOLEAN,
               wasUp : SUBSET Checks, wasDown : SUBSET Checks]

ServerTypeOK == up \in SUBSET Checks /\ req \in [Requests -> RequestRec]

ChainHeaders == Chain(NoRequest).headers

\* What holds of an answer from the moment that its request has passed the
\* chain: headers are there before anything is sent, nothing is sent on a
\* connection that was taken over, and the statusWriter is as far as net/http
\* unless a header was written again.
InChain(q) == /\ q.headers = ChainHeaders
              /\ q.sent # 0 => q.sentHeaders = ChainHeaders
              /\ q.hijacked => q.sent = 0
              /\ ~q.again => q.status = IF q.sent = 0 THEN OK ELSE q.sent

\* One conjunct of AnswersAccountedFor for one answer.
Accounted(q) == /\ q.hijacked <=> q.sent = 0
                /\ ~q.hijacked => q.sentHeaders = ChainHeaders
                /\ q.panicked /\ ~q.again => q.sent = InternalServerError
                /\ ~q.hijacked /\ ~q.again => q.log = q.sent
                /\ q.panicked => q.log = InternalServerError

\* Between two checks nothing has been sent, the checks that are over have all
\* been good if allOK says so, and something was not good if it does not.
CheckingInv(q) ==
  /\ q.ready /\ q.sent = 0 /\ ~q.hijacked /\ ~q.again /\ ~q.panicked
  /\ up \subseteq q.wasUp /\ Checks \ up \subseteq q.wasDown
  /\ q.allOK => Checks \ q.todo \subseteq q.wasUp
  /\ ~q.allOK => q.expired \/ q.wasDown # {}

\* ReadinessTruthful for one answer.
Truthful(q) == IF q.sent = OK THEN q.wasUp = Checks
               ELSE q.expired \/ q.wasDown # {}

RequestInv(q) ==
  /\ q.at \in {"handler", "checking"} => InChain(q)
  /\ q.at = "handler" => ~q.ready /\ ~q.panicked
  /\ q.at = "checking" => CheckingInv(q)
  /\ q.at = "done" => Accounted(q)
  /\ q.at = "done" /\ q.ready => Truthful(q)

ServerInv == ServerTypeOK /\ \A r \in Requests : RequestInv(req[r])

-----------------------------------------------------------------------------
(* What the helpers do to a request. *)

\* The fields that are not about what has been sent.
SameRequest(p, q) ==
  /\ p.at = q.at /\ p.ready = q.ready /\ p.panicked = q.panicked
  /\ p.hijacked = q.hijacked /\ p.headers = q.headers /\ p.expired = q.expired
  /\ p.wasUp = q.wasUp /\ p.wasDown = q.wasDown

\* The first header counts, and none on a connection that was taken over.
LEMMA SendFacts ==
  ASSUME NEW q \in RequestRec, NEW code \in Nat \ {0}
  PROVE  /\ Send(q, code) \in RequestRec
         /\ SameRequest(Send(q, code), q)
         /\ Send(q, code).again = q.again
         /\ Send(q, code).status = q.status
         /\ Send(q, code).sent = IF q.sent # 0 \/ q.hijacked THEN q.sent ELSE code
         /\ Send(q, code).sentHeaders = IF q.sent # 0 \/ q.hijacked
                                        THEN q.sentHeaders ELSE q.headers
<1>1. CASE q.sent # 0 \/ q.hijacked
  BY <1>1 DEF Send, SameRequest
<1>2. CASE ~(q.sent # 0 \/ q.hijacked)
  <2>1. Send(q, code) = [q EXCEPT !.sent = code, !.sentHeaders = q.headers]
    BY <1>2 DEF Send
  <2>2. Send(q, code) \in RequestRec
    BY <2>1 DEF RequestRec
  <2> QED BY <1>2, <2>1, <2>2 DEF RequestRec, SameRequest
<1> QED BY <1>1, <1>2

\* A header that is written keeps what holds in the chain.
LEMMA WriteHeaderFacts ==
  ASSUME NEW q \in RequestRec, NEW code \in Nat \ {0}
  PROVE  /\ WriteHeader(q, code) \in RequestRec
         /\ SameRequest(WriteHeader(q, code), q)
         /\ WriteHeader(q, code).status = code
         /\ q.sent = 0 /\ ~q.hijacked => WriteHeader(q, code).sent = code
         /\ InChain(q) => InChain(WriteHeader(q, code))
<1> DEFINE s == Send(q, code)
           w == WriteHeader(q, code)
<1>1. /\ s \in RequestRec /\ SameRequest(s, q)
      /\ s.again = q.again
      /\ s.sent = IF q.sent # 0 \/ q.hijacked THEN q.sent ELSE code
      /\ s.sentHeaders = IF q.sent # 0 \/ q.hijacked THEN q.sentHeaders ELSE q.headers
  BY SendFacts
<1>2. w = [s EXCEPT !.status = code, !.again = @ \/ q.sent # 0 \/ q.hijacked]
  BY DEF WriteHeader
<1> HIDE DEF s, w
<1>3. /\ w \in RequestRec /\ SameRequest(w, s)
      /\ w.status = code /\ w.sent = s.sent /\ w.sentHeaders = s.sentHeaders
      /\ ~w.again => q.sent = 0 /\ ~q.hijacked
  BY <1>1, <1>2 DEF RequestRec, SameRequest
<1>4. SameRequest(w, q)
  BY <1>1, <1>3 DEF SameRequest
<1>5. InChain(q) => InChain(w)
  BY <1>1, <1>3, <1>4 DEF SameRequest, InChain
<1> QED BY <1>1, <1>3, <1>4, <1>5 DEF w

\* So does a body.
LEMMA WriteBodyFacts ==
  ASSUME NEW q \in RequestRec
  PROVE  /\ WriteBody(q) \in RequestRec
         /\ SameRequest(WriteBody(q), q)
         /\ ~q.hijacked => WriteBody(q).sent = IF q.sent = 0 THEN OK ELSE q.sent
         /\ InChain(q) => InChain(WriteBody(q))
<1> DEFINE s == Send(q, OK)
<1>1. /\ s \in RequestRec /\ SameRequest(s, q)
      /\ s.again = q.again /\ s.status = q.status
      /\ s.sent = IF q.sent # 0 \/ q.hijacked THEN q.sent ELSE OK
      /\ s.sentHeaders = IF q.sent # 0 \/ q.hijacked THEN q.sentHeaders ELSE q.headers
  BY SendFacts DEF OK
<1>2. WriteBody(q) = s
  BY DEF WriteBody
<1> HIDE DEF s
<1>3. InChain(q) => InChain(s)
  BY <1>1 DEF SameRequest, InChain, OK
<1> QED BY <1>1, <1>2, <1>3

\* An answer that leaves the chain has the headers, and the log knows its
\* status.  (A panic is logged as one.)
LEMMA FinishFacts ==
  ASSUME NEW q \in RequestRec, InChain(q),
         q.panicked => q.status = InternalServerError
  PROVE  /\ Finish(q) \in RequestRec
         /\ Finish(q).at = "done" /\ Finish(q).ready = q.ready
         /\ Accounted(Finish(q))
         /\ Finish(q).expired = q.expired
         /\ Finish(q).wasUp = q.wasUp /\ Finish(q).wasDown = q.wasDown
         /\ ~q.hijacked => Finish(q).sent = IF q.sent = 0 THEN OK ELSE q.sent
<1> DEFINE s == Send(q, OK)
           f == Finish(q)
<1>1. /\ s \in RequestRec /\ SameRequest(s, q)
      /\ s.again = q.again /\ s.status = q.status
      /\ s.sent = IF q.sent # 0 \/ q.hijacked THEN q.sent ELSE OK
      /\ s.sentHeaders = IF q.sent # 0 \/ q.hijacked THEN q.sentHeaders ELSE q.headers
  BY SendFacts DEF OK
<1>2. f = [s EXCEPT !.at = "done", !.log = q.status]
  BY DEF Finish
<1> HIDE DEF s, f
<1>3. /\ f \in RequestRec /\ f.at = "done" /\ f.log = q.status
      /\ f.ready = s.ready /\ f.panicked = s.panicked /\ f.hijacked = s.hijacked
      /\ f.expired = s.expired /\ f.wasUp = s.wasUp /\ f.wasDown = s.wasDown
      /\ f.again = s.again /\ f.sent = s.sent /\ f.sentHeaders = s.sentHeaders
  BY <1>1, <1>2 DEF RequestRec
<1>4. f.hijacked <=> f.sent = 0
  BY <1>1, <1>3 DEF SameRequest, InChain, OK
<1>5. ~f.hijacked => f.sentHeaders = ChainHeaders
  BY <1>1, <1>3 DEF SameRequest, InChain
<1>6. ~f.hijacked /\ ~f.again => f.log = f.sent
  BY <1>1, <1>3 DEF SameRequest, InChain
<1>7. f.panicked => f.log = InternalServerError
  BY <1>1, <1>3 DEF SameRequest
<1>8. f.panicked /\ ~f.again => f.sent = InternalServerError
  BY <1>1, <1>3, <1>4, <1>6, <1>7 DEF SameRequest, InChain, OK, InternalServerError
<1>9. Accounted(f)
  BY <1>4, <1>5, <1>6, <1>7, <1>8 DEF Accounted
<1> QED BY <1>1, <1>3, <1>9 DEF SameRequest, f

\* A request that has passed the chain and reached nothing else.
LEMMA ChainFacts ==
  /\ NoRequest \in RequestRec /\ Chain(NoRequest) \in RequestRec
  /\ InChain(Chain(NoRequest))
  /\ Chain(NoRequest).sent = 0 /\ ~Chain(NoRequest).hijacked
  /\ ~Chain(NoRequest).again /\ ~Chain(NoRequest).panicked
  /\ ~Chain(NoRequest).ready /\ Chain(NoRequest).allOK
<1> DEFINE l == Logger(NoRequest)
           i1 == RequestID(l)
           c == SecurityHeaders(i1)
<1>1. /\ NoRequest \in RequestRec
      /\ NoRequest.sent = 0 /\ ~NoRequest.hijacked /\ ~NoRequest.again
      /\ ~NoRequest.panicked /\ ~NoRequest.ready /\ NoRequest.allOK
  BY DEF NoRequest, RequestRec
<1>2. /\ l \in RequestRec
      /\ l.sent = 0 /\ ~l.hijacked /\ ~l.again /\ l.status = OK
      /\ ~l.panicked /\ ~l.ready /\ l.allOK
  BY <1>1 DEF Logger, RequestRec, OK
<1>3. /\ i1 \in RequestRec
      /\ i1.sent = 0 /\ ~i1.hijacked /\ ~i1.again /\ i1.status = OK
      /\ ~i1.panicked /\ ~i1.ready /\ i1.allOK
  <2> DEFINE more == {"X-Request-ID"}
  <2>1. more \subseteq HeaderNames
    BY DEF HeaderNames
  <2>2. i1 = [l EXCEPT !.headers = @ \cup more]
    BY Zenon DEF RequestID
  <2> HIDE DEF l, i1, more
  <2> QED BY <1>2, <2>1, <2>2 DEF RequestRec
<1>4. /\ c \in RequestRec
      /\ c.sent = 0 /\ ~c.hijacked /\ ~c.again /\ c.status = OK
      /\ ~c.panicked /\ ~c.ready /\ c.allOK
  <2> DEFINE more == {"X-Content-Type-Options",
                         "X-Frame-Options", "Referrer-Policy",
                         "Cross-Origin-Opener-Policy", "Cross-Origin-Resource-Policy"}
  <2>1. more \subseteq HeaderNames
    BY DEF HeaderNames
  <2>2. c = [i1 EXCEPT !.headers = @ \cup more]
    BY Zenon DEF SecurityHeaders
  <2> HIDE DEF i1, c, more
  <2> QED BY <1>3, <2>1, <2>2 DEF RequestRec
<1>5. c = Chain(NoRequest)
  BY DEF Chain
<1> QED BY <1>1, <1>4, <1>5 DEF InChain, ChainHeaders

-----------------------------------------------------------------------------
(* The steps. *)

\* A step of one request is all right if the record it leaves is.
LEMMA StepPreserves ==
  ASSUME ServerInv, NEW r \in Requests, NEW at, NEW q \in RequestRec,
         Step(r, at, q), RequestInv(q)
  PROVE  ServerInv'
<1>1. up' = up /\ req' = [req EXCEPT ![r] = q]
  BY DEF Step
<1>2. ServerTypeOK'
  BY <1>1 DEF ServerInv, ServerTypeOK
<1>3. ASSUME NEW s \in Requests PROVE RequestInv(req[s])'
  <2>1. req'[s] = IF s = r THEN q ELSE req[s]
    BY <1>1 DEF ServerInv, ServerTypeOK
  <2>2. RequestInv(req'[s])
    BY <2>1 DEF ServerInv
  <2> QED
    BY <1>1, <2>2 DEF RequestInv, InChain, CheckingInv, Accounted, Truthful
<1> QED BY <1>2, <1>3 DEF ServerInv

LEMMA HandlePreserves ==
  ASSUME ServerInv, NEW r \in Requests, Handle(r)
  PROVE  ServerInv'
<1> USE ServerAssumption
<1>q. req[r] \in RequestRec /\ RequestInv(req[r])
  BY DEF ServerInv, ServerTypeOK
<1>h. ASSUME req[r].at = "handler"
      PROVE  InChain(req[r]) /\ ~req[r].ready /\ ~req[r].panicked
  BY <1>q, <1>h DEF RequestInv
<1>1. CASE Arrive(r)
  <2> DEFINE q == [Chain(NoRequest) EXCEPT !.at = "handler"]
  <2>1. q \in RequestRec /\ RequestInv(q)
    BY ChainFacts DEF RequestInv, InChain, RequestRec
  <2> QED BY <1>1, <2>1, StepPreserves DEF Arrive
<1>2. CASE HandlerWritesHeader(r)
  <2>1. PICK code \in Codes : Step(r, "handler", WriteHeader(req[r], code))
    BY <1>2 DEF HandlerWritesHeader
  <2>2. req[r].at = "handler" /\ code \in Nat \ {0}
    BY <2>1 DEF Step
  <2>3. WriteHeader(req[r], code) \in RequestRec
    BY <1>q, <2>2, WriteHeaderFacts
  <2>4. RequestInv(WriteHeader(req[r], code))
    BY <1>q, <1>h, <2>2, WriteHeaderFacts DEF SameRequest, RequestInv
  <2> QED BY <2>1, <2>3, <2>4, StepPreserves
<1>3. CASE HandlerWritesBody(r)
  <2>2. req[r].at = "handler"
    BY <1>3 DEF HandlerWritesBody, Step
  <2>3. WriteBody(req[r]) \in RequestRec
    BY <1>q, WriteBodyFacts
  <2>4. RequestInv(WriteBody(req[r]))
    BY <1>q, <1>h, <2>2, WriteBodyFacts DEF SameRequest, RequestInv
  <2> QED BY <1>3, <2>3, <2>4, StepPreserves DEF HandlerWritesBody
<1>4. CASE HandlerHijacks(r)
  <2> DEFINE q == [req[r] EXCEPT !.hijacked = TRUE]
  <2>1. Step(r, "handler", q) /\ req[r].sent = 0 /\ req[r].at = "handler"
    BY <1>4 DEF HandlerHijacks, Step
  <2>2. q \in RequestRec /\ RequestInv(q)
    BY <1>q, <1>h, <2>1 DEF RequestInv, InChain, RequestRec
  <2> QED BY <2>1, <2>2, StepPreserves
<1>5. CASE HandlerReturns(r)
  <2>1. Step(r, "handler", Finish(req[r])) /\ req[r].at = "handler"
    BY <1>5 DEF HandlerReturns, Step
  <2>2. Finish(req[r]) \in RequestRec /\ RequestInv(Finish(req[r]))
    BY <1>q, <1>h, <2>1, FinishFacts DEF RequestInv
  <2> QED BY <2>1, <2>2, StepPreserves
<1>6. CASE HandlerPanics(r)
  <2> DEFINE p == [req[r] EXCEPT !.panicked = TRUE]
             w == WriteHeader(p, InternalServerError)
  <2>1. Step(r, "handler", Finish(w)) /\ req[r].at = "handler"
    BY <1>6 DEF HandlerPanics, Recovery, Step
  <2>2. p \in RequestRec /\ InChain(p) /\ ~p.ready
    BY <1>q, <1>h, <2>1 DEF RequestRec, InChain
  <2>3. w \in RequestRec /\ InChain(w) /\ ~w.ready /\ w.status = InternalServerError
    <3> HIDE DEF p
    <3> QED BY <2>2, WriteHeaderFacts DEF SameRequest, InternalServerError
  <2>4. Finish(w) \in RequestRec /\ RequestInv(Finish(w))
    <3> HIDE DEF w
    <3> QED BY <2>3, FinishFacts DEF RequestInv
  <2> QED BY <2>1, <2>4, StepPreserves
<1>7. CASE Return(r)
  <2>1. NoRequest \in RequestRec /\ RequestInv(NoRequest)
    BY ChainFacts DEF RequestInv, NoRequest
  <2> QED BY <1>7, <2>1, StepPreserves DEF Return
<1> QED
  BY <1>1, <1>2, <1>3, <1>4, <1>5, <1>6, <1>7 DEF Handle

LEMMA ReadyPreserves ==
  ASSUME ServerInv, NEW r \in Requests, Ready(r)
  PROVE  ServerInv'
<1>q. req[r] \in RequestRec /\ RequestInv(req[r]) /\ up \subseteq Checks
  BY DEF ServerInv, ServerTypeOK
<1>c. ASSUME req[r].at = "checking"
      PROVE  InChain(req[r]) /\ CheckingInv(req[r])
  BY <1>q, <1>c DEF RequestInv
<1>1. CASE ArriveReady(r)
  <2> DEFINE q == [Chain(NoRequest) EXCEPT !.at = "checking", !.ready = TRUE,
                     !.todo = Checks, !.wasUp = up, !.wasDown = Checks \ up]
  <2>1. q \in RequestRec
    BY <1>q, ChainFacts DEF RequestRec
  <2>2. InChain(q) /\ CheckingInv(q) /\ q.at = "checking"
    BY <1>q, ChainFacts DEF InChain, CheckingInv, RequestRec
  <2>3. RequestInv(q)
    BY <2>2 DEF RequestInv
  <2> QED BY <1>1, <2>1, <2>3, StepPreserves DEF ArriveReady
<1>2. CASE Expire(r)
  <2> DEFINE q == [req[r] EXCEPT !.expired = TRUE]
  <2>1. Step(r, "checking", q) /\ req[r].at = "checking"
    BY <1>2 DEF Expire, Step
  <2>2. q \in RequestRec /\ RequestInv(q)
    BY <1>q, <1>c, <2>1 DEF RequestInv, InChain, CheckingInv, RequestRec
  <2> QED BY <2>1, <2>2, StepPreserves
<1>3. CASE AnswerReady(r)
  <2> DEFINE h == WriteHeader(req[r], ServiceUnavailable)
             q == IF req[r].allOK THEN req[r] ELSE h
             b == WriteBody(q)
  <2>1. Step(r, "checking", Finish(b)) /\ req[r].at = "checking" /\ req[r].todo = {}
    BY <1>3 DEF AnswerReady, Step
  <2>2. h \in RequestRec /\ InChain(h) /\ h.sent = ServiceUnavailable
        /\ h.ready /\ ~h.hijacked /\ ~h.panicked
        /\ h.expired = req[r].expired /\ h.wasDown = req[r].wasDown
    BY <1>q, <1>c, <2>1, WriteHeaderFacts DEF SameRequest, CheckingInv, ServiceUnavailable
  <2>3. /\ q \in RequestRec /\ InChain(q)
        /\ q.ready /\ ~q.hijacked /\ ~q.panicked
        /\ q.sent \in {0, ServiceUnavailable}
        /\ q.sent = 0 => q.wasUp = Checks
        /\ q.sent # 0 => q.expired \/ q.wasDown # {}
    <3> HIDE DEF h
    <3>1. CASE req[r].allOK
      <4>1. Checks \subseteq req[r].wasUp /\ req[r].wasUp \subseteq Checks
        BY <1>q, <1>c, <2>1, <3>1 DEF CheckingInv, RequestRec
      <4> QED BY <1>q, <1>c, <2>1, <3>1, <4>1 DEF CheckingInv
    <3>2. CASE ~req[r].allOK
      BY <1>c, <2>1, <2>2, <3>2 DEF CheckingInv, ServiceUnavailable
    <3> QED BY <3>1, <3>2
  <2>4. /\ b \in RequestRec /\ InChain(b)
        /\ b.ready /\ ~b.hijacked /\ ~b.panicked
        /\ b.sent \in {OK, ServiceUnavailable}
        /\ b.sent = OK => b.wasUp = Checks
        /\ b.sent # OK => b.expired \/ b.wasDown # {}
    <3> HIDE DEF q
    <3> QED BY <2>3, WriteBodyFacts DEF SameRequest, OK, ServiceUnavailable
  <2>5. Finish(b) \in RequestRec /\ RequestInv(Finish(b))
    <3> HIDE DEF b
    <3> QED BY <2>4, FinishFacts DEF RequestInv, Truthful, OK, ServiceUnavailable
  <2> QED BY <2>1, <2>5, StepPreserves
<1>4. ASSUME NEW c \in Checks, RunCheck(r, c)
      PROVE  ServerInv'
  <2> DEFINE q == [req[r] EXCEPT !.todo = @ \ {c},
                            !.allOK = @ /\ c \in up /\ ~req[r].expired]
  <2>1. Step(r, "checking", q) /\ req[r].at = "checking"
    BY <1>4 DEF RunCheck, Step
  <2>2. q \in RequestRec /\ InChain(q) /\ q.at = "checking"
    BY <1>q, <1>c, <2>1 DEF InChain, RequestRec
  <2>3. CheckingInv(q)
    <3>1. q.allOK => Checks \ q.todo \subseteq q.wasUp
      BY <1>q, <1>c, <2>1 DEF CheckingInv, RequestRec
    <3>2. ~q.allOK => q.expired \/ q.wasDown # {}
      BY <1>q, <1>c, <2>1 DEF CheckingInv, RequestRec
    <3> QED BY <1>q, <1>c, <2>1, <3>1, <3>2 DEF CheckingInv, RequestRec
  <2>4. RequestInv(q)
    BY <2>2, <2>3 DEF RequestInv
  <2> QED BY <2>1, <2>2, <2>4, StepPreserves
<1> QED BY <1>1, <1>2, <1>3, <1>4 DEF Ready

\* A dependency that goes down or comes back is noticed by the requests under
\* way.
LEMMA TogglePreserves ==
  ASSUME ServerInv, NEW c \in Checks, Toggle(c)
  PROVE  ServerInv'
<1>1. up' \in SUBSET Checks
  BY DEF Toggle, ServerInv, ServerTypeOK
<1>2. ASSUME NEW r \in Requests
      PROVE  req'[r] \in RequestRec /\ RequestInv(req[r])'
  <2>q. req[r] \in RequestRec /\ RequestInv(req[r])
    BY DEF ServerInv, ServerTypeOK
  <2>1. CASE req[r].at # "checking"
    <3>1. req'[r] = req[r]
      BY <2>1 DEF Toggle
    <3> QED BY <2>q, <2>1, <3>1 DEF RequestInv, InChain, Accounted, Truthful
  <2>2. CASE req[r].at = "checking"
    <3>1. req'[r] = [req[r] EXCEPT !.wasUp = @ \cup up', !.wasDown = @ \cup (Checks \ up')]
      BY <2>2 DEF Toggle
    <3>2. req'[r] \in RequestRec
      BY <1>1, <2>q, <3>1 DEF RequestRec
    <3>3. InChain(req[r]) /\ CheckingInv(req[r])
      BY <2>q, <2>2 DEF RequestInv
    <3>4. InChain(req'[r]) /\ req'[r].at = "checking"
      BY <2>q, <2>2, <3>1, <3>3 DEF InChain, RequestRec
    <3>5. CheckingInv(req[r])'
      BY <2>q, <3>1, <3>3 DEF CheckingInv, RequestRec
    <3> QED BY <3>2, <3>4, <3>5 DEF RequestInv, InChain
  <2> QED BY <2>1, <2>2
<1>3. req' \in [Requests -> RequestRec]
  BY <1>2 DEF Toggle
<1> QED BY <1>1, <1>2, <1>3 DEF ServerInv, ServerTypeOK

-----------------------------------------------------------------------------
LEMMA ServerInvInit == Init => ServerInv
BY ChainFacts DEF Init, ServerInv, ServerTypeOK, RequestInv, NoRequest

LEMMA ServerInvNext == ServerInv /\ [Next]_vars => ServerInv'
<1> SUFFICES ASSUME ServerInv, [Next]_vars PROVE ServerInv'
  OBVIOUS
<1> USE DEF ServerInv, ServerTypeOK, RequestInv, InChain, CheckingInv, Accounted, Truthful
<1>1. CASE UNCHANGED <<up, req>>
  BY <1>1
<1>2. CASE ListenFails
  BY <1>2, ChainFacts DEF ListenFails, NoRequest
<1>3. CASE Ping \/ Backoff \/ NewStore \/ UNCHANGED vars
  BY <1>1, <1>3 DEF Ping, Backoff, NewStore, vars
<1>4. CASE \E c \in Checks : Toggle(c)
  BY <1>4, TogglePreserves
<1>5. CASE \E r \in Requests : Handle(r) \/ Ready(r)
  BY <1>5, HandlePreserves, ReadyPreserves
<1> QED BY <1>2, <1>3, <1>4, <1>5 DEF Next

\* The invariant holds in every behaviour of the process.
LEMMA ServerInvAlways == Spec => []ServerInv
BY ServerInvInit, ServerInvNext, PTL DEF Spec

-----------------------------------------------------------------------------
\* Whatever a handler writes, in whatever order, and wherever it panics, the
\* answer carries the headers of the chain and the access log its status, with
\* the two exceptions that the property names.
THEOREM EveryAnswerAccountedFor == Spec => []AnswersAccountedFor
<1>1. ServerInv => AnswersAccountedFor
  BY DEF ServerInv, RequestInv, Accounted, AnswersAccountedFor, ChainHeaders
<1> QED BY <1>1, ServerInvAlways, PTL

\* However many checks there are and however the dependencies come and go while
\* they run, readiness says nothing that was not so during the request.
THEOREM ReadinessAlwaysTruthful == Spec => []ReadinessTruthful
<1>1. ServerInv => ReadinessTruthful
  BY DEF ServerInv, RequestInv, Truthful, ReadinessTruthful
<1> QED BY <1>1, ServerInvAlways, PTL

-----------------------------------------------------------------------------
(* The start. *)

\* Powers of two never decrease.
LEMMA PowersGrow ==
  ASSUME NEW m \in Nat, NEW n \in Nat, m <= n
  PROVE  Pow(2, m) <= Pow(2, n)
<1> DEFINE T == {d \in Nat : Pow(2, m) <= Pow(2, m + d)}
<1>0. /\ Pow(2, m) \in Nat
      /\ \A d \in Nat : Pow(2, d) \in Nat /\ Pow(2, d + 1) = 2 * Pow(2, d)
  BY PowFacts
<1>1. 0 \in T
  <2>1. m + 0 = m
    OBVIOUS
  <2> QED BY <1>0, <2>1
<1>2. ASSUME NEW d \in Nat, d \in T PROVE d + 1 \in T
  <2>1. m + d \in Nat /\ m + (d + 1) = (m + d) + 1
    OBVIOUS
  <2>2. Pow(2, m + d) \in Nat /\ Pow(2, (m + d) + 1) = 2 * Pow(2, m + d)
    BY <1>0, <2>1
  <2>3. Pow(2, m) <= Pow(2, (m + d) + 1)
    BY <1>0, <1>2, <2>2
  <2> QED BY <2>1, <2>3
<1>3. Nat \subseteq T
  <2> HIDE DEF T
  <2> QED BY <1>1, <1>2, Induction
<1>4. n - m \in Nat /\ m + (n - m) = n
  OBVIOUS
<1>5. n - m \in T
  BY ONLY <1>3, <1>4
<1> QED BY <1>4, <1>5

\* A number that fits in a time.Duration does not wrap.
LEMMA FitsUnwrapped ==
  ASSUME NEW n \in Nat, n < Pow(2, Width - 1)
  PROVE  Wrap(n) = n
<1> DEFINE half == Pow(2, Width - 1)
<1>1. half \in Nat /\ Pow(2, Width) = 2 * half
  <2>1. Width - 1 \in Nat /\ Width = (Width - 1) + 1
    BY RetryAssumption
  <2>2. \A k \in Nat : Pow(2, k) \in Nat \ {0} /\ Pow(2, k + 1) = 2 * Pow(2, k)
    BY ONLY PowFacts
  <2>3. Pow(2, (Width - 1) + 1) = 2 * Pow(2, Width - 1) /\ Pow(2, Width - 1) \in Nat
    BY ONLY <2>1, <2>2
  <2> QED BY <2>1, <2>3
<1>2. Wrap(n) = ((n + half) % (2 * half)) - half
  BY <1>1 DEF Wrap
<1>3. n < half
  OBVIOUS
<1> HIDE DEF half
<1>4. n + half \in Nat /\ n + half < 2 * half /\ 2 * half \in Nat \ {0}
  BY <1>1, <1>3
<1> DEFINE a == n + half
           d == 2 * half
<1>5. a \in Nat /\ d \in Nat \ {0} /\ a < d
  BY <1>4
<1> HIDE DEF a, d
<1>6. a % d = a
  <2>1. d * 0 = 0 /\ 0 \in Nat
    BY <1>5
  <2>2. a \div d = 0
    BY <1>5, <2>1, QuotientIs
  <2>3. a = d * (a \div d) + (a % d) /\ a % d \in Nat
    BY <1>5, DivisionFacts
  <2> QED BY <1>5, <2>1, <2>2, <2>3
<1> QED BY <1>1, <1>2, <1>6 DEF a, d

\* The delays are positive and do not decrease: the largest of them fits.
LEMMA BackoffGrows ==
  ASSUME NEW n \in Nat
  PROVE  /\ backoff(n) \in Nat /\ backoff(n) >= 1
         /\ backoff(n) <= backoff(n + 1)
<1>a. /\ MaxShift \in Nat /\ Delay \in Nat /\ Delay >= 1
      /\ Delay * Pow(2, MaxShift) < Pow(2, Width - 1) /\ Width - 1 \in Nat
  BY RetryAssumption
<1>p. \A k \in Nat : Pow(2, k) \in Nat /\ Pow(2, k) >= 1
  <2>1. \A k \in Nat : Pow(2, k) \in Nat \ {0}
    BY PowFacts
  <2> QED BY <2>1
<1> DEFINE shift(k) == IF k > MaxShift THEN MaxShift ELSE k
<1>1. ASSUME NEW k \in Nat
      PROVE  /\ shift(k) \in Nat
             /\ Delay * Pow(2, shift(k)) \in Nat
             /\ Delay * Pow(2, shift(k)) >= 1
             /\ backoff(k) = Delay * Pow(2, shift(k))
  <2>1. shift(k) \in Nat /\ shift(k) <= MaxShift
    BY <1>a
  <2>2. backoff(k) = Wrap(Delay * Pow(2, shift(k)))
    BY DEF backoff
  <2> DEFINE p == Pow(2, shift(k))
             m == Pow(2, MaxShift)
             h == Pow(2, Width - 1)
  <2> HIDE DEF shift
  <2>3. p \in Nat /\ p >= 1 /\ m \in Nat /\ h \in Nat /\ p <= m /\ Delay * m < h
    BY <1>a, <1>p, <2>1, PowersGrow
  <2> HIDE DEF p, m, h
  <2>4. Delay * p <= Delay * m /\ Delay * 1 <= Delay * p
    BY <1>a, <2>3, ProductMonotone
  <2>5. Delay * p \in Nat /\ Delay * m \in Nat /\ Delay * 1 = Delay
    BY <1>a, <2>3
  <2>6. Delay * p < h /\ Delay * p >= 1
    BY <1>a, <2>3, <2>4, <2>5
  <2>7. Wrap(Delay * p) = Delay * p
    BY <2>5, <2>6, FitsUnwrapped DEF h
  <2> QED BY <2>1, <2>2, <2>5, <2>6, <2>7 DEF p
<1>2. shift(n) <= shift(n + 1) /\ n + 1 \in Nat
  BY <1>a
<1> HIDE DEF shift
<1>3. Pow(2, shift(n)) <= Pow(2, shift(n + 1))
  BY <1>1, <1>2, PowersGrow
<1> DEFINE p == Pow(2, shift(n))
           q == Pow(2, shift(n + 1))
<1>4. p \in Nat /\ q \in Nat /\ p <= q
  BY <1>1, <1>2, <1>3, <1>p
<1>5. backoff(n) = Delay * p /\ backoff(n + 1) = Delay * q
  BY <1>1, <1>2
<1> HIDE DEF p, q
<1>6. Delay * p <= Delay * q
  BY <1>a, <1>4, ProductMonotone
<1>7. backoff(n) \in Nat /\ backoff(n) >= 1
  BY <1>1
<1> QED BY <1>5, <1>6, <1>7

\* The loop of retry.Do has waited once for every failed attempt, each time as
\* long as the number of the attempt says, and never runs past its last one.
RetryInv ==
  /\ i \in Nat /\ i < Attempts /\ waits \in Seq(Nat)
  /\ outcome \in {"calling", "waiting", "nil", "err"}
  /\ outcome \in {"calling", "err"} => Len(waits) = i
  /\ outcome = "waiting" => Len(waits) = i + 1 /\ i < Attempts - 1
  /\ outcome = "err" => i = Attempts - 1 /\ ~reached
  /\ outcome = "nil" => reached
  /\ \A k \in 1..Len(waits) : waits[k] = backoff(k - 1)

StartInv == RetryInv /\ (phase = "serving" => outcome = "nil")

LEMMA CallKeepsRetryInv ==
  ASSUME RetryInv, NEW ok \in BOOLEAN, Call(ok)
  PROVE  RetryInv'
<1>2. CASE ok
  BY <1>2 DEF Call, RetryInv
<1>3. CASE ~ok /\ i = Attempts - 1
  BY <1>3 DEF Call, RetryInv
<1>4. CASE ~ok /\ i # Attempts - 1
  <2> DEFINE delay == backoff(i)
  <2>1. outcome' = "waiting" /\ waits' = Append(waits, delay) /\ i' = i /\ ~reached'
    BY <1>4 DEF Call
  <2>2. i < Attempts - 1 /\ Len(waits) = i /\ i \in Nat /\ waits \in Seq(Nat)
    <3>1. Attempts \in Nat
      BY RetryAssumption
    <3> QED BY <1>4, <3>1 DEF RetryInv, Call
  <2>3. delay \in Nat
    BY <2>2, BackoffGrows
  <2>4. \A k \in 1..i : waits[k] = backoff(k - 1)
    BY <2>2 DEF RetryInv
  <2>5. (i + 1) - 1 = i
    BY <2>2
  <2>6. waits'[i + 1] = backoff((i + 1) - 1)
    <3> HIDE DEF delay
    <3>1. waits'[i + 1] = delay
      BY <2>1, <2>2, <2>3
    <3> QED BY <2>5, <3>1 DEF delay
  <2> HIDE DEF delay
  <2>7. waits' \in Seq(Nat) /\ Len(waits') = i + 1 /\ \A k \in 1..i : waits'[k] = waits[k]
    BY <2>1, <2>2, <2>3
  <2>8. \A k \in 1..(i + 1) : k \in 1..i \/ k = i + 1
    BY <2>2
  <2>9. \A k \in 1..Len(waits') : waits'[k] = backoff(k - 1)
    BY ONLY <2>4, <2>6, <2>7, <2>8
  <2>10. Attempts' = Attempts /\ \A k : backoff(k)' = backoff(k)
    BY DEF backoff, Wrap
  <2> QED BY <2>1, <2>2, <2>7, <2>9, <2>10 DEF RetryInv
<1> QED BY <1>2, <1>3, <1>4

\* The process serves only after its store has answered, gives up only after as
\* many failures as it has attempts, and waits longer from one attempt to the
\* next up to the cap of the delays, which fits in a time.Duration, for any
\* number of attempts, any delay within the assumption and any width.
THEOREM ServesOnItsStore == Spec => []StartsOnItsStore
<1>a. Attempts \in Nat /\ Attempts >= 1
  BY RetryAssumption
<1>1. Init => StartInv
  <2>1. <<>> \in Seq(Nat) /\ Len(<<>>) = 0
    OBVIOUS
  <2>2. ASSUME Init
        PROVE  i = 0 /\ waits = <<>> /\ outcome = "calling" /\ phase = "starting"
    BY <1>a, <2>2 DEF Init, RetryInit
  <2> QED BY <1>a, <2>1, <2>2 DEF StartInv, RetryInv
<1>2. StartInv /\ [Next]_vars => StartInv'
  <2> SUFFICES ASSUME StartInv, [Next]_vars PROVE StartInv'
    OBVIOUS
  <2>1. CASE Ping
    <3>1. PICK ok \in BOOLEAN : Call(ok)
      <4>1. Call(Database \in up) /\ (Database \in up) \in BOOLEAN
        BY <2>1 DEF Ping
      <4> QED BY <4>1, Zenon
    <3>2. RetryInv' /\ phase' = phase /\ outcome = "calling"
      BY <2>1, <3>1, CallKeepsRetryInv DEF Ping, StartInv, Call
    <3> QED BY <3>2 DEF StartInv
  <2>2. CASE Backoff
    BY <1>a, <2>2 DEF Backoff, Wait, StartInv, RetryInv
  <2>3. CASE NewStore
    BY <2>3 DEF NewStore, StartInv, RetryInv, retryVars
  <2>4. CASE ListenFails
    BY <2>4 DEF ListenFails, StartInv, RetryInv, retryVars
  <2>5. CASE UNCHANGED <<phase, retryVars>>
    BY <2>5 DEF StartInv, RetryInv, retryVars
  <2>6. ASSUME NEW c \in Checks, Toggle(c) PROVE StartInv'
    BY <2>5, <2>6 DEF Toggle
  <2>7. ASSUME NEW r \in Requests, Handle(r) \/ Ready(r) PROVE StartInv'
    <3>1. UNCHANGED <<phase, retryVars>>
      BY <2>7 DEF Handle, Ready, Arrive, HandlerWritesHeader, HandlerWritesBody, HandlerHijacks,
                  HandlerReturns, HandlerPanics, Return, ArriveReady, Expire, RunCheck,
                  AnswerReady, Step
    <3> QED BY <2>5, <3>1
  <2> QED BY <2>1, <2>2, <2>3, <2>4, <2>5, <2>6, <2>7 DEF Next, vars
<1>3. StartInv => StartsOnItsStore
  <2> SUFFICES ASSUME StartInv PROVE StartsOnItsStore
    OBVIOUS
  <2>1. waits \in Seq(Nat) /\ DOMAIN waits = 1..Len(waits)
    BY DEF StartInv, RetryInv
  <2>2. ASSUME NEW k \in DOMAIN waits
        PROVE  waits[k] >= (IF k = 1 THEN 1 ELSE waits[k - 1])
    <3>1. k \in Nat /\ k \in 1..Len(waits) /\ k - 1 \in Nat
      BY <2>1, <2>2
    <3>2. waits[k] = backoff(k - 1)
      BY <3>1 DEF StartInv, RetryInv
    <3>3. CASE k = 1
      <4>1. backoff(k - 1) >= 1
        BY <3>1, BackoffGrows
      <4> QED BY <3>2, <3>3, <4>1
    <3>4. CASE k # 1
      <4>1. k - 1 \in 1..Len(waits) /\ (k - 1) - 1 \in Nat /\ ((k - 1) - 1) + 1 = k - 1
        BY <2>1, <3>1, <3>4
      <4>2. waits[k - 1] = backoff((k - 1) - 1)
        BY <4>1 DEF StartInv, RetryInv
      <4> DEFINE m == (k - 1) - 1
      <4>3. m \in Nat /\ m + 1 = k - 1 /\ waits[k - 1] = backoff(m)
        BY <4>1, <4>2
      <4> HIDE DEF m
      <4>4. backoff(m) <= backoff(m + 1) /\ backoff(m) \in Nat /\ backoff(m + 1) \in Nat
        BY <4>3, BackoffGrows
      <4>5. backoff(m + 1) = backoff(k - 1)
        BY ONLY <4>3
      <4> QED BY <3>2, <3>4, <4>3, <4>4, <4>5
    <3> QED BY <3>3, <3>4
  <2> QED BY <2>2 DEF StartInv, RetryInv, StartsOnItsStore
<1> QED BY <1>1, <1>2, <1>3, PTL DEF Spec
=============================================================================
