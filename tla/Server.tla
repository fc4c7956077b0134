------------------------------- MODULE Server -------------------------------
(***************************************************************************)
(* The process around the forum: it pings the database until it answers,   *)
(* then serves HTTP.  Every request passes the chain of middleware that    *)
(* httpserver.New builds, Logger around RequestID around Recovery around   *)
(* SecurityHeaders, and ends in a handler: the readiness check or another. *)
(*                                                                         *)
(* The other handlers (GraphQL, login, logout, liveness) are here only     *)
(* what they do to the ResponseWriter: they write a header or a body,      *)
(* take over the connection, panic or return, in any order net/http        *)
(* allows.  The memory store needs no ping and is always ready.            *)
(***************************************************************************)
EXTENDS Retry, FiniteSets

CONSTANTS Requests,
          Checks,     \* names registered with Health.Check before it serves
          Database,   \* the one of the store, pinged at the start too
          Codes       \* what a handler may pass to WriteHeader

ASSUME ServerAssumption == Database \in Checks /\ Codes \subseteq Nat \ {0}

VARIABLES phase,   \* "starting", "serving" or "exited"
          up,      \* the dependencies that answer their check
          req      \* [request -> its answer and how far it is]

vars == <<phase, up, req, retryVars>>

OK == 200
InternalServerError == 500
ServiceUnavailable == 503

\* headers are set, sentHeaders went out with the status sent; status is that
\* of the statusWriter and log the one in the access log.  The last four are
\* history.
NoRequest == [at |-> "idle", headers |-> {}, sentHeaders |-> {}, sent |-> 0,
              status |-> 0, log |-> 0, hijacked |-> FALSE, expired |-> FALSE,
              todo |-> {}, allOK |-> TRUE,
              ready |-> FALSE, panicked |-> FALSE, again |-> FALSE, wasUp |-> {}, wasDown |-> {}]

-----------------------------------------------------------------------------
(* net/http: the first header that is written counts. *)

Send(q, code) == IF q.sent # 0 \/ q.hijacked THEN q
                 ELSE [q EXCEPT !.sent = code, !.sentHeaders = q.headers]

-----------------------------------------------------------------------------
(* The middleware on the way in, and what of it runs on the way out. *)

\* Mutant of WriteHeader: the statusWriter does not see the code.
WriteHeaderUnseen(q, code) == Send(q, code)

WriteHeader(q, code) == [Send(q, code) EXCEPT !.status = code,
                                              !.again = @ \/ q.sent # 0 \/ q.hijacked]

WriteBody(q) == Send(q, OK)

Logger(q)          == [q EXCEPT !.status = OK]
RequestID(q)       == [q EXCEPT !.headers = @ \cup {"X-Request-ID"}]
SecurityHeaders(q) == [q EXCEPT !.headers = @ \cup {"X-Content-Type-Options",
                         "X-Frame-Options", "Referrer-Policy",
                         "Cross-Origin-Opener-Policy", "Cross-Origin-Resource-Policy"}]

Chain(q) == SecurityHeaders(RequestID(Logger(q)))

\* The handler has returned: Logger writes its record, and net/http sends the
\* header if nobody has.
Finish(q) == [Send(q, OK) EXCEPT !.at = "done", !.log = q.status]

Recovery(q) == Finish(WriteHeader([q EXCEPT !.panicked = TRUE], InternalServerError))

-----------------------------------------------------------------------------
(* Requests. *)

Step(r, at, q) == /\ phase = "serving" /\ req[r].at = at
                  /\ req' = [req EXCEPT ![r] = q]
                  /\ UNCHANGED <<phase, up, retryVars>>

Arrive(r) == Step(r, "idle", [Chain(NoRequest) EXCEPT !.at = "handler"])

HandlerWritesHeader(r) ==
  \E code \in Codes : Step(r, "handler", WriteHeader(req[r], code))

HandlerWritesBody(r) == Step(r, "handler", WriteBody(req[r]))

\* The upgrade to a websocket: possible only while nothing has been sent.
HandlerHijacks(r) == /\ req[r].sent = 0 /\ ~req[r].hijacked
                     /\ Step(r, "handler", [req[r] EXCEPT !.hijacked = TRUE])

HandlerReturns(r) == Step(r, "handler", Finish(req[r]))

HandlerPanics(r) == Step(r, "handler", Recovery(req[r]))

Return(r) == Step(r, "done", NoRequest)

-----------------------------------------------------------------------------
(* Health.Readiness: the checks run one after another, in the order of a map, *)
(* under one deadline for all.                                                *)

ArriveReady(r) ==
  Step(r, "idle", [Chain(NoRequest) EXCEPT !.at = "checking", !.ready = TRUE,
                     !.todo = Checks, !.wasUp = up, !.wasDown = Checks \ up])

Expire(r) == /\ ~req[r].expired
             /\ Step(r, "checking", [req[r] EXCEPT !.expired = TRUE])

\* Mutant of RunCheck: the last check decides.
RunCheckLast(r, c) ==
  /\ c \in req[r].todo
  /\ Step(r, "checking", [req[r] EXCEPT !.todo = @ \ {c},
                            !.allOK = c \in up /\ ~req[r].expired])

RunCheck(r, c) ==
  /\ c \in req[r].todo
  /\ Step(r, "checking", [req[r] EXCEPT !.todo = @ \ {c},
                            !.allOK = @ /\ c \in up /\ ~req[r].expired])

AnswerReady(r) ==
  /\ req[r].todo = {}
  /\ LET q == IF req[r].allOK THEN req[r] ELSE WriteHeader(req[r], ServiceUnavailable)
     IN  Step(r, "checking", Finish(WriteBody(q)))

-----------------------------------------------------------------------------
(* The process and what it depends on. *)

\* A dependency goes down or comes back.
Toggle(c) ==
  /\ up' = IF c \in up THEN up \ {c} ELSE up \cup {c}
  /\ req' = [r \in Requests |->
               IF req[r].at # "checking" THEN req[r]
               ELSE [req[r] EXCEPT !.wasUp = @ \cup up', !.wasDown = @ \cup (Checks \ up')]]
  /\ UNCHANGED <<phase, retryVars>>

Ping == Call(Database \in up) /\ UNCHANGED <<phase, up, req>>

Backoff == Wait /\ UNCHANGED <<phase, up, req>>

\* newStore returns: main goes on, or closes the pool and exits.
NewStore ==
  /\ phase = "starting" /\ outcome \in {"nil", "err"}
  /\ phase' = IF outcome = "nil" THEN "serving" ELSE "exited"
  /\ UNCHANGED <<up, req, retryVars>>

\* ListenAndServe fails: os.Exit(1), whatever is under way.
ListenFails ==
  /\ phase = "serving"
  /\ phase' = "exited"
  /\ req' = [r \in Requests |-> NoRequest]
  /\ UNCHANGED <<up, retryVars>>

Init == /\ RetryInit
        /\ phase = "starting" /\ up \in SUBSET Checks
        /\ req = [r \in Requests |-> NoRequest]

Handle(r) == \/ Arrive(r) \/ HandlerWritesHeader(r) \/ HandlerWritesBody(r)
             \/ HandlerHijacks(r) \/ HandlerReturns(r) \/ HandlerPanics(r) \/ Return(r)

Ready(r) == \/ ArriveReady(r) \/ Expire(r) \/ AnswerReady(r)
            \/ \E c \in Checks : RunCheck(r, c)

Next == \/ Ping \/ Backoff \/ NewStore \/ ListenFails
        \/ \E c \in Checks : Toggle(c)
        \/ \E r \in Requests : Handle(r) \/ Ready(r)

Spec == Init /\ [][Next]_vars

-----------------------------------------------------------------------------
\* The process serves only with a database that has answered, gives up only
\* when the last of its attempts has failed, and between attempts never waits
\* less than before: the delay grows to its cap and does not wrap.
StartsOnItsStore ==
  /\ phase = "serving" => reached
  /\ outcome = "err" => ~reached /\ Len(waits) = Attempts - 1
  /\ \A k \in DOMAIN waits : waits[k] >= (IF k = 1 THEN 1 ELSE waits[k - 1])

\* Every answer has the headers of the chain, also after a panic, which is
\* answered with a 500 unless an answer had begun.  The access log has the status
\* that the client saw, unless the connection was taken over or a header was
\* written again, by a handler or for a panic: then it has the last one.
AnswersAccountedFor ==
  \A r \in Requests : req[r].at = "done" =>
    LET q == req[r]
    IN  /\ q.hijacked <=> q.sent = 0
        /\ ~q.hijacked => q.sentHeaders = Chain(NoRequest).headers
        /\ q.panicked /\ ~q.again => q.sent = InternalServerError
        /\ ~q.hijacked /\ ~q.again => q.log = q.sent
        /\ q.panicked => q.log = InternalServerError

\* Ready means that each dependency answered its check at some time during the
\* request, and not ready that one did not or that the deadline had passed,
\* however they come and go while the checks run.
ReadinessTruthful ==
  \A r \in Requests : req[r].at = "done" /\ req[r].ready =>
    IF req[r].sent = OK THEN req[r].wasUp = Checks
    ELSE req[r].expired \/ req[r].wasDown # {}
=============================================================================
