----------------------------- MODULE Lifecycle -----------------------------
(***************************************************************************)
(* The end of the process: requests that need the user loader, and the     *)
(* shutdown manager, which on a signal stops http server, resolver and     *)
(* store in the reverse order of their registration, under one deadline.   *)
(*                                                                         *)
(* A request, or an operation on a websocket, is named by the Load that it *)
(* may make.  http.Server.Shutdown takes no new requests and waits for     *)
(* those in hand or for the deadline; it does not touch websockets.  The   *)
(* resolver (here its loader; its subscriptions are in CommentFeed) and    *)
(* the store take no notice of the deadline.  When the manager is through, *)
(* main returns and the process is gone.                                   *)
(***************************************************************************)
EXTENDS UserLoader, Sequences

CONSTANT WebSockets      \* the Loads of operations on websockets

ASSUME LifecycleAssumption == WebSockets \subseteq Loads

VARIABLES handler,       \* [Load -> "none", "open" or "answered"]
          signalled,     \* SIGTERM or an interrupt has come
          deadline,      \* the 15 seconds after it are over
          stopped        \* number of services that have been stopped

lifeVars == <<handler, signalled, deadline, stopped>>
allVars  == <<vars, lifeVars>>

Requests == Loads \ WebSockets

\* As main registers them.
Services == <<"store", "graphql", "http">>

\* Mutant of Order: from the first registered on.
RegistrationOrder == Services

\* As the manager stops them.
Order == [k \in 1..3 |-> Services[4 - k]]

Stopping(service) == signalled /\ stopped < 3 /\ Order[stopped + 1] = service
IsStopped(service) == \E k \in 1..stopped : Order[k] = service
Exited == stopped = 3

Listening == ~Stopping("http") /\ ~IsStopped("http")

-----------------------------------------------------------------------------
\* A request comes in, or an operation over a websocket opened before.
Accept(l) ==
  /\ handler[l] = "none" /\ ~Exited
  /\ l \in Requests => Listening
  /\ handler' = [handler EXCEPT ![l] = "open"]
  /\ UNCHANGED <<signalled, deadline, stopped>> /\ UNCHANGED vars

\* The resolver of an author field asks the loader.
Resolve(l) ==
  /\ handler[l] = "open" /\ ~Exited
  /\ LoadNext(l)
  /\ UNCHANGED lifeVars

\* The handler returns, with or without having asked for a user.
Respond(l) ==
  /\ handler[l] = "open" /\ ~Exited
  /\ load[l].at # "waiting"
  /\ handler' = [handler EXCEPT ![l] = "answered"]
  /\ UNCHANGED <<signalled, deadline, stopped>> /\ UNCHANGED vars

\* Timers and flights of the loader, and users who log in.
Background ==
  /\ ~Exited
  /\ \/ \E t \in Timers : TimerFires(t)
     \/ \E f \in Flushes : FlushNext(f)
     \/ \E u \in UserIDs : UserCreated(u)
  /\ UNCHANGED lifeVars

-----------------------------------------------------------------------------
(* Manager.run. *)

Signal ==
  /\ ~signalled
  /\ signalled' = TRUE
  /\ UNCHANGED <<handler, deadline, stopped>> /\ UNCHANGED vars

DeadlinePasses ==
  /\ signalled /\ ~deadline /\ ~Exited
  /\ deadline' = TRUE
  /\ UNCHANGED <<handler, signalled, stopped>> /\ UNCHANGED vars

\* The next service, whatever the last one returned.
Stopped(service) ==
  /\ Stopping(service)
  /\ stopped' = stopped + 1
  /\ UNCHANGED <<handler, signalled, deadline>> /\ UNCHANGED vars

\* srv.Shutdown returns.
HTTPStopped == /\ deadline \/ \A l \in Requests : handler[l] # "open"
               /\ Stopped("http")

\* resolver.Shutdown runs the Shutdown of the loader.
ResolverShutdown == /\ Stopping("graphql")
                    /\ ShutdownClose \/ ShutdownAwait
                    /\ UNCHANGED lifeVars

ResolverStopped == pc[closer] = "done" /\ Stopped("graphql")

\* set.close: the memory store does nothing; a pool closes when the queries that
\* hold a connection have come back, a wait that is left out.
StoreStopped == Stopped("store")

-----------------------------------------------------------------------------
LifeInit == /\ Init
            /\ handler = [l \in Loads |-> "none"]
            /\ signalled = FALSE /\ deadline = FALSE /\ stopped = 0

ManagerNext == \/ Signal \/ DeadlinePasses
               \/ HTTPStopped \/ ResolverShutdown \/ ResolverStopped \/ StoreStopped

LifeNext == \/ \E l \in Loads : Accept(l) \/ Resolve(l) \/ Respond(l)
            \/ Background
            \/ ManagerNext

LifeSafetySpec == LifeInit /\ [][LifeNext]_allVars

\* While the process lives the runtime fires timers, the scheduler runs
\* goroutines and a query comes back.  No signal need ever come.
LifeFairness ==
  /\ \A l \in Loads : WF_allVars(~Exited /\ LoadReturn(l) /\ UNCHANGED lifeVars)
  /\ \A l \in Loads : WF_allVars(Respond(l))
  /\ \A t \in Timers : WF_allVars(~Exited /\ TimerFires(t) /\ UNCHANGED lifeVars)
  /\ \A f \in Flushes : WF_allVars(~Exited /\ FlushNext(f) /\ UNCHANGED lifeVars)
  /\ WF_allVars(DeadlinePasses)
  /\ WF_allVars(HTTPStopped) /\ WF_allVars(ResolverShutdown)
  /\ WF_allVars(ResolverStopped) /\ WF_allVars(StoreStopped)

LifeSpec == LifeSafetySpec /\ LifeFairness

-----------------------------------------------------------------------------
\* What is stopped is no longer in use: within the deadline no request meets a
\* closed loader or a closed store, and the store is closed after the last query
\* of the loader, unless a timer had fired before the loader was closed.
StopsAfterUse ==
  /\ ~deadline => \A l \in Requests : /\ load[l].result # "closed"
                                      /\ IsStopped("store") => handler[l] # "open"
  /\ IsStopped("store") /\ late = {} => ~inFlight

\* Every request is answered, through any number of flights and through a
\* shutdown, unless the process ends before it; StopsAfterUse says when.
RequestsAnswered ==
  \A l \in Loads : handler[l] = "open" ~> handler[l] = "answered" \/ Exited

\* After a signal the process ends: no service waits for ever, though two of
\* them do not look at the deadline.
ProcessExits == signalled ~> Exited
=============================================================================
