----------------------------- MODULE UserLoader -----------------------------
(***************************************************************************)
(* The loader behind the author fields: requests that need a user within   *)
(* one batch window share one query, at most one query is in flight, and   *)
(* Shutdown flushes what is pending.  A critical section of userLoader.mu  *)
(* is one step; the query, the closing of the calls and the waits happen   *)
(* outside it.                                                             *)
(*                                                                         *)
(* A userCall is named by the Load that made it.  A timer is used once:    *)
(* armed, then fired (a goroutine that wants the lock, at "start") or      *)
(* stopped.  closer is the goroutine that runs Shutdown.                   *)
(***************************************************************************)
EXTENDS Integers, FiniteSets

CONSTANTS Loads,      \* requests, each of which calls Load once
          UserIDs,
          Timers,     \* the timers that may be made, one per batch
          None, closer

ASSUME LoaderAssumption == /\ closer \notin Timers
                           /\ None \notin Loads \cup Timers \cup {closer}

VARIABLES pending,     \* [user id -> the call that waits for it, or None]
          timer,       \* l.timer
          closed, inFlight,
          flightDone,  \* the flush that will close l.flightDone, None for nil
          pc,          \* state of each timer and its goroutine, and of closer
          batch,       \* the calls a flush has taken
          found,       \* what its query answered: a set of users, or Failed
          answer,      \* [call -> what it was completed with, "none" if open]
          load,        \* state of each Load
          users,       \* the users in the store
          awaited,     \* the flight that Shutdown found and waits for, or None
          late         \* timers that had fired, lock not taken, at Shutdown

vars == <<pending, timer, closed, inFlight, flightDone, pc, batch, found,
          answer, load, users, awaited, late>>

Flushes == Timers \cup {closer}

NothingPending == \A u \in UserIDs : pending[u] = None

\* The answer of a query that returned an error.
Failed == {None}

\* The timer that the next time.AfterFunc makes: their names mean nothing, so one
\* of the unused ones is fixed.
NewTimer(t) == /\ pc[t] = "new"
               /\ t = CHOOSE x \in Timers : pc[x] = "new"

-----------------------------------------------------------------------------
(* Load. *)

\* The call that a Load of user u joins: the pending one, or its own.
CallFor(l, u) == IF pending[u] = None THEN l ELSE pending[u]

NeedsTimer == timer = None /\ ~inFlight

LoadClosed(l, u) ==
  /\ load[l].at = "idle" /\ closed
  /\ load' = [load EXCEPT ![l] = [at |-> "returned", id |-> u, call |-> None,
                                  known |-> u \in users, result |-> "closed"]]
  /\ UNCHANGED <<pending, timer, closed, inFlight, flightDone, pc, batch, found,
                 answer, users, awaited, late>>

LoadJoin(l, u) ==
  /\ load[l].at = "idle" /\ ~closed
  /\ load' = [load EXCEPT ![l] = [at |-> "waiting", id |-> u, call |-> CallFor(l, u),
                                  known |-> u \in users, result |-> "none"]]
  /\ pending' = [pending EXCEPT ![u] = CallFor(l, u)]
  /\ \/ /\ NeedsTimer
        /\ \E t \in Timers : /\ NewTimer(t)
                             /\ timer' = t
                             /\ pc' = [pc EXCEPT ![t] = "armed"]
     \/ /\ ~NeedsTimer
        /\ UNCHANGED <<timer, pc>>
  /\ UNCHANGED <<closed, inFlight, flightDone, batch, found, answer, users,
                 awaited, late>>

Returned(l, result) == [load[l] EXCEPT !.at = "returned", !.result = result]

\* case <-call.done
LoadReturn(l) ==
  /\ load[l].at = "waiting"
  /\ answer[load[l].call] # "none"
  /\ load' = [load EXCEPT ![l] = Returned(l, answer[load[l].call])]
  /\ UNCHANGED <<pending, timer, closed, inFlight, flightDone, pc, batch, found,
                 answer, users, awaited, late>>

\* case <-ctx.Done(): the request is gone; its call stays where it is.
LoadCancelled(l) ==
  /\ load[l].at = "waiting"
  /\ load' = [load EXCEPT ![l] = Returned(l, "cancelled")]
  /\ UNCHANGED <<pending, timer, closed, inFlight, flightDone, pc, batch, found,
                 answer, users, awaited, late>>

-----------------------------------------------------------------------------
(* flush, by the goroutine of a timer or by Shutdown. *)

\* The runtime starts the function of an armed timer.
TimerFires(t) ==
  /\ pc[t] = "armed"
  /\ pc' = [pc EXCEPT ![t] = "start"]
  /\ UNCHANGED <<pending, timer, closed, inFlight, flightDone, batch, found,
                 answer, load, users, awaited, late>>

\* First critical section, early return.
FlushNothing(f) ==
  /\ pc[f] = "start"
  /\ inFlight \/ NothingPending
  /\ timer' = None
  /\ pc' = [pc EXCEPT ![f] = "done"]
  /\ UNCHANGED <<pending, closed, inFlight, flightDone, batch, found, answer,
                 load, users, awaited, late>>

\* Mutant of FlushTake: the flag inFlight is not set.
FlushTakeUnmarked(f) ==
  /\ pc[f] = "start" /\ ~inFlight /\ ~NothingPending
  /\ batch' = [batch EXCEPT ![f] = {pending[u] : u \in UserIDs} \ {None}]
  /\ pending' = [u \in UserIDs |-> None]
  /\ timer' = None
  /\ flightDone' = f
  /\ pc' = [pc EXCEPT ![f] = "flying"]
  /\ UNCHANGED <<closed, inFlight, found, answer, load, users, awaited, late>>

\* Mutant of FlushTake: the calls stay in pending, so that later Loads join them.
FlushTakeKeeping(f) ==
  /\ pc[f] = "start" /\ ~inFlight /\ ~NothingPending
  /\ batch' = [batch EXCEPT ![f] = {pending[u] : u \in UserIDs} \ {None}]
  /\ timer' = None
  /\ inFlight' = TRUE
  /\ flightDone' = f
  /\ pc' = [pc EXCEPT ![f] = "flying"]
  /\ UNCHANGED <<pending, closed, found, answer, load, users, awaited, late>>

\* First critical section: everything pending becomes the batch of this flush.
FlushTake(f) ==
  /\ pc[f] = "start"
  /\ ~inFlight /\ ~NothingPending
  /\ batch' = [batch EXCEPT ![f] = {pending[u] : u \in UserIDs} \ {None}]
  /\ pending' = [u \in UserIDs |-> None]
  /\ timer' = None
  /\ inFlight' = TRUE
  /\ flightDone' = f
  /\ pc' = [pc EXCEPT ![f] = "flying"]
  /\ UNCHANGED <<closed, found, answer, load, users, awaited, late>>

\* l.fn: the store reads the users of the batch at one moment, or fails.
FlushQuery(f) ==
  /\ pc[f] = "flying"
  /\ \E r \in {users, Failed} : found' = [found EXCEPT ![f] = r]
  /\ pc' = [pc EXCEPT ![f] = "queried"]
  /\ UNCHANGED <<pending, timer, closed, inFlight, flightDone, batch, answer,
                 load, users, awaited, late>>

\* The loop that completes every call of the batch and closes its done.
FlushAnswer(f) ==
  /\ pc[f] = "queried"
  /\ answer' = [c \in Loads |->
                  IF c \notin batch[f] THEN answer[c]
                  ELSE IF found[f] = Failed THEN "failed"
                  ELSE IF load[c].id \in found[f] THEN "user"
                  ELSE "notFound"]
  /\ pc' = [pc EXCEPT ![f] = "answered"]
  /\ UNCHANGED <<pending, timer, closed, inFlight, flightDone, batch, found,
                 load, users, awaited, late>>

\* Mutant of FlushFinish: the calls that came during the flight get no timer.
FlushFinishOnly(f) ==
  /\ pc[f] = "answered"
  /\ inFlight' = FALSE
  /\ flightDone' = None
  /\ pc' = [pc EXCEPT ![f] = "done"]
  /\ UNCHANGED <<pending, timer, closed, batch, found, answer, load, users,
                 awaited, late>>

\* Mutant of FlushFinish: once the loader is closed the flight is not concluded.
FlushFinishIfOpen(f) ==
  /\ pc[f] = "answered" /\ ~closed
  /\ inFlight' = FALSE
  /\ flightDone' = None
  /\ \/ /\ ~NothingPending
        /\ \E t \in Timers : /\ NewTimer(t)
                             /\ timer' = t
                             /\ pc' = [pc EXCEPT ![f] = "done", ![t] = "armed"]
     \/ /\ NothingPending
        /\ pc' = [pc EXCEPT ![f] = "done"]
        /\ UNCHANGED timer
  /\ UNCHANGED <<pending, closed, batch, found, answer, load, users, awaited, late>>

\* Second critical section: the flight is over; calls that came during it get a
\* timer of their own.
FlushFinish(f) ==
  /\ pc[f] = "answered"
  /\ inFlight' = FALSE
  /\ flightDone' = None
  /\ \/ /\ ~NothingPending /\ ~closed
        /\ \E t \in Timers : /\ NewTimer(t)
                             /\ timer' = t
                             /\ pc' = [pc EXCEPT ![f] = "done", ![t] = "armed"]
     \/ /\ NothingPending \/ closed
        /\ pc' = [pc EXCEPT ![f] = "done"]
        /\ UNCHANGED timer
  /\ UNCHANGED <<pending, closed, batch, found, answer, load, users, awaited, late>>

-----------------------------------------------------------------------------
(* Shutdown. *)

\* Its critical section: an armed timer is stopped, a fired one is only forgotten.
ShutdownClose ==
  /\ pc[closer] = "new"
  /\ pc' = [f \in Flushes |-> IF f = closer THEN "awaiting"
                              ELSE IF f = timer /\ pc[f] = "armed" THEN "stopped"
                              ELSE pc[f]]
  /\ timer' = None
  /\ closed' = TRUE
  /\ awaited' = flightDone
  /\ late' = {t \in Timers : pc[t] = "start"}
  /\ UNCHANGED <<pending, inFlight, flightDone, batch, found, answer, load, users>>

\* Mutant of ShutdownAwait: the flight is not waited for.
ShutdownGoOn ==
  /\ pc[closer] = "awaiting"
  /\ pc' = [pc EXCEPT ![closer] = "start"]
  /\ UNCHANGED <<pending, timer, closed, inFlight, flightDone, batch, found,
                 answer, load, users, awaited, late>>

\* <-flightDone, then flush.
ShutdownAwait ==
  /\ pc[closer] = "awaiting"
  /\ awaited # None => pc[awaited] = "done"
  /\ pc' = [pc EXCEPT ![closer] = "start"]
  /\ UNCHANGED <<pending, timer, closed, inFlight, flightDone, batch, found,
                 answer, load, users, awaited, late>>

\* A user logs in for the first time.
UserCreated(u) ==
  /\ u \notin users
  /\ users' = users \cup {u}
  /\ UNCHANGED <<pending, timer, closed, inFlight, flightDone, pc, batch, found,
                 answer, load, awaited, late>>

-----------------------------------------------------------------------------
Init == /\ pending = [u \in UserIDs |-> None]
        /\ timer = None /\ closed = FALSE
        /\ inFlight = FALSE /\ flightDone = None
        /\ pc = [f \in Flushes |-> "new"]
        /\ batch = [f \in Flushes |-> {}]
        /\ found = [f \in Flushes |-> {}]
        /\ answer = [c \in Loads |-> "none"]
        /\ load = [l \in Loads |-> [at |-> "idle", id |-> None, call |-> None,
                                    known |-> FALSE, result |-> "none"]]
        /\ users \in SUBSET UserIDs
        /\ awaited = None /\ late = {}

LoadNext(l) == \/ \E u \in UserIDs : LoadClosed(l, u) \/ LoadJoin(l, u)
               \/ LoadReturn(l) \/ LoadCancelled(l)

FlushNext(f) == \/ FlushNothing(f) \/ FlushTake(f) \/ FlushQuery(f)
                \/ FlushAnswer(f) \/ FlushFinish(f)

Next == \/ \E l \in Loads : LoadNext(l)
        \/ \E t \in Timers : TimerFires(t)
        \/ \E f \in Flushes : FlushNext(f)
        \/ ShutdownClose \/ ShutdownAwait
        \/ \E u \in UserIDs : UserCreated(u)

SafetySpec == Init /\ [][Next]_vars

-----------------------------------------------------------------------------
TimerStates == {"new", "armed", "stopped", "start", "flying", "queried", "answered",
                "done"}
LoadRec == [at : {"idle", "waiting", "returned"}, id : UserIDs \cup {None},
            call : Loads \cup {None}, known : BOOLEAN,
            result : {"none", "user", "notFound", "failed", "closed", "cancelled"}]

\* The fields of userLoader, its calls and its goroutines hold values of their
\* types, and a Load that waits has a call to wait for (loaders.go:14-28).
TypeOK ==
  /\ pending \in [UserIDs -> Loads \cup {None}]
  /\ timer \in Timers \cup {None}
  /\ closed \in BOOLEAN /\ inFlight \in BOOLEAN
  /\ flightDone \in Flushes \cup {None}
  /\ pc \in [Flushes -> TimerStates \cup {"awaiting"}]
  /\ batch \in [Flushes -> SUBSET Loads]
  /\ found \in [Flushes -> SUBSET (UserIDs \cup {None})]
  /\ answer \in [Loads -> {"none", "user", "notFound", "failed"}]
  /\ load \in [Loads -> LoadRec]
  /\ \A l \in Loads : load[l].at = "waiting" => load[l].call \in Loads
  /\ users \subseteq UserIDs
  /\ awaited \in Flushes \cup {None}
  /\ late \subseteq Timers

Flying(f) == pc[f] \in {"flying", "queried", "answered"}

\* However timers, Loads and Shutdown interleave, at most one flush is between
\* its critical sections, and it is the one that l.flightDone will announce:
\* nobody overwrites the channel that Shutdown is waiting on.
SingleFlight == /\ \A f \in Flushes : Flying(f) => flightDone = f
                /\ flightDone # None => Flying(flightDone)
                /\ inFlight <=> flightDone # None

\* A call that is pending will be taken: by the timer that l.timer holds, by the
\* one that the flight will set, or by the flush of a Shutdown under way.
NoOrphan ==
  \/ NothingPending
  \/ timer # None /\ pc[timer] \in {"armed", "start"}
  \/ inFlight /\ ~closed
  \/ pc[closer] \in {"awaiting", "start"}

\* A user that was in the store when it was asked for is never reported missing,
\* even to a Load that shares another's call, and the user that was asked for is
\* the one that the shared call carries.
KnownUserFound ==
  \A l \in Loads :
    /\ load[l].known => load[l].result # "notFound"
    /\ load[l].call # None => load[load[l].call].id = load[l].id

\* Once Shutdown has returned no call is pending, and none is in flight either
\* unless a timer had fired just before Shutdown could stop it.
ShutdownQuiesces ==
  pc[closer] = "done" => /\ NothingPending
                         /\ late = {} => ~inFlight
=============================================================================
