-------------------------- MODULE LifecycleProofs --------------------------
(***************************************************************************)
(* Proofs about UserLoader and Lifecycle for any sets of requests,         *)
(* websockets, users and timers: first the loader by itself, then the      *)
(* process around it, whose every step is one of the loader's or leaves    *)
(* the loader alone.                                                       *)
(***************************************************************************)
EXTENDS Lifecycle, TLAPS

-----------------------------------------------------------------------------
(* The inductive invariants. *)

\* l.timer is the only timer that is armed or fired, and only between flights.
TimerInv ==
  /\ timer # None => ~inFlight /\ ~closed /\ pc[timer] \in {"armed", "start"}
  /\ \A t \in Timers :
       pc[t] \in {"armed", "start"} =>
         \/ timer = t
         \/ closed /\ pc[t] = "start" /\ t \in late

\* Shutdown moves forward; a flight that leaves calls behind is the one that it
\* awaits, and unless a timer had fired there is no other but its own.
CloserInv ==
  /\ pc[closer] \notin {"armed", "stopped"}
  /\ closed <=> pc[closer] # "new"
  /\ closed /\ inFlight /\ ~NothingPending =>
       pc[closer] = "awaiting" /\ awaited = flightDone
  /\ closed /\ inFlight /\ late = {} =>
       \/ pc[closer] = "awaiting" /\ awaited = flightDone
       \/ flightDone = closer
  /\ pc[closer] = "done" /\ late = {} => ~inFlight

FlightInv == TypeOK /\ SingleFlight /\ TimerInv /\ CloserInv /\ NoOrphan

\* A call is open exactly as long as a Load may still join it.
CallInv ==
  /\ \A l \in Loads :
       /\ load[l].known => load[l].id \in users
       /\ load[l].at = "idle" => load[l].call = None /\ answer[l] = "none"
       /\ load[l].call # None =>
            /\ load[load[l].call].call = load[l].call
            /\ load[load[l].call].id = load[l].id
  /\ \A u \in UserIDs : pending[u] # None =>
       /\ load[pending[u]].call = pending[u]
       /\ load[pending[u]].id = u
       /\ answer[pending[u]] = "none"
       /\ \A f \in Flushes : pending[u] \notin batch[f]
  /\ \A f \in Flushes : \A c \in batch[f] : load[c].call = c

\* A query is made after the last Load has joined its calls.
AnswerInv ==
  /\ \A f \in Flushes, l \in Loads :
       pc[f] = "queried" /\ load[l].call \in batch[f] /\ load[l].known =>
         found[f] = Failed \/ load[l].id \in found[f]
  /\ \A l \in Loads : load[l].known =>
       /\ load[l].result # "notFound"
       /\ load[l].call # None => answer[load[l].call] # "notFound"

FreshInv == TypeOK /\ CallInv /\ AnswerInv

-----------------------------------------------------------------------------
\* The record of a Load that has returned.
LEMMA ReturnedType ==
  ASSUME NEW l \in Loads, load[l] \in LoadRec,
         NEW r \in {"none", "user", "notFound", "failed", "closed", "cancelled"}
  PROVE  /\ Returned(l, r) \in LoadRec
         /\ Returned(l, r).at = "returned"
         /\ Returned(l, r).id = load[l].id
         /\ Returned(l, r).call = load[l].call
         /\ Returned(l, r).known = load[l].known
         /\ Returned(l, r).result = r
  BY DEF Returned, LoadRec

\* The initial values have their types.
LEMMA TypeInit == Init => TypeOK
<1> USE LoaderAssumption DEF Flushes, Failed
<1> SUFFICES ASSUME Init PROVE TypeOK
  OBVIOUS
<1> USE DEF Init
<1>1. load \in [Loads -> LoadRec]
  BY DEF LoadRec
<1>2. \A l \in Loads : load[l].at = "waiting" => load[l].call \in Loads
  OBVIOUS
<1>3. pc \in [Flushes -> TimerStates \cup {"awaiting"}]
  BY DEF TimerStates
<1>4. found \in [Flushes -> SUBSET (UserIDs \cup {None})]
  OBVIOUS
<1> QED BY <1>1, <1>2, <1>3, <1>4 DEF TypeOK

\* Every step preserves the types.
LEMMA TypeStep == TypeOK /\ [Next]_vars => TypeOK'
<1> USE LoaderAssumption DEF Flushes, Failed
<1> SUFFICES ASSUME TypeOK, [Next]_vars PROVE TypeOK'
  OBVIOUS
<1> USE DEF TypeOK, TimerStates, LoadRec
<1>1. ASSUME NEW l \in Loads, LoadNext(l) PROVE TypeOK'
  <2>1. ASSUME NEW u \in UserIDs, LoadClosed(l, u) PROVE TypeOK'
    BY <2>1 DEF LoadClosed
  <2>2. ASSUME NEW u \in UserIDs, LoadJoin(l, u) PROVE TypeOK'
    <3>1. CallFor(l, u) \in Loads
      BY DEF CallFor
    <3>2. load' \in [Loads -> LoadRec] /\ pending' \in [UserIDs -> Loads \cup {None}]
      BY <2>2, <3>1 DEF LoadJoin
    <3>3. timer' \in Timers \cup {None} /\ pc' \in [Flushes -> TimerStates \cup {"awaiting"}]
      BY <2>2 DEF LoadJoin
    <3>4. \A k \in Loads : load'[k].at = "waiting" => load'[k].call \in Loads
      BY <2>2, <3>1 DEF LoadJoin
    <3> QED BY <2>2, <3>2, <3>3, <3>4 DEF LoadJoin
  <2>3. CASE LoadReturn(l)
    <3>1. load[l].call \in Loads
      BY <2>3 DEF LoadReturn
    <3>2. answer[load[l].call] \in {"user", "notFound", "failed"}
      BY <2>3, <3>1 DEF LoadReturn
    <3>3. load' \in [Loads -> LoadRec]
      <4>1. Returned(l, answer[load[l].call]) \in LoadRec
        BY <3>2, ReturnedType
      <4> QED BY <2>3, <4>1 DEF LoadReturn
    <3>4. \A k \in Loads : load'[k].at = "waiting" => load'[k].call \in Loads
      BY <2>3, <3>2, ReturnedType DEF LoadReturn
    <3> QED BY <2>3, <3>3, <3>4 DEF LoadReturn
  <2>4. CASE LoadCancelled(l)
    <3>1. Returned(l, "cancelled") \in LoadRec
      BY ReturnedType
    <3>2. load' \in [Loads -> LoadRec]
      BY <2>4, <3>1 DEF LoadCancelled
    <3>3. \A k \in Loads : load'[k].at = "waiting" => load'[k].call \in Loads
      BY <2>4, ReturnedType DEF LoadCancelled
    <3> QED BY <2>4, <3>2, <3>3 DEF LoadCancelled
  <2> QED BY <1>1, <2>1, <2>2, <2>3, <2>4 DEF LoadNext
<1>2. ASSUME NEW t \in Timers, TimerFires(t) PROVE TypeOK'
  BY <1>2 DEF TimerFires
<1>3. ASSUME NEW f \in Flushes, FlushNext(f) PROVE TypeOK'
  <2>1. CASE FlushNothing(f)
    BY <2>1 DEF FlushNothing
  <2>2. CASE FlushTake(f)
    BY <2>2 DEF FlushTake
  <2>3. CASE FlushQuery(f)
    BY <2>3 DEF FlushQuery
  <2>4. CASE FlushAnswer(f)
    BY <2>4 DEF FlushAnswer
  <2>5. CASE FlushFinish(f)
    BY <2>5 DEF FlushFinish
  <2> QED BY <1>3, <2>1, <2>2, <2>3, <2>4, <2>5 DEF FlushNext
<1>4. CASE ShutdownClose
  BY <1>4 DEF ShutdownClose
<1>5. CASE ShutdownAwait
  BY <1>5 DEF ShutdownAwait
<1>6. ASSUME NEW u \in UserIDs, UserCreated(u) PROVE TypeOK'
  BY <1>6 DEF UserCreated
<1>7. CASE UNCHANGED vars
  BY <1>7 DEF vars
<1> QED BY <1>1, <1>2, <1>3, <1>4, <1>5, <1>6, <1>7 DEF Next

\* Every field keeps its type (loaders.go:14-28).
THEOREM TypeCorrect == SafetySpec => []TypeOK
  BY TypeInit, TypeStep, PTL DEF SafetySpec

-----------------------------------------------------------------------------
(* Flights, timers and Shutdown. *)

LEMMA FlightInit == Init => FlightInv
<1> SUFFICES ASSUME Init PROVE FlightInv
  OBVIOUS
<1>1. TypeOK
  BY TypeInit
<1>2. SingleFlight /\ TimerInv /\ CloserInv /\ NoOrphan
  BY LoaderAssumption
     DEF Init, SingleFlight, TimerInv, CloserInv, NoOrphan, Flying, NothingPending, Flushes
<1> QED BY <1>1, <1>2 DEF FlightInv

\* The actions that no conjunct but TypeOK looks at.
LEMMA FlightStutter ==
  ASSUME FlightInv, TypeOK',
         UNCHANGED <<pending, timer, closed, inFlight, flightDone, pc, awaited, late>>
  PROVE  FlightInv'
  BY DEF FlightInv, SingleFlight, TimerInv, CloserInv, NoOrphan, Flying, NothingPending

LEMMA FlightStep == FlightInv /\ [Next]_vars => FlightInv'
<1> SUFFICES ASSUME FlightInv, [Next]_vars PROVE FlightInv'
  OBVIOUS
<1>t. TypeOK /\ TypeOK'
  BY TypeStep DEF FlightInv
<1> USE LoaderAssumption
<1>1. ASSUME NEW l \in Loads, LoadNext(l) PROVE FlightInv'
  <2>1. ASSUME NEW u \in UserIDs, LoadJoin(l, u) PROVE FlightInv'
    <3>1. ~closed
      BY <2>1 DEF LoadJoin
    <3>2. CASE NeedsTimer
      <4>1. PICK t \in Timers : /\ pc[t] = "new" /\ timer' = t
                               /\ pc' = [pc EXCEPT ![t] = "armed"]
        BY <2>1, <3>2 DEF LoadJoin, NewTimer
      <4>2. /\ pc'[t] = "armed" /\ \A f \in Flushes \ {t} : pc'[f] = pc[f]
            /\ pc'[closer] = pc[closer]
            /\ timer' # None
        BY <4>1, <1>t DEF TypeOK, Flushes
      <4>3. SingleFlight'
        BY <2>1, <4>1, <4>2, <1>t DEF LoadJoin, FlightInv, SingleFlight, Flying, TypeOK, Flushes
      <4>4. TimerInv'
        BY <2>1, <3>1, <3>2, <4>1, <4>2, <1>t
           DEF LoadJoin, FlightInv, TimerInv, NeedsTimer, TypeOK, Flushes
      <4>5. CloserInv'
        BY <2>1, <3>1, <4>1, <4>2, <1>t DEF LoadJoin, FlightInv, CloserInv
      <4>6. NoOrphan'
        BY <4>1, <4>2 DEF NoOrphan
      <4> QED BY <1>t, <4>3, <4>4, <4>5, <4>6 DEF FlightInv
    <3>3. CASE ~NeedsTimer
      <4>1. /\ UNCHANGED <<timer, pc, closed, inFlight, flightDone, awaited, late>>
        BY <2>1, <3>3 DEF LoadJoin
      <4>2. SingleFlight' /\ TimerInv'
        BY <4>1 DEF FlightInv, SingleFlight, TimerInv, Flying
      <4>3. CloserInv'
        BY <3>1, <4>1 DEF FlightInv, CloserInv
      <4>4. NoOrphan'
        BY <3>1, <3>3, <4>1 DEF FlightInv, TimerInv, NoOrphan, NeedsTimer
      <4> QED BY <1>t, <4>2, <4>3, <4>4 DEF FlightInv
    <3> QED BY <3>2, <3>3
  <2>2. CASE ~\E u \in UserIDs : LoadJoin(l, u)
    BY <1>1, <2>2, <1>t, FlightStutter DEF LoadNext, LoadClosed, LoadReturn, LoadCancelled
  <2> QED BY <2>1, <2>2
<1>2. ASSUME NEW t \in Timers, TimerFires(t) PROVE FlightInv'
  <2>1. /\ pc'[t] = "start" /\ pc[t] = "armed"
        /\ \A f \in Flushes \ {t} : pc'[f] = pc[f]
        /\ pc'[closer] = pc[closer]
        /\ UNCHANGED <<pending, timer, closed, inFlight, flightDone, awaited, late>>
    BY <1>2, <1>t DEF TimerFires, TypeOK, Flushes
  <2>2. SingleFlight'
    BY <2>1, <1>t DEF FlightInv, SingleFlight, Flying, TypeOK, Flushes
  <2>3. TimerInv'
    BY <2>1, <1>t DEF FlightInv, TimerInv, TypeOK, Flushes
  <2>4. CloserInv' /\ NoOrphan'
    BY <2>1, <1>t DEF FlightInv, CloserInv, TimerInv, NoOrphan, NothingPending, TypeOK, Flushes
  <2> QED BY <1>t, <2>2, <2>3, <2>4 DEF FlightInv
<1>3. ASSUME NEW f \in Flushes, FlushNext(f) PROVE FlightInv'
  <2>1. CASE FlushNothing(f)
    <3>1. /\ pc'[f] = "done" /\ pc[f] = "start"
          /\ \A g \in Flushes \ {f} : pc'[g] = pc[g]
          /\ inFlight \/ NothingPending
          /\ timer' = None
          /\ UNCHANGED <<pending, closed, inFlight, flightDone, awaited, late>>
      BY <2>1, <1>t DEF FlushNothing, TypeOK, Flushes
    <3>2. SingleFlight'
      BY <3>1, <1>t DEF FlightInv, SingleFlight, Flying, TypeOK, Flushes
    <3>3. TimerInv'
      BY <3>1, <1>t DEF FlightInv, TimerInv, CloserInv, TypeOK, Flushes
    <3>4. CloserInv'
      BY <3>1, <1>t DEF FlightInv, CloserInv, SingleFlight, Flying, NothingPending, TypeOK, Flushes
    <3>5. NoOrphan'
      BY <3>1, <1>t
         DEF FlightInv, CloserInv, TimerInv, NoOrphan, NothingPending, TypeOK, Flushes
    <3> QED BY <1>t, <3>2, <3>3, <3>4, <3>5 DEF FlightInv
  <2>2. CASE FlushTake(f)
    <3>1. /\ pc'[f] = "flying" /\ pc[f] = "start"
          /\ \A g \in Flushes \ {f} : pc'[g] = pc[g]
          /\ ~inFlight /\ inFlight' /\ flightDone' = f
          /\ timer' = None /\ NothingPending'
          /\ UNCHANGED <<closed, awaited, late>>
      BY <2>2, <1>t DEF FlushTake, TypeOK, Flushes, NothingPending
    <3>2. SingleFlight'
      BY <3>1, <1>t DEF FlightInv, SingleFlight, Flying, TypeOK, Flushes
    <3>3. TimerInv'
      BY <3>1, <1>t DEF FlightInv, TimerInv, CloserInv, TypeOK, Flushes
    <3>4. CloserInv'
      BY <3>1, <1>t DEF FlightInv, CloserInv, TimerInv, TypeOK, Flushes
    <3>5. NoOrphan'
      BY <3>1 DEF NoOrphan
    <3> QED BY <1>t, <3>2, <3>3, <3>4, <3>5 DEF FlightInv
  <2>3. CASE FlushQuery(f) \/ FlushAnswer(f)
    <3>1. /\ Flying(f) /\ Flying(f)'
          /\ pc'[f] \in {"queried", "answered"}
          /\ \A g \in Flushes \ {f} : pc'[g] = pc[g]
          /\ UNCHANGED <<pending, timer, closed, inFlight, flightDone, awaited, late>>
      BY <2>3, <1>t DEF FlushQuery, FlushAnswer, Flying, TypeOK
    <3>2. SingleFlight'
      BY <3>1, <1>t DEF FlightInv, SingleFlight, Flying, TypeOK, Flushes
    <3>3. TimerInv'
      BY <3>1, <1>t DEF FlightInv, TimerInv, Flying, TypeOK, Flushes
    <3>4. CloserInv' /\ NoOrphan'
      BY <3>1, <1>t
         DEF FlightInv, CloserInv, TimerInv, NoOrphan, NothingPending, Flying, TypeOK, Flushes
    <3> QED BY <1>t, <3>2, <3>3, <3>4 DEF FlightInv
  <2>4. CASE FlushFinish(f)
    <3>1. pc[f] = "answered" /\ f = flightDone /\ inFlight
      BY <2>4 DEF FlushFinish, FlightInv, SingleFlight, Flying, Flushes
    <3>2. CASE ~NothingPending /\ ~closed
      <4>1. PICK t \in Timers : /\ pc[t] = "new" /\ timer' = t
                               /\ pc' = [pc EXCEPT ![f] = "done", ![t] = "armed"]
        BY <2>4, <3>2 DEF FlushFinish, NewTimer
      <4>2. /\ pc'[f] = "done" /\ pc'[t] = "armed" /\ timer' # None
            /\ \A g \in Flushes \ {f, t} : pc'[g] = pc[g]
            /\ ~inFlight' /\ flightDone' = None
            /\ UNCHANGED <<pending, closed, awaited, late>>
        BY <2>4, <3>1, <4>1, <1>t DEF FlushFinish, TypeOK, Flushes
      <4>3. SingleFlight'
        BY <3>1, <4>1, <4>2, <1>t DEF FlightInv, SingleFlight, Flying, TypeOK, Flushes
      <4>4. TimerInv'
        BY <3>1, <3>2, <4>1, <4>2, <1>t DEF FlightInv, TimerInv, TypeOK, Flushes
      <4>5. CloserInv'
        BY <3>1, <3>2, <4>1, <4>2, <1>t DEF FlightInv, CloserInv, TypeOK, Flushes
      <4>6. NoOrphan'
        BY <4>1, <4>2 DEF NoOrphan
      <4> QED BY <1>t, <4>3, <4>4, <4>5, <4>6 DEF FlightInv
    <3>3. CASE NothingPending \/ closed
      <4>1. /\ pc'[f] = "done"
            /\ \A g \in Flushes \ {f} : pc'[g] = pc[g]
            /\ ~inFlight' /\ flightDone' = None
            /\ UNCHANGED <<pending, timer, closed, awaited, late>>
        BY <2>4, <3>3, <1>t DEF FlushFinish, TypeOK
      <4>2. SingleFlight'
        BY <3>1, <4>1, <1>t DEF FlightInv, SingleFlight, Flying, TypeOK, Flushes
      <4>3. TimerInv'
        BY <3>1, <4>1, <1>t DEF FlightInv, TimerInv, TypeOK, Flushes
      <4>4. CloserInv'
        BY <3>1, <4>1, <1>t DEF FlightInv, CloserInv, NothingPending, TypeOK, Flushes
      <4>5. NoOrphan'
        BY <3>1, <3>3, <4>1, <1>t
           DEF FlightInv, TimerInv, CloserInv, NoOrphan, NothingPending, TypeOK, Flushes
      <4> QED BY <1>t, <4>2, <4>3, <4>4, <4>5 DEF FlightInv
    <3> QED BY <3>2, <3>3
  <2> QED BY <1>3, <2>1, <2>2, <2>3, <2>4 DEF FlushNext
<1>4. CASE ShutdownClose
  <2>1. /\ pc[closer] = "new" /\ pc'[closer] = "awaiting"
        /\ \A t \in Timers : pc'[t] = IF t = timer /\ pc[t] = "armed" THEN "stopped" ELSE pc[t]
        /\ timer' = None /\ closed' /\ ~closed /\ awaited' = flightDone
        /\ late' = {t \in Timers : pc[t] = "start"}
        /\ UNCHANGED <<pending, inFlight, flightDone>>
    BY <1>4 DEF ShutdownClose, Flushes, FlightInv, CloserInv
  <2>2. SingleFlight'
    BY <2>1, <1>t DEF FlightInv, SingleFlight, Flying, TypeOK, Flushes
  <2>3. TimerInv'
    BY <2>1, <1>t DEF FlightInv, TimerInv, TypeOK, Flushes
  <2>4. CloserInv' /\ NoOrphan'
    BY <2>1 DEF CloserInv, NoOrphan
  <2> QED BY <1>t, <2>2, <2>3, <2>4 DEF FlightInv
<1>5. CASE ShutdownAwait
  <2>1. /\ pc[closer] = "awaiting" /\ pc'[closer] = "start"
        /\ \A t \in Timers : pc'[t] = pc[t]
        /\ awaited # None => pc[awaited] = "done"
        /\ UNCHANGED <<pending, timer, closed, inFlight, flightDone, awaited, late>>
    BY <1>5, <1>t DEF ShutdownAwait, TypeOK, Flushes
  <2>2. SingleFlight'
    BY <2>1, <1>t DEF FlightInv, SingleFlight, Flying, TypeOK, Flushes
  <2>3. TimerInv'
    BY <2>1, <1>t DEF FlightInv, TimerInv, TypeOK, Flushes
  <2>4. inFlight => flightDone # awaited
    BY <2>1 DEF FlightInv, SingleFlight, Flying
  <2>5. CloserInv' /\ NoOrphan'
    BY <2>1, <2>4 DEF FlightInv, CloserInv, NoOrphan, NothingPending
  <2> QED BY <1>t, <2>2, <2>3, <2>5 DEF FlightInv
<1>6. ASSUME NEW u \in UserIDs, UserCreated(u) PROVE FlightInv'
  BY <1>6, <1>t, FlightStutter DEF UserCreated
<1>7. CASE UNCHANGED vars
  BY <1>7, <1>t, FlightStutter DEF vars
<1> QED BY <1>1, <1>2, <1>3, <1>4, <1>5, <1>6, <1>7 DEF Next

LEMMA FlightInvariant == SafetySpec => []FlightInv
  BY FlightInit, FlightStep, PTL DEF SafetySpec

\* For any number of requests, timers and users, two flushes never query at the
\* same time and l.flightDone is never overwritten while Shutdown waits on it.
THEOREM OneFlightAtATime == SafetySpec => []SingleFlight
  BY FlightInvariant, PTL DEF FlightInv

\* A call that some Load made is never left without a flush that will take it.
THEOREM NoCallOrphaned == SafetySpec => []NoOrphan
  BY FlightInvariant, PTL DEF FlightInv

\* When Shutdown returns nothing is pending; a query can outlive it only if its
\* timer had fired before Shutdown took the lock.
THEOREM ShutdownLeavesNothing == SafetySpec => []ShutdownQuiesces
<1>1. FlightInv => ShutdownQuiesces
  <2> SUFFICES ASSUME FlightInv, pc[closer] = "done"
               PROVE  NothingPending /\ (late = {} => ~inFlight)
    BY DEF ShutdownQuiesces
  <2>1. closed /\ timer = None
    BY DEF FlightInv, CloserInv, TimerInv
  <2> QED BY <2>1 DEF FlightInv, CloserInv, NoOrphan
<1> QED BY <1>1, FlightInvariant, PTL

-----------------------------------------------------------------------------
(* Answers. *)

LEMMA FreshInit == Init => FreshInv
<1> SUFFICES ASSUME Init PROVE FreshInv
  OBVIOUS
<1>1. TypeOK
  BY TypeInit
<1>2. CallInv /\ AnswerInv
  BY DEF Init, CallInv, AnswerInv, Flushes
<1> QED BY <1>1, <1>2 DEF FreshInv

\* The actions that leave calls and answers alone.
LEMMA FreshStutter ==
  ASSUME FreshInv, TypeOK', UNCHANGED <<pending, batch, found, answer, load>>,
         users \subseteq users',
         \A f \in Flushes : pc'[f] = "queried" => pc[f] = "queried"
  PROVE  FreshInv'
  BY DEF FreshInv, CallInv, AnswerInv

LEMMA FreshStep == FreshInv /\ [Next]_vars => FreshInv'
<1> SUFFICES ASSUME FreshInv, [Next]_vars PROVE FreshInv'
  OBVIOUS
<1>t. TypeOK /\ TypeOK'
  BY TypeStep DEF FreshInv
<1> USE LoaderAssumption
<1>1. ASSUME NEW l \in Loads, LoadNext(l) PROVE FreshInv'
  <2>1. ASSUME NEW u \in UserIDs, LoadClosed(l, u) PROVE FreshInv'
    <3>1. /\ load[l].at = "idle" /\ load[l].call = None
          /\ load'[l].call = None /\ load'[l].at = "returned" /\ load'[l].id = u
          /\ load'[l].known = (u \in users) /\ load'[l].result = "closed"
          /\ \A k \in Loads \ {l} : load'[k] = load[k]
          /\ UNCHANGED <<pending, pc, batch, found, answer, users>>
      BY <2>1, <1>t DEF LoadClosed, FreshInv, CallInv, TypeOK
    <3>2. CallInv'
      BY <3>1, <1>t DEF FreshInv, CallInv, TypeOK, LoadRec
    <3>3. AnswerInv'
      BY <3>1, <1>t DEF FreshInv, AnswerInv, TypeOK
    <3> QED BY <1>t, <3>2, <3>3 DEF FreshInv
  <2>2. ASSUME NEW u \in UserIDs, LoadJoin(l, u) PROVE FreshInv'
    <3> DEFINE c == CallFor(l, u)
    <3>1. /\ c \in Loads /\ c # None
          /\ load[l].at = "idle" /\ load[l].call = None /\ answer[l] = "none"
          /\ load'[l].call = c /\ load'[l].at = "waiting" /\ load'[l].id = u
          /\ load'[l].known = (u \in users) /\ load'[l].result = "none"
          /\ \A k \in Loads \ {l} : load'[k] = load[k]
          /\ pending'[u] = c /\ \A v \in UserIDs \ {u} : pending'[v] = pending[v]
          /\ UNCHANGED <<batch, found, answer, users>>
          /\ \A f \in Flushes : pc'[f] = "queried" => pc[f] = "queried"
      BY <2>2, <1>t DEF LoadJoin, CallFor, FreshInv, CallInv, TypeOK
    <3>2. /\ \A f \in Flushes : l \notin batch[f]
          /\ \A k \in Loads : load[k].call # l
      BY <3>1, <1>t DEF FreshInv, CallInv, TypeOK
    <3>3. /\ load'[c].call = c /\ load'[c].id = u /\ answer[c] = "none"
          /\ \A f \in Flushes : c \notin batch[f]
      BY <3>1, <3>2, <1>t DEF CallFor, FreshInv, CallInv, TypeOK
    <3>4. CallInv'
      <4>1. \A k \in Loads :
              /\ load'[k].known => load'[k].id \in users'
              /\ load'[k].at = "idle" => load'[k].call = None /\ answer'[k] = "none"
              /\ load'[k].call # None =>
                   /\ load'[load'[k].call].call = load'[k].call
                   /\ load'[load'[k].call].id = load'[k].id
        <5> SUFFICES ASSUME NEW k \in Loads PROVE
              /\ load'[k].known => load'[k].id \in users'
              /\ load'[k].at = "idle" => load'[k].call = None /\ answer'[k] = "none"
              /\ load'[k].call # None =>
                   /\ load'[load'[k].call].call = load'[k].call
                   /\ load'[load'[k].call].id = load'[k].id
          OBVIOUS
        <5>1. CASE k = l
          BY <5>1, <3>1, <3>3
        <5>2. CASE k # l
          <6>1. load'[k] = load[k] /\ load[k].call \in Loads \cup {None} /\ load[k].call # l
            BY <5>2, <3>1, <3>2, <1>t DEF TypeOK, LoadRec
          <6> QED BY <6>1, <3>1 DEF FreshInv, CallInv
        <5> QED BY <5>1, <5>2
      <4>2. \A v \in UserIDs : pending'[v] # None =>
              /\ load'[pending'[v]].call = pending'[v]
              /\ load'[pending'[v]].id = v
              /\ answer'[pending'[v]] = "none"
              /\ \A f \in Flushes : pending'[v] \notin batch'[f]
        <5> SUFFICES ASSUME NEW v \in UserIDs, pending'[v] # None
                     PROVE  /\ load'[pending'[v]].call = pending'[v]
                            /\ load'[pending'[v]].id = v
                            /\ answer'[pending'[v]] = "none"
                            /\ \A f \in Flushes : pending'[v] \notin batch'[f]
          OBVIOUS
        <5>1. CASE v = u
          BY <5>1, <3>1, <3>3
        <5>2. CASE v # u
          <6>1. pending'[v] = pending[v] /\ pending[v] \in Loads /\ pending[v] # l
            BY <5>2, <3>1, <1>t DEF TypeOK, FreshInv, CallInv
          <6> QED BY <6>1, <3>1 DEF FreshInv, CallInv
        <5> QED BY <5>1, <5>2
      <4>3. \A f \in Flushes : \A d \in batch'[f] : load'[d].call = d
        BY <3>1, <3>2, <1>t DEF FreshInv, CallInv, TypeOK
      <4> QED BY <4>1, <4>2, <4>3 DEF CallInv
    <3>5. AnswerInv'
      <4>1. \A f \in Flushes, k \in Loads :
              pc'[f] = "queried" /\ load'[k].call \in batch'[f] /\ load'[k].known =>
                found'[f] = Failed \/ load'[k].id \in found'[f]
        BY <3>1, <3>3 DEF FreshInv, AnswerInv
      <4>2. \A k \in Loads : load'[k].known =>
              /\ load'[k].result # "notFound"
              /\ load'[k].call # None => answer'[load'[k].call] # "notFound"
        BY <3>1, <3>3 DEF FreshInv, AnswerInv
      <4> QED BY <4>1, <4>2 DEF AnswerInv
    <3> QED BY <1>t, <3>4, <3>5 DEF FreshInv
  <2>3. CASE LoadReturn(l) \/ LoadCancelled(l)
    <3>1. PICK r \in {"none", "user", "notFound", "failed", "closed", "cancelled"} :
            /\ load' = [load EXCEPT ![l] = Returned(l, r)]
            /\ r = "notFound" => answer[load[l].call] = "notFound" /\ load[l].call # None
      BY <2>3, <1>t DEF LoadReturn, LoadCancelled, TypeOK
    <3>2. load[l] \in LoadRec
      BY <1>t DEF TypeOK
    <3>3. /\ load'[l].call = load[l].call /\ load'[l].id = load[l].id
          /\ load'[l].known = load[l].known /\ load'[l].at = "returned"
          /\ load'[l].result = r
      BY <3>1, <3>2, <1>t, ReturnedType DEF TypeOK
    <3>4. /\ \A k \in Loads \ {l} : load'[k] = load[k]
          /\ UNCHANGED <<pending, pc, batch, found, answer, users>>
      BY <2>3, <3>1, <1>t DEF LoadReturn, LoadCancelled, TypeOK
    <3>5. \A k \in Loads : /\ load'[k].call = load[k].call /\ load'[k].id = load[k].id
                           /\ load'[k].known = load[k].known
                           /\ load'[k].at = "idle" => load[k].at = "idle"
      BY <3>3, <3>4
    <3>6. CallInv'
      <4>1. \A k \in Loads : load[k].call \in Loads \cup {None}
        BY <1>t DEF TypeOK, LoadRec
      <4>2. \A u \in UserIDs : pending[u] \in Loads \cup {None}
        BY <1>t DEF TypeOK
      <4>3. \A f \in Flushes : batch[f] \subseteq Loads
        BY <1>t DEF TypeOK
      <4> QED BY <3>4, <3>5, <4>1, <4>2, <4>3 DEF FreshInv, CallInv
    <3>7. AnswerInv'
      BY <3>1, <3>3, <3>4, <3>5 DEF FreshInv, AnswerInv
    <3> QED BY <1>t, <3>6, <3>7 DEF FreshInv
  <2> QED BY <1>1, <2>1, <2>2, <2>3 DEF LoadNext
<1>2. ASSUME NEW t \in Timers, TimerFires(t) PROVE FreshInv'
  BY <1>2, <1>t, FreshStutter DEF TimerFires, TypeOK
<1>3. ASSUME NEW f \in Flushes, FlushNext(f) PROVE FreshInv'
  <2>1. CASE FlushNothing(f)
    BY <2>1, <1>t, FreshStutter DEF FlushNothing, TypeOK
  <2>2. CASE FlushTake(f)
    <3>1. /\ batch'[f] = {pending[u] : u \in UserIDs} \ {None}
          /\ \A g \in Flushes \ {f} : batch'[g] = batch[g]
          /\ \A u \in UserIDs : pending'[u] = None
          /\ \A g \in Flushes : pc'[g] = "queried" => pc[g] = "queried" /\ g # f
          /\ UNCHANGED <<found, answer, load, users>>
      BY <2>2, <1>t DEF FlushTake, TypeOK
    <3>2. CallInv'
      BY <3>1 DEF FreshInv, CallInv
    <3>3. AnswerInv'
      BY <3>1 DEF FreshInv, AnswerInv
    <3> QED BY <1>t, <3>2, <3>3 DEF FreshInv
  <2>3. CASE FlushQuery(f)
    <3>1. /\ found'[f] = users \/ found'[f] = Failed
          /\ \A g \in Flushes \ {f} : found'[g] = found[g] /\ pc'[g] = pc[g]
          /\ UNCHANGED <<pending, batch, answer, load, users>>
      BY <2>3, <1>t DEF FlushQuery, TypeOK
    <3>2. CallInv'
      BY <3>1 DEF FreshInv, CallInv
    <3>3. AnswerInv'
      BY <3>1 DEF FreshInv, AnswerInv, CallInv, Failed
    <3> QED BY <1>t, <3>2, <3>3 DEF FreshInv
  <2>4. CASE FlushAnswer(f)
    <3>1. /\ pc[f] = "queried"
          /\ \A g \in Flushes : pc'[g] = "queried" => pc[g] = "queried"
          /\ UNCHANGED <<pending, batch, found, load, users>>
          /\ \A c \in Loads : answer'[c] = IF c \notin batch[f] THEN answer[c]
                                         ELSE IF found[f] = Failed THEN "failed"
                                         ELSE IF load[c].id \in found[f] THEN "user"
                                         ELSE "notFound"
      BY <2>4, <1>t DEF FlushAnswer, TypeOK
    <3>2. CallInv'
      <4>1. \A l \in Loads : l \in batch[f] => load[l].at # "idle"
        BY <1>t DEF FreshInv, CallInv, TypeOK
      <4>2. \A u \in UserIDs : pending[u] \in Loads \cup {None}
        BY <1>t DEF TypeOK
      <4> QED BY <3>1, <4>1, <4>2 DEF FreshInv, CallInv
    <3>3. AnswerInv'
      <4>1. \A l \in Loads : load[l].call \in Loads \cup {None}
        BY <1>t DEF TypeOK, LoadRec
      <4> QED BY <3>1, <4>1 DEF FreshInv, AnswerInv, CallInv
    <3> QED BY <1>t, <3>2, <3>3 DEF FreshInv
  <2>5. CASE FlushFinish(f)
    BY <2>5, <1>t, FreshStutter DEF FlushFinish, TypeOK
  <2> QED BY <1>3, <2>1, <2>2, <2>3, <2>4, <2>5 DEF FlushNext
<1>4. CASE ShutdownClose
  BY <1>4, <1>t, FreshStutter DEF ShutdownClose, TypeOK
<1>5. CASE ShutdownAwait
  BY <1>5, <1>t, FreshStutter DEF ShutdownAwait, TypeOK
<1>6. ASSUME NEW u \in UserIDs, UserCreated(u) PROVE FreshInv'
  BY <1>6, <1>t, FreshStutter DEF UserCreated
<1>7. CASE UNCHANGED vars
  BY <1>7, <1>t, FreshStutter DEF vars
<1> QED BY <1>1, <1>2, <1>3, <1>4, <1>5, <1>6, <1>7 DEF Next

\* However many Loads share a call, a user that the store held when it was asked
\* for is never answered "not found", and no Load is answered another's user.
THEOREM NoFalseNotFound == SafetySpec => []KnownUserFound
<1>1. FreshInv => KnownUserFound
  BY DEF FreshInv, CallInv, AnswerInv, KnownUserFound
<1> QED BY <1>1, FreshInit, FreshStep, PTL DEF SafetySpec

-----------------------------------------------------------------------------
(* Every call is completed by one flush, once. *)

\* The flush has taken its batch and has not completed it.
Answering(f) == pc[f] \in {"flying", "queried"}

Served(c, u) == \/ answer[c] # "none"
                \/ pending[u] = c
                \/ \E f \in Flushes : Answering(f) /\ c \in batch[f]

OnceInv == \A f \in Flushes : Answering(f) => \A c \in batch[f] : answer[c] = "none"

WaiterInv ==
  \A l \in Loads : load[l].at = "waiting" => /\ load[l].id \in UserIDs
                                             /\ Served(load[l].call, load[l].id)

ServiceInv == FlightInv /\ FreshInv /\ OnceInv /\ WaiterInv

\* What a step does to a call that is answered and to a Load that has returned.
AnswersKept == /\ \A c \in Loads : answer[c] # "none" => answer'[c] = answer[c]
               /\ \A l \in Loads : load[l].at = "returned" => load'[l] = load[l]

LEMMA ServiceInit == Init => ServiceInv
<1> SUFFICES ASSUME Init PROVE ServiceInv
  OBVIOUS
<1>1. OnceInv /\ WaiterInv
  BY DEF Init, OnceInv, WaiterInv, Answering
<1> QED BY <1>1, FlightInit, FreshInit DEF ServiceInv

\* The steps that leave calls, batches and the flushes that answer alone.
LEMMA ServiceStutter ==
  ASSUME ServiceInv, FlightInv', FreshInv', UNCHANGED <<pending, batch, answer>>,
         \A f \in Flushes : Answering(f)' <=> Answering(f),
         \A l \in Loads : load'[l] = load[l] \/ load'[l].at # "waiting",
         \A l \in Loads : load[l].at = "returned" => load'[l] = load[l]
  PROVE  ServiceInv' /\ AnswersKept
<1>1. OnceInv'
  BY DEF ServiceInv, OnceInv
<1>2. WaiterInv'
  <2> SUFFICES ASSUME NEW l \in Loads, load'[l].at = "waiting"
               PROVE  (load[l].id \in UserIDs /\ Served(load[l].call, load[l].id))'
    BY DEF WaiterInv
  <2>1. load'[l] = load[l] /\ load[l].id \in UserIDs /\ Served(load[l].call, load[l].id)
    BY DEF ServiceInv, WaiterInv
  <2> QED BY <2>1 DEF Served
<1>3. AnswersKept
  BY DEF AnswersKept
<1> QED BY <1>1, <1>2, <1>3 DEF ServiceInv

LEMMA ServiceStep == ServiceInv /\ [Next]_vars => ServiceInv' /\ AnswersKept
<1> SUFFICES ASSUME ServiceInv, [Next]_vars PROVE ServiceInv' /\ AnswersKept
  OBVIOUS
<1>i. FlightInv /\ FreshInv /\ FlightInv' /\ FreshInv'
  BY FlightStep, FreshStep DEF ServiceInv
<1>t. TypeOK /\ TypeOK'
  BY <1>i DEF FlightInv
<1> USE LoaderAssumption
<1>1. ASSUME NEW l \in Loads, LoadNext(l) PROVE ServiceInv' /\ AnswersKept
  <2>1. ASSUME NEW u \in UserIDs, LoadJoin(l, u) PROVE ServiceInv' /\ AnswersKept
    <3> DEFINE c == CallFor(l, u)
    <3>1. /\ c \in Loads /\ load[l].at = "idle"
          /\ load'[l].call = c /\ load'[l].id = u
          /\ \A k \in Loads \ {l} : load'[k] = load[k]
          /\ pending'[u] = c /\ \A v \in UserIDs \ {u} : pending'[v] = pending[v]
          /\ pending[u] # None => c = pending[u]
          /\ UNCHANGED <<batch, answer>>
      BY <2>1, <1>t DEF LoadJoin, CallFor, TypeOK
    <3>2. \A f \in Flushes : Answering(f)' <=> Answering(f)
      BY <2>1, <1>t DEF LoadJoin, NewTimer, Answering, TypeOK
    <3>3. OnceInv'
      BY <3>1, <3>2 DEF ServiceInv, OnceInv
    <3>4. ASSUME NEW k \in Loads, load'[k].at = "waiting"
          PROVE  (load[k].id \in UserIDs /\ Served(load[k].call, load[k].id))'
      <4>1. CASE k = l
        BY <4>1, <3>1 DEF Served
      <4>2. CASE k # l
        <5>1. /\ load'[k] = load[k] /\ load[k].call \in Loads
          BY <4>2, <3>1, <3>4, <1>t DEF TypeOK
        <5>2. load[k].id \in UserIDs /\ Served(load[k].call, load[k].id)
          BY <5>1, <3>4 DEF ServiceInv, WaiterInv
        <5>3. pending[load[k].id] = load[k].call /\ load[k].id = u
                => pending'[load[k].id] = load[k].call
          BY <5>1, <3>1
        <5> QED BY <5>1, <5>2, <5>3, <3>1, <3>2 DEF Served
      <4> QED BY <4>1, <4>2
    <3>5. WaiterInv'
      BY <3>4 DEF WaiterInv
    <3>6. AnswersKept
      BY <3>1 DEF AnswersKept
    <3> QED BY <1>i, <3>3, <3>5, <3>6 DEF ServiceInv
  <2>2. CASE ~\E u \in UserIDs : LoadJoin(l, u)
    <3>0. \E r \in LoadRec : /\ r.at = "returned" /\ load[l].at # "returned"
                            /\ load' = [load EXCEPT ![l] = r]
                            /\ UNCHANGED <<pending, batch, answer, pc>>
      <4>1. CASE \E u \in UserIDs : LoadClosed(l, u)
        <5>1. PICK u \in UserIDs : LoadClosed(l, u)
          BY <4>1
        <5> DEFINE r == [at |-> "returned", id |-> u, call |-> None, known |-> u \in users,
                         result |-> "closed"]
        <5>2. r \in LoadRec /\ r.at = "returned"
          BY DEF LoadRec
        <5>3. load' = [load EXCEPT ![l] = r]
          BY <5>1 DEF LoadClosed
        <5>4. load[l].at # "returned" /\ UNCHANGED <<pending, batch, answer, pc>>
          BY <5>1 DEF LoadClosed
        <5> HIDE DEF r
        <5> QED BY <5>2, <5>3, <5>4
      <4>2. CASE LoadReturn(l) \/ LoadCancelled(l)
        <5>1. PICK r \in {"none", "user", "notFound", "failed", "closed", "cancelled"} :
                load' = [load EXCEPT ![l] = Returned(l, r)]
          BY <4>2, <1>t DEF LoadReturn, LoadCancelled, TypeOK
        <5>2. load[l] \in LoadRec
          BY <1>t DEF TypeOK
        <5>3. Returned(l, r) \in LoadRec /\ Returned(l, r).at = "returned"
          BY <5>2, ReturnedType
        <5>4. load[l].at # "returned" /\ UNCHANGED <<pending, batch, answer, pc>>
          BY <4>2 DEF LoadReturn, LoadCancelled
        <5> QED BY <5>1, <5>3, <5>4
      <4> QED BY <1>1, <2>2, <4>1, <4>2 DEF LoadNext
    <3>1. /\ \A k \in Loads : load'[k] = load[k] \/ load'[k].at # "waiting"
          /\ \A k \in Loads : load[k].at = "returned" => load'[k] = load[k]
          /\ UNCHANGED <<pending, batch, answer, pc>>
      BY <3>0, <1>t DEF TypeOK
    <3>2. \A f \in Flushes : Answering(f)' <=> Answering(f)
      BY <3>1 DEF Answering
    <3> QED BY <3>1, <3>2, <1>i, ServiceStutter
  <2> QED BY <2>1, <2>2
<1>2. ASSUME NEW t \in Timers, TimerFires(t) PROVE ServiceInv' /\ AnswersKept
  <2>1. \A f \in Flushes : Answering(f)' <=> Answering(f)
    BY <1>2, <1>t DEF TimerFires, Answering, TypeOK
  <2> QED BY <1>2, <2>1, <1>i, ServiceStutter DEF TimerFires
<1>3. ASSUME NEW f \in Flushes, FlushNext(f) PROVE ServiceInv' /\ AnswersKept
  <2>1. CASE FlushNothing(f) \/ FlushFinish(f)
    <3>1. \A g \in Flushes : Answering(g)' <=> Answering(g)
      BY <2>1, <1>t DEF FlushNothing, FlushFinish, NewTimer, Answering, TypeOK
    <3> QED BY <2>1, <3>1, <1>i, ServiceStutter DEF FlushNothing, FlushFinish
  <2>2. CASE FlushTake(f)
    <3>1. /\ batch'[f] = {pending[u] : u \in UserIDs} \ {None}
          /\ \A g \in Flushes \ {f} : batch'[g] = batch[g] /\ pc'[g] = pc[g]
          /\ pc'[f] = "flying" /\ pc[f] = "start"
          /\ UNCHANGED <<answer, load>>
      BY <2>2, <1>t DEF FlushTake, TypeOK
    <3>2. /\ Answering(f)' /\ ~Answering(f)
          /\ \A g \in Flushes \ {f} : Answering(g)' <=> Answering(g)
      BY <3>1 DEF Answering
    <3>3. \A u \in UserIDs : pending[u] # None => answer[pending[u]] = "none"
      BY <1>i DEF FreshInv, CallInv
    <3>4. OnceInv'
      BY <3>1, <3>2, <3>3 DEF ServiceInv, OnceInv
    <3>5. ASSUME NEW l \in Loads, load'[l].at = "waiting"
          PROVE  (load[l].id \in UserIDs /\ Served(load[l].call, load[l].id))'
      <4>1. load'[l] = load[l] /\ Served(load[l].call, load[l].id) /\ load[l].call \in Loads
        BY <3>1, <3>5, <1>t DEF ServiceInv, WaiterInv, TypeOK
      <4>3. load[l].id \in UserIDs
        BY <4>1, <3>5 DEF ServiceInv, WaiterInv
      <4>4. CASE pending[load[l].id] = load[l].call
        <5>1. load[l].call \in batch'[f]
          BY <4>1, <4>3, <4>4, <3>1
        <5> QED BY <5>1, <4>1, <4>3, <3>2 DEF Served
      <4>5. CASE pending[load[l].id] # load[l].call
        BY <4>1, <4>3, <4>5, <3>1, <3>2 DEF Served
      <4> QED BY <4>4, <4>5
    <3>6. WaiterInv'
      BY <3>5 DEF WaiterInv
    <3>7. AnswersKept
      BY <3>1 DEF AnswersKept
    <3> QED BY <1>i, <3>4, <3>6, <3>7 DEF ServiceInv
  <2>3. CASE FlushQuery(f)
    <3>1. \A g \in Flushes : Answering(g)' <=> Answering(g)
      BY <2>3, <1>t DEF FlushQuery, Answering, TypeOK
    <3> QED BY <2>3, <3>1, <1>i, ServiceStutter DEF FlushQuery
  <2>4. CASE FlushAnswer(f)
    <3>1. /\ Answering(f) /\ pc'[f] = "answered" /\ Flying(f)
          /\ \A g \in Flushes \ {f} : pc'[g] = pc[g]
          /\ UNCHANGED <<pending, batch, load>>
          /\ \A c \in Loads : c \notin batch[f] => answer'[c] = answer[c]
          /\ \A c \in Loads : c \in batch[f] => answer'[c] # "none"
      BY <2>4, <1>t DEF FlushAnswer, Answering, Flying, TypeOK
    <3>2. \A g \in Flushes \ {f} : ~Answering(g)
      BY <3>1, <1>i DEF FlightInv, SingleFlight, Answering, Flying
    <3>3. \A g \in Flushes : ~Answering(g)'
      BY <3>1, <3>2 DEF Answering
    <3>4. OnceInv'
      BY <3>3 DEF OnceInv
    <3>5. ASSUME NEW l \in Loads, load'[l].at = "waiting"
          PROVE  (load[l].id \in UserIDs /\ Served(load[l].call, load[l].id))'
      <4>1. load'[l] = load[l] /\ Served(load[l].call, load[l].id) /\ load[l].call \in Loads
        BY <3>1, <3>5, <1>t DEF ServiceInv, WaiterInv, TypeOK
      <4>2. load[l].id \in UserIDs
        BY <4>1, <3>5 DEF ServiceInv, WaiterInv
      <4> QED BY <4>1, <4>2, <3>1, <3>2 DEF Served
    <3>6. WaiterInv'
      BY <3>5 DEF WaiterInv
    <3>7. \A c \in batch[f] : answer[c] = "none"
      BY <3>1 DEF ServiceInv, OnceInv
    <3>8. AnswersKept
      BY <3>1, <3>7 DEF AnswersKept
    <3> QED BY <1>i, <3>4, <3>6, <3>8 DEF ServiceInv
  <2> QED BY <1>3, <2>1, <2>2, <2>3, <2>4 DEF FlushNext
<1>4. CASE ShutdownClose
  <2>1. \A f \in Flushes : Answering(f)' <=> Answering(f)
    BY <1>4, <1>t DEF ShutdownClose, Answering, TypeOK
  <2> QED BY <1>4, <2>1, <1>i, ServiceStutter DEF ShutdownClose
<1>5. CASE ShutdownAwait
  <2>1. \A f \in Flushes : Answering(f)' <=> Answering(f)
    BY <1>5, <1>t DEF ShutdownAwait, Answering, TypeOK
  <2> QED BY <1>5, <2>1, <1>i, ServiceStutter DEF ShutdownAwait
<1>6. CASE (\E u \in UserIDs : UserCreated(u)) \/ UNCHANGED vars
  <2>1. UNCHANGED <<pending, batch, answer, load, pc>>
    BY <1>6 DEF UserCreated, vars
  <2>2. \A f \in Flushes : Answering(f)' <=> Answering(f)
    BY <2>1 DEF Answering
  <2> QED BY <2>1, <2>2, <1>i, ServiceStutter
<1> QED BY <1>1, <1>2, <1>3, <1>4, <1>5, <1>6 DEF Next

LEMMA ServiceInvariant == SafetySpec => []ServiceInv
  BY ServiceInit, ServiceStep, PTL DEF SafetySpec

\* The done channel of a call is closed by one flush and by no other, of a timer
\* or of Shutdown: when the loop that closes them runs, all are open.  A second
\* close would panic (loaders.go:86-97).
CallsClosedOnce ==
  \A f \in Flushes : pc[f] = "queried" => \A c \in batch[f] : answer[c] = "none"

THEOREM NoCallClosedTwice == SafetySpec => []CallsClosedOnce
<1>1. ServiceInv => CallsClosedOnce
  BY DEF ServiceInv, OnceInv, Answering, CallsClosedOnce
<1> QED BY <1>1, ServiceInvariant, PTL

\* What a call was completed with, and what a Load returned, stays: the second of
\* two Loads that share a call reads the answer that the first read.
THEOREM AnswersAreFinal == SafetySpec => [][AnswersKept]_vars
<1>1. ServiceInv /\ [Next]_vars => [AnswersKept]_vars
  BY ServiceStep
<1> QED BY <1>1, ServiceInvariant, PTL DEF SafetySpec

\* A Load that waits has a call that is answered, that a flush under way is about
\* to answer, or that is pending for a flush that will come.
WaitersServed ==
  \A l \in Loads : load[l].at = "waiting" /\ answer[load[l].call] = "none" =>
    \/ \E f \in Flushes : Answering(f) /\ load[l].call \in batch[f]
    \/ /\ pending[load[l].id] = load[l].call
       /\ \/ timer # None /\ pc[timer] \in {"armed", "start"}
          \/ inFlight /\ ~closed
          \/ pc[closer] \in {"awaiting", "start"}

\* However Loads, timers, flights and Shutdown interleave, a Load that waits is
\* never forgotten.
THEOREM NoLoadForgotten == SafetySpec => []WaitersServed
<1>1. ServiceInv => WaitersServed
  <2> SUFFICES ASSUME ServiceInv, NEW l \in Loads, load[l].at = "waiting",
                      answer[load[l].call] = "none",
                      ~\E f \in Flushes : Answering(f) /\ load[l].call \in batch[f]
               PROVE  /\ pending[load[l].id] = load[l].call
                      /\ \/ timer # None /\ pc[timer] \in {"armed", "start"}
                         \/ inFlight /\ ~closed
                         \/ pc[closer] \in {"awaiting", "start"}
    BY DEF WaitersServed
  <2>1. pending[load[l].id] = load[l].call
    BY DEF ServiceInv, WaiterInv, Served
  <2>2. load[l].call \in Loads /\ load[l].call # None /\ load[l].id \in UserIDs
    BY LoaderAssumption DEF ServiceInv, WaiterInv, FlightInv, TypeOK
  <2> QED BY <2>1, <2>2 DEF ServiceInv, FlightInv, NoOrphan, NothingPending
<1> QED BY <1>1, ServiceInvariant, PTL

\* Shutdown waits for the flight of a timer, never for its own, and that flight is
\* under way or over: somebody closes the channel it waits on (loaders.go:116-121).
FlightAwaited ==
  pc[closer] = "awaiting" /\ awaited # None =>
    awaited \in Timers /\ (Flying(awaited) \/ pc[awaited] = "done")

LEMMA AwaitedFlies ==
  ASSUME FlightInv, FlightAwaited, Next
  PROVE  FlightAwaited'
<1>t. TypeOK /\ closer \notin Timers /\ closer \in Flushes /\ Timers \subseteq Flushes
  BY LoaderAssumption DEF FlightInv, Flushes
<1>1. CASE ShutdownClose
  <2>1. awaited' = flightDone /\ pc[closer] = "new"
    BY <1>1 DEF ShutdownClose
  <2>2. ASSUME flightDone # None PROVE flightDone \in Timers /\ Flying(flightDone)
    BY <2>1, <2>2, <1>t DEF FlightInv, SingleFlight, Flying, TypeOK, Flushes
  <2>3. \A t \in Timers : Flying(t) => pc'[t] = pc[t]
    BY <1>1, <1>t DEF ShutdownClose, Flying
  <2> QED BY <2>1, <2>2, <2>3 DEF FlightAwaited, Flying
<1>2. ASSUME /\ pc'[closer] = "awaiting" => pc[closer] = "awaiting"
             /\ awaited' = awaited
             /\ \A t \in Timers : /\ Flying(t) => Flying(t)' \/ pc'[t] = "done"
                                  /\ pc[t] = "done" => pc'[t] = "done"
      PROVE  FlightAwaited'
  BY <1>2 DEF FlightAwaited
<1>3. ASSUME NEW l \in Loads, LoadNext(l) PROVE FlightAwaited'
  <2>1. /\ awaited' = awaited /\ pc'[closer] = pc[closer]
        /\ \A t \in Timers : pc'[t] = pc[t] \/ pc[t] = "new"
    BY <1>3, <1>t DEF LoadNext, LoadClosed, LoadJoin, LoadReturn, LoadCancelled, NewTimer, TypeOK
  <2> QED BY <1>2, <2>1 DEF Flying
<1>4. ASSUME NEW t \in Timers, TimerFires(t) PROVE FlightAwaited'
  <2>1. /\ awaited' = awaited /\ pc'[closer] = pc[closer]
        /\ \A s \in Timers : pc'[s] = pc[s] \/ pc[s] = "armed"
    BY <1>4, <1>t DEF TimerFires, TypeOK
  <2> QED BY <1>2, <2>1 DEF Flying
<1>5. ASSUME NEW f \in Flushes, FlushNext(f) PROVE FlightAwaited'
  <2>1. /\ awaited' = awaited
        /\ pc'[f] \in {"done", "flying", "queried", "answered"}
        /\ pc[f] \in {"start", "flying", "queried", "answered"}
        /\ \A g \in Flushes \ {f} : pc'[g] = pc[g] \/ (pc[g] = "new" /\ g \in Timers)
    BY <1>5, <1>t
       DEF FlushNext, FlushNothing, FlushTake, FlushQuery, FlushAnswer, FlushFinish,
           NewTimer, TypeOK
  <2> QED BY <1>2, <2>1, <1>t DEF Flying
<1>6. CASE ShutdownAwait
  <2>1. pc'[closer] = "start"
    BY <1>6, <1>t DEF ShutdownAwait, TypeOK
  <2> QED BY <2>1 DEF FlightAwaited
<1>7. ASSUME NEW u \in UserIDs, UserCreated(u) PROVE FlightAwaited'
  BY <1>2, <1>7 DEF UserCreated, Flying
<1> QED BY <1>1, <1>3, <1>4, <1>5, <1>6, <1>7 DEF Next

THEOREM ShutdownAwaitsAFlight == SafetySpec => []FlightAwaited
<1>1. Init => FlightAwaited
  BY DEF Init, FlightAwaited
<1>2. FlightInv /\ FlightAwaited /\ [Next]_vars => FlightAwaited'
  BY AwaitedFlies DEF vars, FlightAwaited, Flying
<1> QED BY <1>1, <1>2, FlightInvariant, PTL DEF SafetySpec

-----------------------------------------------------------------------------
(* The process around the loader. *)

\* The shutdown manager has come as far as the state of its services says: the
\* loader is closed after the http server is stopped, and has returned before
\* the store is; within the deadline no request is in hand by then.
ManagerInv ==
  /\ stopped \in 0..3
  /\ handler \in [Loads -> {"none", "open", "answered"}]
  /\ pc[closer] # "new" => stopped >= 1
  /\ stopped >= 2 => pc[closer] = "done"
  /\ stopped >= 1 => signalled
  /\ stopped >= 1 /\ ~deadline => \A l \in Requests : handler[l] # "open"
  /\ ~deadline => \A l \in Requests : load[l].result # "closed"

LifeInv == FlightInv /\ ManagerInv

-----------------------------------------------------------------------------
\* Every step of the process is a step of the loader or leaves it alone.
LEMMA LifeStepOfLoader == [LifeNext]_allVars => [Next]_vars
<1> SUFFICES ASSUME [LifeNext]_allVars PROVE [Next]_vars
  OBVIOUS
<1>1. ASSUME NEW l \in Loads, Accept(l) \/ Resolve(l) \/ Respond(l) PROVE [Next]_vars
  BY <1>1 DEF Accept, Resolve, Respond, Next
<1>2. CASE Background
  BY <1>2 DEF Background, Next
<1>3. CASE ManagerNext
  BY <1>3 DEF ManagerNext, Signal, DeadlinePasses, HTTPStopped, ResolverShutdown,
              ResolverStopped, StoreStopped, Stopped, Next
<1> QED BY <1>1, <1>2, <1>3 DEF LifeNext, allVars

\* The process runs the loader as UserLoader has it, so that whatever is proved
\* of the loader alone holds in the process: requests reach it over http and
\* websockets, and the manager shuts it down.
THEOREM ProcessRunsLoader == LifeSafetySpec => SafetySpec
<1>1. LifeInit => Init
  BY DEF LifeInit
<1> QED BY <1>1, LifeStepOfLoader, PTL DEF LifeSafetySpec, SafetySpec

-----------------------------------------------------------------------------
\* The order in which the manager stops the services.
LEMMA OrderFacts ==
  ASSUME stopped \in 0..3
  PROVE  /\ Stopping("http") => stopped = 0 /\ signalled
         /\ Stopping("graphql") => stopped = 1 /\ signalled
         /\ Stopping("store") => stopped = 2 /\ signalled
         /\ IsStopped("http") <=> stopped >= 1
         /\ IsStopped("store") <=> stopped = 3
<1>1. Order[1] = "http" /\ Order[2] = "graphql" /\ Order[3] = "store"
  BY DEF Order, Services
<1>2. \A s : Stopping(s) => /\ signalled
                            /\ stopped \in 0..2
                            /\ Order[stopped + 1] = s
  BY DEF Stopping
<1>3. /\ Stopping("http") => stopped = 0 /\ signalled
      /\ Stopping("graphql") => stopped = 1 /\ signalled
      /\ Stopping("store") => stopped = 2 /\ signalled
  BY <1>1, <1>2
<1>4. /\ IsStopped("http") <=> stopped >= 1
      /\ IsStopped("store") <=> stopped = 3
  BY <1>1 DEF IsStopped
<1> QED BY <1>3, <1>4

\* What the loader gives a Load that waits is never "closed".
LEMMA ResultsOfSteps ==
  ASSUME TypeOK, NEW l \in Loads, LoadNext(l)
  PROVE  /\ \A k \in Loads : k # l => load'[k] = load[k]
         /\ load'[l].result = "closed" => closed
         /\ pc'[closer] = pc[closer]
<1> USE DEF TypeOK
<1>1. ASSUME NEW u \in UserIDs, LoadClosed(l, u)
      PROVE  closed /\ pc' = pc /\ \A k \in Loads : k # l => load'[k] = load[k]
  BY <1>1 DEF LoadClosed
<1>2. ASSUME NEW u \in UserIDs, LoadJoin(l, u)
      PROVE  /\ load'[l].result = "none" /\ pc'[closer] = pc[closer]
             /\ \A k \in Loads : k # l => load'[k] = load[k]
  BY <1>2, LoaderAssumption DEF LoadJoin, NewTimer, Flushes
<1>3. CASE LoadReturn(l)
  <2>1. load[l].call \in Loads
    BY <1>3 DEF LoadReturn
  <2>2. answer[load[l].call] # "closed"
    BY <2>1
  <2>3. load' = [load EXCEPT ![l] = Returned(l, answer[load[l].call])] /\ pc' = pc
    BY <1>3 DEF LoadReturn
  <2>4. Returned(l, answer[load[l].call]).result = answer[load[l].call]
    BY DEF Returned, LoadRec
  <2> QED BY <2>2, <2>3, <2>4
<1>4. CASE LoadCancelled(l)
  <2>1. load' = [load EXCEPT ![l] = Returned(l, "cancelled")] /\ pc' = pc
    BY <1>4 DEF LoadCancelled
  <2>2. Returned(l, "cancelled").result = "cancelled"
    BY DEF Returned, LoadRec
  <2> QED BY <2>1, <2>2
<1> QED BY <1>1, <1>2, <1>3, <1>4 DEF LoadNext

\* What goes on beside the requests touches no Load, and moves Shutdown only
\* through its own flush.
LEMMA BackgroundFacts ==
  ASSUME TypeOK, Background
  PROVE  /\ load' = load
         /\ \/ pc'[closer] = pc[closer]
            \/ pc[closer] \notin {"new", "done"} /\ pc'[closer] # "new"
<1> USE LoaderAssumption DEF TypeOK, Flushes
<1>1. ASSUME NEW t \in Timers, TimerFires(t)
      PROVE  load' = load /\ pc'[closer] = pc[closer]
  BY <1>1 DEF TimerFires
<1>2. ASSUME NEW f \in Flushes, FlushNext(f)
      PROVE  /\ load' = load
             /\ \/ pc'[closer] = pc[closer]
                \/ pc[closer] \notin {"new", "done"} /\ pc'[closer] # "new"
  <2>1. CASE FlushNothing(f)
    BY <2>1 DEF FlushNothing
  <2>2. CASE FlushTake(f)
    BY <2>2 DEF FlushTake
  <2>3. CASE FlushQuery(f)
    BY <2>3 DEF FlushQuery
  <2>4. CASE FlushAnswer(f)
    BY <2>4 DEF FlushAnswer
  <2>5. CASE FlushFinish(f)
    BY <2>5 DEF FlushFinish
  <2> QED BY <1>2, <2>1, <2>2, <2>3, <2>4, <2>5 DEF FlushNext
<1>3. ASSUME NEW u \in UserIDs, UserCreated(u)
      PROVE  load' = load /\ pc'[closer] = pc[closer]
  BY <1>3 DEF UserCreated
<1> QED BY <1>1, <1>2, <1>3 DEF Background

-----------------------------------------------------------------------------
\* The initial state satisfies the invariant.
LEMMA LifeInvInit == LifeInit => LifeInv
<1> SUFFICES ASSUME LifeInit PROVE LifeInv
  OBVIOUS
<1>1. FlightInv
  BY FlightInit DEF LifeInit
<1>2. ManagerInv
  BY DEF LifeInit, Init, ManagerInv, Flushes, Requests
<1> QED BY <1>1, <1>2 DEF LifeInv

\* Every step preserves the invariant.
LEMMA LifeInvStep == LifeInv /\ [LifeNext]_allVars => LifeInv'
<1> SUFFICES ASSUME LifeInv, [LifeNext]_allVars PROVE LifeInv'
  OBVIOUS
<1>inv. FlightInv /\ TypeOK /\ ManagerInv /\ FlightInv' /\ TypeOK'
  BY LifeStepOfLoader, FlightStep DEF LifeInv, FlightInv
<1>closed. closed <=> pc[closer] # "new"
  BY <1>inv DEF FlightInv, CloserInv
<1>order. /\ Stopping("http") => stopped = 0 /\ signalled
          /\ Stopping("graphql") => stopped = 1 /\ signalled
          /\ Stopping("store") => stopped = 2 /\ signalled
          /\ IsStopped("http") <=> stopped >= 1
  BY <1>inv, OrderFacts DEF ManagerInv
<1>1. ASSUME NEW l \in Loads, Accept(l) PROVE ManagerInv'
  <2>1. handler' \in [Loads -> {"none", "open", "answered"}]
    BY <1>1, <1>inv DEF Accept, ManagerInv
  <2>2. stopped >= 1 => \A k \in Requests : handler'[k] = handler[k]
    BY <1>1, <1>inv, <1>order DEF Accept, Listening, ManagerInv, Requests
  <2>3. UNCHANGED <<signalled, deadline, stopped, load, pc>>
    BY <1>1 DEF Accept, vars
  <2> QED BY <1>inv, <2>1, <2>2, <2>3 DEF ManagerInv
<1>2. ASSUME NEW l \in Loads, Resolve(l) PROVE ManagerInv'
  <2>1. /\ handler[l] = "open" /\ LoadNext(l)
        /\ UNCHANGED <<handler, signalled, deadline, stopped>>
    BY <1>2 DEF Resolve, lifeVars
  <2>2. /\ \A k \in Loads : k # l => load'[k] = load[k]
        /\ load'[l].result = "closed" => closed
        /\ pc'[closer] = pc[closer]
    BY <2>1, <1>inv, ResultsOfSteps
  <2>3. ~deadline => \A k \in Requests : load'[k].result # "closed"
    BY <2>1, <2>2, <1>inv, <1>closed DEF ManagerInv, Requests
  <2> QED BY <1>inv, <2>1, <2>2, <2>3 DEF ManagerInv
<1>3. ASSUME NEW l \in Loads, Respond(l) PROVE ManagerInv'
  <2>1. handler' = [handler EXCEPT ![l] = "answered"]
    BY <1>3 DEF Respond
  <2>2. UNCHANGED <<signalled, deadline, stopped, load, pc>>
    BY <1>3 DEF Respond, vars
  <2> QED BY <1>inv, <2>1, <2>2 DEF ManagerInv, Requests
<1>4. ASSUME Background PROVE ManagerInv'
  <2>1. UNCHANGED <<handler, signalled, deadline, stopped>>
    BY <1>4 DEF Background, lifeVars
  <2> QED BY <1>4, <1>inv, <2>1, BackgroundFacts DEF ManagerInv
<1>5. ASSUME ManagerNext PROVE ManagerInv'
  <2>1. CASE Signal
    BY <2>1, <1>inv DEF Signal, ManagerInv, vars
  <2>2. CASE DeadlinePasses
    BY <2>2, <1>inv DEF DeadlinePasses, ManagerInv, vars
  <2>3. CASE HTTPStopped
    BY <2>3, <1>inv, <1>order DEF HTTPStopped, Stopped, ManagerInv, vars
  <2>4. CASE ResolverShutdown
    <3>1. /\ stopped = 1
          /\ UNCHANGED <<handler, signalled, deadline, stopped, load>>
      BY <2>4, <1>order DEF ResolverShutdown, ShutdownClose, ShutdownAwait, lifeVars
    <3> QED BY <1>inv, <3>1 DEF ManagerInv
  <2>5. CASE ResolverStopped
    BY <2>5, <1>inv, <1>order DEF ResolverStopped, Stopped, ManagerInv, vars
  <2>6. CASE StoreStopped
    BY <2>6, <1>inv, <1>order DEF StoreStopped, Stopped, ManagerInv, vars
  <2> QED BY <1>5, <2>1, <2>2, <2>3, <2>4, <2>5, <2>6 DEF ManagerNext
<1>6. ASSUME UNCHANGED allVars PROVE ManagerInv'
  BY <1>6, <1>inv DEF allVars, vars, lifeVars, ManagerInv
<1> QED BY <1>inv, <1>1, <1>2, <1>3, <1>4, <1>5, <1>6 DEF LifeNext, LifeInv

\* The invariant holds throughout every behaviour.
LEMMA LifeInvariant == LifeSafetySpec => []LifeInv
  BY LifeInvInit, LifeInvStep, PTL DEF LifeSafetySpec

\* Within the deadline no request meets a closed loader or a closed store, and no
\* query of the loader outlives the store unless a timer had fired too early, for
\* any number of requests and websockets.
THEOREM ServicesOutliveTheirUse == LifeSafetySpec => []StopsAfterUse
<1>1. LifeInv => StopsAfterUse
  <2> SUFFICES ASSUME LifeInv PROVE StopsAfterUse
    OBVIOUS
  <2>1. IsStopped("store") <=> stopped = 3
    BY OrderFacts DEF LifeInv, ManagerInv
  <2>2. pc[closer] = "done" /\ late = {} => ~inFlight
    BY DEF LifeInv, FlightInv, CloserInv
  <2> QED BY <2>1, <2>2 DEF StopsAfterUse, LifeInv, ManagerInv
<1> QED BY <1>1, LifeInvariant, PTL
=============================================================================
