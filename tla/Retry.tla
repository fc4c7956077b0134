------------------------------- MODULE Retry -------------------------------
(***************************************************************************)
(* retry.Do: a call is tried again after growing delays until it succeeds  *)
(* or its attempts are used up.  time.Duration is an integer of 64 bits    *)
(* that wraps; the module has Width bits.  The context of the only caller  *)
(* is context.Background(), which never ends.                              *)
(***************************************************************************)
EXTENDS Slices

CONSTANTS Attempts, Delay,   \* the arguments attempts and delay: 5 and 500 ms
          MaxShift,          \* maxBackoffShift, 30
          Width              \* bits of a time.Duration, 64

\* With fewer than one attempt Do returns nil and calls nothing; a delay above
\* this limit, 8.6 s in the code, wraps.
ASSUME RetryAssumption == /\ Attempts \in Nat /\ Attempts >= 1
                          /\ MaxShift \in Nat /\ Width \in Nat /\ Width >= 1
                          /\ Delay \in Nat /\ Delay >= 1
                          /\ Delay * Pow(2, MaxShift) < Pow(2, Width - 1)

VARIABLES i,         \* the loop variable
          outcome,   \* "calling", "waiting", or what Do has returned: "nil", "err"
          waits,     \* history: the delays so far
          reached    \* history: the last call succeeded

retryVars == <<i, outcome, waits, reached>>

-----------------------------------------------------------------------------
Wrap(n) == ((n + Pow(2, Width - 1)) % Pow(2, Width)) - Pow(2, Width - 1)

backoff(n) == Wrap(Delay * Pow(2, IF n > MaxShift THEN MaxShift ELSE n))

\* Mutant of Call: the last attempt is told by i = attempts, which never comes.
CallPastTheLast(ok) ==
  /\ outcome = "calling"
  /\ outcome' = IF ok THEN "nil" ELSE IF i = Attempts THEN "err" ELSE "waiting"
  /\ waits' = IF outcome' = "waiting" THEN Append(waits, backoff(i)) ELSE waits
  /\ reached' = ok
  /\ UNCHANGED i

Call(ok) ==
  /\ outcome = "calling"
  /\ outcome' = IF ok THEN "nil" ELSE IF i = Attempts - 1 THEN "err" ELSE "waiting"
  /\ waits' = IF outcome' = "waiting" THEN Append(waits, backoff(i)) ELSE waits
  /\ reached' = ok
  /\ UNCHANGED i

\* The delay is over; a loop that has run its attempts returns nil.
Wait ==
  /\ outcome = "waiting"
  /\ i' = i + 1
  /\ outcome' = IF i' < Attempts THEN "calling" ELSE "nil"
  /\ UNCHANGED <<waits, reached>>

RetryInit == /\ i = 0 /\ waits = <<>> /\ reached = FALSE
             /\ outcome = IF Attempts > 0 THEN "calling" ELSE "nil"
=============================================================================
