----------------------------- MODULE FixedWindow -----------------------------
(***************************************************************************)
(* The in-memory fixed window (internal/ratelimiter/fixed-window.go).      *)
(*                                                                         *)
(* The mutex makes a decision one atomic step; keys are independent, so    *)
(* one key is modelled.  Time is counted in instants of the injected       *)
(* clock, a millisecond being InstantsPerMS of them.  Unlike the token     *)
(* buckets, this limiter accepts a cost above the limit and denies it.     *)
(*                                                                         *)
(* windowFor truncates the time, which drops its monotonic reading, so a   *)
(* wall clock that is set back takes the limiter back to an earlier window.*)
(***************************************************************************)
EXTENDS Integers

CONSTANTS
  Limit,          \* policy.Limit, positive
  Window,         \* policy.Window in instants, positive
  InstantsPerMS,  \* instants in a millisecond
  MaxTime,        \* bound on the clock
  MaxStepsBack    \* bound on the number of times the clock is set back

VARIABLES
  now,       \* what the clock shows
  stepsBack, \* times the clock was set back
  window,    \* l.windows[key]: start and used
  spentIn,   \* observer: cost approved in each aligned window
  visits,    \* observer: times the clock entered each aligned window
  promise    \* observer: what the last decision told its client

vars == <<now, stepsBack, window, spentIn, visits, promise>>

Costs == 1..(Limit + 1)
NoPromise == [cost |-> 0, retryAt |-> 0]

\* A key without a window has the zero time.Time, the start of no window.
Init ==
  /\ now = 0
  /\ stepsBack = 0
  /\ window = [start |-> -Window, used |-> 0]
  /\ spentIn = [w \in 0..(MaxTime \div Window) |-> 0]
  /\ visits = [w \in DOMAIN spentIn |-> IF w = 0 THEN 1 ELSE 0]
  /\ promise = NoPromise

-----------------------------------------------------------------------------
\* Mutant of windowFor: forgets the usage one instant before the window ends.
windowForEarly ==
  IF now >= window.start + Window - 1 THEN [start |-> now - (now % Window), used |-> 0]
                                      ELSE window

\* The stored window, or an unused one when it is not the aligned window of now.
windowFor ==
  LET start == now - (now % Window)
  IN  IF window.start = start THEN window ELSE [start |-> start, used |-> 0]

\* Mutant of RetryAfterMS: the wait ends where the window began.
RetryAfterMSFromStart(resetAt) ==
  LET ms == (now + Window - resetAt) \div InstantsPerMS
  IN  IF ms < 1 THEN 1 ELSE ms

\* max(1, resetAt.Sub(now).Milliseconds()): whole milliseconds, rounded down.
RetryAfterMS(resetAt) ==
  LET ms == (resetAt - now) \div InstantsPerMS
  IN  IF ms < 1 THEN 1 ELSE ms

\* The unused window of a denial is not stored.
Denied(c) ==
  LET w == windowFor
      resetAt == w.start + Window
  IN  /\ c > Limit - w.used
      /\ promise' = [cost |-> c,
                     retryAt |-> now + RetryAfterMS(resetAt) * InstantsPerMS]
      /\ UNCHANGED <<window, spentIn>>

Allowed(c) ==
  LET w == windowFor
  IN  /\ c <= Limit - w.used
      /\ window' = [w EXCEPT !.used = @ + c]
      /\ spentIn' = [spentIn EXCEPT ![now \div Window] = @ + c]
      /\ promise' = NoPromise

Allow(c) == (Allowed(c) \/ Denied(c)) /\ UNCHANGED <<now, stepsBack, visits>>

Show(t) ==
  /\ now' = t
  /\ visits' = IF t \div Window = now \div Window THEN visits
               ELSE [visits EXCEPT ![t \div Window] = @ + 1]
  /\ UNCHANGED <<window, spentIn, promise>>

Tick == now < MaxTime /\ Show(now + 1) /\ UNCHANGED stepsBack

StepBack ==
  /\ stepsBack < MaxStepsBack
  /\ \E t \in 0..(now - 1) : Show(t)
  /\ stepsBack' = stepsBack + 1

Next == (\E c \in Costs : Allow(c)) \/ Tick \/ StepBack

Spec == Init /\ [][Next]_vars

-----------------------------------------------------------------------------
\* docs/requirements.md, V3: the limiter is exact on aligned windows and bursts
\* at their boundary.  An aligned window gets the limit once for every visit of
\* the clock: any time of one Window, which touches two of them, gets at most
\* twice the limit, and a clock that is set back into a window it has left can
\* give that window its limit again, and no more than that.
QuotaPerVisit == \A w \in DOMAIN visits : spentIn[w] <= Limit * visits[w]

\* retry_after_ms is cut to whole milliseconds, so a denied client may come
\* back too early, but never by a millisecond: one millisecond after the
\* announced time a cost within the limit fits.
RetryAfterPlusOneSuffices ==
  promise.cost \in 1..Limit /\ now >= promise.retryAt + InstantsPerMS =>
    promise.cost <= Limit - windowFor.used
=============================================================================
