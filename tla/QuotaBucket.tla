----------------------------- MODULE QuotaBucket -----------------------------
(***************************************************************************)
(* What the distributed limiter promises: per key, one ideal bucket that   *)
(* refills continuously and never expires, in front of one bounded queue   *)
(* of approval events.  A request is granted exactly when its key's level  *)
(* covers its cost and the queue has room.  Each decision may shift the    *)
(* level by up to half a Grain, the precision at which balances are kept.  *)
(* A clock that is set back may lower a level and stall its refill; a      *)
(* failover, to a replica that has fallen behind, may leave any level.     *)
(* The clock is here only to tell these steps from the others: no level    *)
(* depends on it.                                                          *)
(***************************************************************************)
EXTENDS Integers

CONSTANTS
  Keys,
  Costs,       \* costs of a request, in tokens
  TokenUnits,  \* units in one token
  Rate,        \* units refilled in one step of time
  Capacity,    \* units in a full bucket
  Grain,       \* units between two levels that can be kept
  MaxBacklog   \* places in the queue

VARIABLES
  clock,    \* the time of the primary
  behind,   \* a replica has fallen behind and may be promoted
  level,    \* units available to each key
  stalled,  \* keys whose refill waits for the clock to catch up
  backlog   \* events in the queue

vars == <<clock, behind, level, stalled, backlog>>

Init ==
  /\ clock = 0
  /\ behind = FALSE
  /\ level = [k \in Keys |-> Capacity]
  /\ stalled = {}
  /\ backlog = 0

\* Levels that stand for x once it is kept.
Kept(x) == {y \in 0..Capacity : 2 * y <= 2 * x + Grain /\ 2 * x <= 2 * y + Grain}

Grant(k, c) ==
  /\ level[k] >= c * TokenUnits
  /\ backlog < MaxBacklog
  /\ \E y \in Kept(level[k] - c * TokenUnits) : level' = [level EXCEPT ![k] = y]
  /\ stalled' = stalled \ {k}
  /\ backlog' = backlog + 1
  /\ UNCHANGED <<clock, behind>>

Deny(k, c) ==
  /\ level[k] < c * TokenUnits
  /\ \E y \in Kept(level[k]) : level' = [level EXCEPT ![k] = y]
  /\ stalled' = stalled \ {k}
  /\ UNCHANGED <<clock, behind, backlog>>

Filled(x) == IF x <= Capacity THEN x ELSE Capacity

TimePasses ==
  /\ clock' = clock + 1
  /\ level' = [k \in Keys |-> IF k \in stalled THEN level[k] ELSE Filled(level[k] + Rate)]
  /\ stalled' \subseteq stalled
  /\ UNCHANGED <<behind, backlog>>

ClockGoesBack ==
  /\ clock' < clock
  /\ level' \in [Keys -> 0..Capacity]
  /\ \A k \in Keys : level'[k] <= level[k]
  /\ stalled' \subseteq Keys
  /\ UNCHANGED <<behind, backlog>>

FallsBehind ==
  /\ ~behind
  /\ behind' = TRUE
  /\ UNCHANGED <<clock, level, stalled, backlog>>

FailsOver ==
  /\ behind
  /\ behind' = FALSE
  /\ clock' \in Nat
  /\ level' \in [Keys -> 0..Capacity]
  /\ stalled' \subseteq Keys
  /\ backlog' \in 0..MaxBacklog

Remove ==
  /\ backlog > 0
  /\ backlog' = backlog - 1
  /\ UNCHANGED <<clock, behind, level, stalled>>

Next ==
  \/ \E k \in Keys, c \in Costs : Grant(k, c) \/ Deny(k, c)
  \/ TimePasses
  \/ ClockGoesBack
  \/ FallsBehind
  \/ FailsOver
  \/ Remove

Spec == Init /\ [][Next]_vars
=============================================================================
