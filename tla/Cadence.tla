------------------------------- MODULE Cadence -------------------------------
(***************************************************************************)
(* How late runLoop's timers let a sample become visible, and what         *)
(* /api/health says meanwhile: the poll timer, which is armed again only   *)
(* when an attempt has ended, the flush ticker, whose channel holds one    *)
(* tick, and one goroutine that serves either.                             *)
(*                                                                         *)
(* Time passes in equal units and is the same for the timers and for the   *)
(* stamps; Store treats a clock that is corrected.  The goroutine takes a  *)
(* ready case of its select at once, a flush takes no time and succeeds,   *)
(* and the daily prune is left out.  A poll lasts up to MaxPoll: wake-up,  *)
(* settling, and two reads that may each run into the read timeout.        *)
(*                                                                         *)
(* An operator whose name says how it departs from the one that follows it *)
(* is a faulty variant, used by no action.                                 *)
(***************************************************************************)
EXTENDS Integers

CONSTANTS
  Interval,       \* poll.interval_seconds
  FlushInterval,  \* storage.flush_interval_seconds
  Waits,          \* the waits that may follow a failed attempt
  MaxPoll,        \* the longest poll
  Settled,        \* so many successes in a row, and the service counts as polling
  MaxAge          \* bound: ages saturate here

ASSUME IntervalsAssumption ==
  Interval \in Nat \ {0} /\ FlushInterval \in Nat \ {0} /\ MaxPoll \in Nat \ {0}
ASSUME SettledAssumption == Settled \in Nat /\ Settled >= 2
ASSUME WaitsAssumption == Waits \subseteq Nat \ {0}
\* No age that a property tells apart is hidden.
ASSUME MaxAgeAssumption ==
  /\ MaxAge \in Nat
  /\ MaxAge > 2 * Interval + 2 * MaxPoll + FlushInterval

None == -1

VARIABLES
  polling,  \* attempt is running
  spent,    \* for how long
  toPoll,   \* until pollTimer fires; 0: it has
  toTick,   \* until flushTicker ticks
  ticked,   \* flushTicker.C holds a tick
  oldest,   \* age of the oldest sample in the buffer, or None
  newest,   \* age of the newest sample in the buffer, or None
  shown,    \* age of the newest sample in the database, or None
  run       \* attempts that succeeded since one failed, up to Settled

vars == <<polling, spent, toPoll, toTick, ticked, oldest, newest, shown, run>>

Age == -1..MaxAge

Older(a) == IF a \in {None, MaxAge} THEN a ELSE a + 1

Init ==
  /\ polling = FALSE
  /\ spent = 0
  /\ toPoll = 0
  /\ toTick = FlushInterval
  /\ ticked = FALSE
  /\ oldest = None
  /\ newest = None
  /\ shown \in Age     \* what an earlier process left
  /\ run = 0

PollStarts ==
  /\ ~polling
  /\ toPoll = 0
  /\ polling' = TRUE
  /\ spent' = 0
  /\ UNCHANGED <<toPoll, toTick, ticked, oldest, newest, shown, run>>

PollSucceedsAfterBackoff ==
  /\ polling
  /\ polling' = FALSE
  /\ toPoll' \in Waits
  /\ newest' = 0
  /\ oldest' = IF oldest = None THEN 0 ELSE oldest
  /\ run' = IF run < Settled THEN run + 1 ELSE run
  /\ UNCHANGED <<spent, toTick, ticked, shown>>

PollSucceeds ==
  /\ polling
  /\ polling' = FALSE
  /\ toPoll' = Interval
  /\ newest' = 0
  /\ oldest' = IF oldest = None THEN 0 ELSE oldest
  /\ run' = IF run < Settled THEN run + 1 ELSE run
  /\ UNCHANGED <<spent, toTick, ticked, shown>>

PollFails ==
  /\ polling
  /\ polling' = FALSE
  /\ toPoll' \in Waits
  /\ run' = 0
  /\ UNCHANGED <<spent, toTick, ticked, oldest, newest, shown>>

Flush ==
  /\ ~polling
  /\ ticked
  /\ ticked' = FALSE
  /\ shown' = IF newest = None THEN shown ELSE newest
  /\ oldest' = None
  /\ newest' = None
  /\ UNCHANGED <<polling, spent, toPoll, toTick, run>>

MayPassAsleep == IF polling THEN spent < MaxPoll ELSE toPoll > 0

\* Nothing is due: the poll may go on, and select has no case that is ready.
MayPass == IF polling THEN spent < MaxPoll ELSE toPoll > 0 /\ ~ticked

TickerStops ==
  /\ toTick' = toTick - 1
  /\ ticked' = (ticked \/ toTick = 1)

\* The ticker drops a tick when its channel is full.
TickerRuns ==
  /\ toTick' = IF toTick = 1 THEN FlushInterval ELSE toTick - 1
  /\ ticked' = (ticked \/ toTick = 1)

Pass ==
  /\ MayPass
  /\ IF polling THEN spent' = spent + 1 /\ UNCHANGED toPoll
                ELSE toPoll' = toPoll - 1 /\ UNCHANGED spent
  /\ TickerRuns
  /\ oldest' = Older(oldest)
  /\ newest' = Older(newest)
  /\ shown' = Older(shown)
  /\ UNCHANGED <<polling, run>>

Next == PollStarts \/ PollSucceeds \/ PollFails \/ Flush \/ Pass

Spec == Init /\ [][Next]_vars

-----------------------------------------------------------------------------
(* What /api/health answers *)

Ok == shown # None /\ shown <= 2 * Interval

-----------------------------------------------------------------------------
(* Correctness *)

\* Type invariant.
TypeOK ==
  /\ polling \in BOOLEAN /\ ticked \in BOOLEAN
  /\ spent \in 0..MaxPoll
  /\ toPoll \in Nat
  /\ toTick \in 1..FlushInterval
  /\ oldest \in Age /\ newest \in Age /\ shown \in Age
  /\ run \in 0..Settled

\* A sample is written within the flush interval, or, if the ticker is not
\* faster than the poll timer, within that and one poll, whatever the attempts
\* and the backoff do.
FlushIsTimely ==
  oldest <= IF FlushInterval < Interval THEN FlushInterval ELSE FlushInterval + MaxPoll

\* With a flush ticker that is faster than the poll timer, attempts that succeed
\* mean that a reader sees a sample that is no older than an interval, a poll and
\* a flush interval together.
ReadersAreCurrent ==
  FlushInterval < Interval /\ run = Settled =>
    shown \in 0..Interval + MaxPoll + FlushInterval

\* /api/health is documented to answer 200 while polling and 503 if there is no
\* sample within twice the interval: it does not call a service stale whose
\* attempts succeed.  This takes a flush interval and a poll that together fit
\* into the interval.
OkWhilePolling == run = Settled => Ok
=============================================================================
