------------------------------ MODULE Dashboard ------------------------------
(***************************************************************************)
(* The page in the browser: every few seconds it asks /api/latest and      *)
(* appends the answer to its charts, and a click on a range button makes   *)
(* it ask /api/range and build the charts anew.  Requests are not awaited  *)
(* by the timer: their answers may come in any order, or not at all.       *)
(*                                                                         *)
(* A script runs to its next await without interruption, so an action is   *)
(* what one handler does between two awaits.  A chart is reduced to its    *)
(* time axis: the three charts are built from one answer and appended to   *)
(* together; the header and the drawing are left out.  A sample is its ts  *)
(* and has cells; stamps ascend (no correction of the host clock), and the *)
(* clocks of host and browser agree.                                       *)
(*                                                                         *)
(* An operator whose name says how it departs from the one that follows it *)
(* is a faulty variant, used by no action.                                 *)
(***************************************************************************)
EXTENDS Integers, Sequences, FiniteSets

CONSTANTS
  Ranges,             \* the buttons with a fixed window
  RangeMS,            \* RANGES: their window, or Unbounded for "all"
  FirstRange,         \* the range shown at first
  Windows,            \* the windows a user may apply
  Slack,              \* how far "all" reaches beyond now
  RangeRawThreshold,  \* rangeRawThreshold of the store
  RangeBuckets,       \* rangeBuckets of the store
  Ticks,              \* bound: requests of the header in flight
  MaxLoads,           \* bound: range requests in flight (more than one is an error)
  MaxNow              \* bound: time

Unbounded == 0
NoWindow == [from |-> 0, to |-> 0]

ASSUME RangesAssumption ==
  /\ FirstRange \in Ranges /\ "custom" \notin Ranges
  /\ RangeMS \in [Ranges -> Nat]
  /\ Slack \in Nat \ {0}
ASSUME DashboardWindowsAssumption ==
  Windows \subseteq {w \in [from : Int, to : Int] : w.from < w.to}
ASSUME StoreLimitsAssumption == RangeRawThreshold \in Nat /\ RangeBuckets \in Nat \ {0}
ASSUME DashboardBoundsAssumption == MaxLoads \in Nat \ {0} /\ MaxNow \in Nat

VARIABLES
  now,        \* the time of day
  samples,    \* the ts of the samples in the database
  range,      \* currentRange: the button that is lit
  bounds,     \* customBounds
  buttons,    \* the range controls can be used
  loads,      \* range requests in flight: what they ask, and the answer
  ticks,      \* the requests of the header: idle, asked, or their answer
  built,      \* the charts exist
  shown,      \* the range they were built for, and its bounds if it is custom
  axis,       \* their time axis
  watermark,  \* lastAppendedTS
  newest      \* history: the newest sample that the charts show or average

world == <<now, samples>>
controls == <<range, bounds, buttons>>
charts == <<built, shown, axis, watermark, newest>>
vars == <<world, controls, loads, ticks, charts>>

-----------------------------------------------------------------------------
(* The server *)

\* A sample is stamped when it is polled and visible once it is flushed.
SampleIsFlushed ==
  /\ \E ts \in 1..now : (\A s \in samples : s < ts) /\ samples' = samples \cup {ts}
  /\ UNCHANGED <<now, controls, loads, ticks, charts>>

TimePasses ==
  /\ now < MaxNow
  /\ now' = now + 1
  /\ UNCHANGED <<samples, controls, loads, ticks, charts>>

\* Latest on an empty database answers with a zero ts.
NewestOrNone(S) == IF S = {} THEN -1 ELSE CHOOSE s \in S : \A t \in S : t <= s

Newest(S) == IF S = {} THEN 0 ELSE CHOOSE s \in S : \A t \in S : t <= s

InWindow(q) == {s \in samples : q.from <= s /\ s <= q.to}

\* Few samples are sent as they are, many are averaged in buckets, each shown at
\* its centre.
BucketMS(q) ==
  LET w == (q.to - q.from) \div RangeBuckets IN IF w < 1 THEN 1 ELSE w
BucketTS(q, s) ==
  q.from + BucketMS(q) * ((s - q.from) \div BucketMS(q)) + (BucketMS(q) \div 2)

Points(q) ==
  IF Cardinality(InWindow(q)) <= RangeRawThreshold
  THEN InWindow(q)
  ELSE {BucketTS(q, s) : s \in InWindow(q)}

Ascending(xs) == \A i, j \in 1..Len(xs) : i < j => xs[i] < xs[j]

\* ORDER BY ts: the points of a set, in their order.
InOrder(S) == {xs \in [1..Cardinality(S) -> S] : Ascending(xs)}

-----------------------------------------------------------------------------
(* Range requests *)

Asked == [state |-> "asked", axis |-> <<>>, newest |-> 0]
Answered(xs, n) == [state |-> "answered", axis |-> xs, newest |-> n]

RangeBounds(label, custom) ==
  IF label = "custom" THEN custom
  ELSE IF RangeMS[label] = Unbounded THEN [from |-> 0, to |-> now + Slack]
  ELSE [from |-> now - RangeMS[label], to |-> now]

\* loadCharts up to its fetch.
LoadChartsButtonsOn(label, custom) ==
  /\ Cardinality(loads) < MaxLoads
  /\ loads' = loads \cup {[label |-> label, window |-> RangeBounds(label, custom),
                           reply |-> Asked]}
  /\ UNCHANGED buttons

LoadCharts(label, custom) ==
  /\ Cardinality(loads) < MaxLoads
  /\ loads' = loads \cup {[label |-> label, window |-> RangeBounds(label, custom),
                           reply |-> Asked]}
  /\ buttons' = FALSE

RangeIsAnswered ==
  /\ \E l \in loads :
       /\ l.reply = Asked
       /\ \E xs \in InOrder(Points(l.window)) :
            loads' = (loads \ {l})
              \cup {[l EXCEPT !.reply = Answered(xs, Newest(InWindow(l.window)))]}
  /\ UNCHANGED <<world, controls, ticks, charts>>

LastOf(xs) == IF xs = <<>> THEN 0 ELSE xs[Len(xs)]

\* loadCharts after its fetch; without an answer the charts are built empty.
BuildKeepsWatermark(l, reply) ==
  /\ loads' = loads \ {l}
  /\ built' = TRUE
  /\ shown' = [label |-> l.label,
               window |-> IF l.label = "custom" THEN l.window ELSE NoWindow]
  /\ axis' = reply.axis
  /\ watermark' = IF reply.axis = <<>> THEN watermark ELSE LastOf(reply.axis)
  /\ newest' = reply.newest
  /\ buttons' = TRUE

Build(l, reply) ==
  /\ loads' = loads \ {l}
  /\ built' = TRUE
  /\ shown' = [label |-> l.label,
               window |-> IF l.label = "custom" THEN l.window ELSE NoWindow]
  /\ axis' = reply.axis
  /\ watermark' = LastOf(reply.axis)
  /\ newest' = reply.newest
  /\ buttons' = TRUE

LoadSucceeds ==
  /\ \E l \in loads : l.reply # Asked /\ Build(l, l.reply)
  /\ UNCHANGED <<world, range, bounds, ticks>>

LoadFails ==
  /\ \E l \in loads : Build(l, Asked)
  /\ UNCHANGED <<world, range, bounds, ticks>>

-----------------------------------------------------------------------------
(* The controls *)

SetRange ==
  /\ buttons
  /\ \E label \in Ranges :
       /\ range' = label
       /\ LoadCharts(label, bounds)
  /\ UNCHANGED <<world, bounds, ticks, charts>>

\* The picker is shown; nothing is loaded until a window is applied.
SetRangeCustom ==
  /\ buttons
  /\ range' = "custom"
  /\ UNCHANGED <<world, bounds, buttons, loads, ticks, charts>>

ApplyCustom ==
  /\ buttons
  /\ range = "custom"
  /\ \E w \in Windows :
       /\ bounds' = w
       /\ LoadCharts("custom", w)
  /\ UNCHANGED <<world, range, ticks, charts>>

-----------------------------------------------------------------------------
(* The header *)

IdleTick == [state |-> "idle", ts |-> 0]
AskedTick == [state |-> "asked", ts |-> 0]

TickIsDue(i) ==
  /\ ticks[i] = IdleTick
  /\ ticks' = [ticks EXCEPT ![i] = AskedTick]
  /\ UNCHANGED <<world, controls, loads, charts>>

LatestIsAnswered(i) ==
  /\ ticks[i] = AskedTick
  /\ ticks' = [ticks EXCEPT ![i] = [state |-> "answered", ts |-> Newest(samples)]]
  /\ UNCHANGED <<world, controls, loads, charts>>

AppendLiveTwice(ts) ==
  IF range # "custom" /\ ts # 0 /\ built /\ ts >= watermark
  THEN /\ axis' = Append(axis, ts)
       /\ watermark' = ts
       /\ newest' = ts
       /\ UNCHANGED <<built, shown>>
  ELSE UNCHANGED charts

AppendLive(ts) ==
  IF range # "custom" /\ ts # 0 /\ built /\ ts > watermark
  THEN /\ axis' = Append(axis, ts)
       /\ watermark' = ts
       /\ newest' = ts
       /\ UNCHANGED <<built, shown>>
  ELSE UNCHANGED charts

TickSucceeds(i) ==
  /\ ticks[i].state = "answered"
  /\ ticks' = [ticks EXCEPT ![i] = IdleTick]
  /\ AppendLive(ticks[i].ts)
  /\ UNCHANGED <<world, controls, loads>>

TickFails(i) ==
  /\ ticks[i] # IdleTick
  /\ ticks' = [ticks EXCEPT ![i] = IdleTick]
  /\ UNCHANGED <<world, controls, loads, charts>>

-----------------------------------------------------------------------------

\* init: the first load and the first tick are under way.
Init ==
  /\ now = 0
  /\ samples = {}
  /\ range = FirstRange
  /\ bounds = NoWindow
  /\ buttons = FALSE
  /\ loads = {[label |-> FirstRange, window |-> RangeBounds(FirstRange, NoWindow),
               reply |-> Asked]}
  /\ \E first \in Ticks : ticks = [i \in Ticks |-> IF i = first THEN AskedTick ELSE IdleTick]
  /\ built = FALSE
  /\ shown = [label |-> "none", window |-> NoWindow]
  /\ axis = <<>>
  /\ watermark = 0
  /\ newest = 0

Load == RangeIsAnswered \/ LoadSucceeds \/ LoadFails
Tick(i) == TickIsDue(i) \/ LatestIsAnswered(i) \/ TickSucceeds(i) \/ TickFails(i)

Next ==
  \/ SampleIsFlushed \/ TimePasses
  \/ Load \/ SetRange \/ SetRangeCustom \/ ApplyCustom
  \/ \E i \in Ticks : Tick(i)

Spec == Init /\ [][Next]_vars

\* The timer keeps firing, a request is answered or fails, and requests that are
\* made again and again do not all fail.
FairSpec ==
  /\ Spec
  /\ WF_vars(LoadSucceeds \/ LoadFails)
  /\ WF_vars(\E i \in Ticks : TickIsDue(i))
  /\ SF_vars(\E i \in Ticks : LatestIsAnswered(i))
  /\ SF_vars(\E i \in Ticks : TickSucceeds(i))

-----------------------------------------------------------------------------
(* Correctness *)

\* Type invariant.
Stamps == 1..MaxNow
TypeOK ==
  /\ now \in 0..MaxNow /\ samples \subseteq Stamps
  /\ range \in Ranges \cup {"custom"} /\ bounds \in Windows \cup {NoWindow}
  /\ buttons \in BOOLEAN /\ built \in BOOLEAN
  /\ Cardinality(loads) <= MaxLoads
  /\ \A l \in loads : l.reply.state \in {"asked", "answered"}
  /\ DOMAIN ticks = Ticks
  /\ \A i \in Ticks : ticks[i].state \in {"idle", "asked", "answered"} /\ ticks[i].ts \in 0..MaxNow
  /\ axis \in Seq(Int) /\ watermark \in Int
  /\ newest \in 0..MaxNow

\* uPlot takes it for granted that time ascends: whatever the order in which
\* answers of ticks and of range requests arrive, no point is drawn before or on
\* top of an earlier one.
AxisAscends == Ascending(axis)

\* When no request keeps the controls off, the charts are those of the button that
\* is lit, unless the custom picker has just been opened; and the window that was
\* applied is the one shown.
ShownIsSelected ==
  buttons =>
    /\ loads = {}
    /\ range # "custom" => shown.label = range
    /\ shown.label = "custom" => shown.window = bounds

\* The charts do not fall behind: the time axis comes to reach every sample in the
\* database, whatever requests fail or overtake each other, unless the user turns
\* to a custom window.  (That the point at its end is that sample or a newer one is
\* more than the code achieves: see TickIsShown.)
ChartsCatchUp ==
  \A s \in Stamps : s \in samples ~> LastOf(axis) >= s \/ range = "custom"

\* "live append: each header tick pushes the latest sample onto every chart
\* without re-fetching the whole range": a tick that brings a sample newer than
\* all that the charts stand for puts it on them.
TickIsShown ==
  [][\A i \in Ticks :
       TickSucceeds(i) /\ range # "custom" /\ built /\ loads = {} /\ ticks[i].ts > newest
         => LastOf(axis') = ticks[i].ts]_vars
=============================================================================
