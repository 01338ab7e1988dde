--------------------------- MODULE DashboardProofs ---------------------------
(***************************************************************************)
(* What the page guarantees for every set of ranges, any number of timer   *)
(* requests in flight and any store limits.  Two arguments: the watermark  *)
(* is the end of the time axis, so what is appended lies beyond it; and a  *)
(* range request is in flight exactly while the controls are off, so that  *)
(* there is only one and it asks for the range that is lit.                *)
(***************************************************************************)
EXTENDS Dashboard, FiniteSetTheorems, WellFoundedInduction, TLAPS

Labels == Ranges \cup {"custom"}
Window == [from : Int, to : Int]
Reply == [state : {"asked", "answered"}, axis : Seq(Int), newest : 0..MaxNow]
LoadRequest == [label : Labels, window : Window, reply : Reply]
TickRequest == [state : {"idle", "asked", "answered"}, ts : 0..MaxNow]

Types ==
  /\ now \in 0..MaxNow /\ samples \subseteq Stamps
  /\ range \in Labels /\ bounds \in Windows \cup {NoWindow}
  /\ loads \subseteq LoadRequest
  /\ ticks \in [Ticks -> TickRequest]
  /\ axis \in Seq(Int) /\ watermark \in Int /\ newest \in 0..MaxNow

\* Boolean-valued variables, which the provers treat apart.
Flags == buttons \in BOOLEAN /\ built \in BOOLEAN

\* The axis ascends and ends at the watermark, and so it will once the answer
\* that a load holds is built.
AxisInv ==
  /\ Ascending(axis)
  /\ watermark = LastOf(axis)
  /\ \A l \in loads : Ascending(l.reply.axis)

\* One load is in flight while the controls are off, and it asks for what they
\* show; none is while they are on.
LoadInv ==
  \/ /\ buttons
     /\ loads = {}
     /\ range # "custom" => shown.label = range
     /\ shown.label = "custom" => shown.window = bounds
  \/ /\ ~buttons
     /\ \E l \in LoadRequest :
          /\ loads = {l}
          /\ l.label = range
          /\ l.label = "custom" => l.window = bounds

IInv == Types /\ Flags /\ AxisInv /\ LoadInv

-----------------------------------------------------------------------------
(* Operators *)

LEMMA Constants ==
  /\ FirstRange \in Ranges /\ "custom" \notin Ranges
  /\ RangeMS \in [Ranges -> Nat]
  /\ Slack \in Nat
  /\ Windows \subseteq Window
  /\ RangeRawThreshold \in Nat /\ RangeBuckets \in Nat /\ RangeBuckets > 0
  /\ MaxLoads \in Nat /\ MaxLoads > 0 /\ MaxNow \in Nat
  /\ NoWindow \in Window
BY RangesAssumption, DashboardWindowsAssumption, StoreLimitsAssumption,
   DashboardBoundsAssumption DEF Window, NoWindow

\* A set of natural numbers has a least element.
LEMMA MinExists ==
  ASSUME NEW T, T \subseteq Nat, T # {}
  PROVE  \E x \in T : \A y \in T : x <= y
<1> DEFINE R == {p \in Nat \X Nat : p[1] < p[2]}
<1>1. IsWellFoundedOn(R, Nat)
  BY NatLessThanWellFounded DEF OpToRel
<1> HIDE DEF R
<1>2. \E x \in T : \A y \in T : ~ (<<y, x>> \in R)
  BY <1>1, WFMin
<1>3. ASSUME NEW x \in T, NEW y \in T, ~ (<<y, x>> \in R) PROVE x <= y
  BY <1>3 DEF R
<1> QED
  BY <1>2, <1>3

\* The newest of a set of samples is one of them, and 0 if there is none.
LEMMA NewestIsAStamp ==
  ASSUME NEW S, S \subseteq Stamps
  PROVE  Newest(S) \in 0..MaxNow
<1> USE Constants
<1>1. CASE S = {}
  BY <1>1 DEF Newest
<1>2. CASE S # {}
  <2> DEFINE T == {MaxNow - s : s \in S}
  <2>1. \A s \in S : MaxNow - s \in Nat
    BY DEF Stamps
  <2>2. T \subseteq Nat /\ T # {}
    BY <1>2, <2>1
  <2>3. \E x \in T : \A y \in T : x <= y
    BY <2>2, MinExists
  <2>4. PICK m \in S : \A y \in T : MaxNow - m <= y
    BY <2>3
  <2>5. \A t \in S : MaxNow - m <= MaxNow - t
    BY <2>4
  <2>6. \A t \in S : t <= m
    BY <2>5 DEF Stamps
  <2>7. Newest(S) \in S
    BY <1>2, <2>6 DEF Newest
  <2>8. \A s \in Stamps : s \in 0..MaxNow
    BY DEF Stamps
  <2> QED
    BY <2>7, <2>8
<1> QED
  BY <1>1, <1>2

\* The end of an axis is a number.
LEMMA LastIsLast ==
  ASSUME NEW xs \in Seq(Int)
  PROVE  LastOf(xs) \in Int
BY DEF LastOf

\* A later point goes to the end.
LEMMA AppendAscends ==
  ASSUME NEW xs \in Seq(Int), NEW ts \in Int, Ascending(xs), ts > LastOf(xs)
  PROVE  /\ Append(xs, ts) \in Seq(Int)
         /\ Ascending(Append(xs, ts))
         /\ LastOf(Append(xs, ts)) = ts
<1> DEFINE ys == Append(xs, ts)
<1>1. ys \in Seq(Int) /\ Len(ys) = Len(xs) + 1 /\ ys[Len(xs) + 1] = ts
  OBVIOUS
<1>2. \A i \in 1..Len(xs) : ys[i] = xs[i] /\ xs[i] \in Int
  OBVIOUS
<1>3. \A i \in 1..Len(xs) : xs[i] < ts
  BY DEF Ascending, LastOf
<1>4. Ascending(ys)
  <2> SUFFICES ASSUME NEW i \in 1..Len(ys), NEW j \in 1..Len(ys), i < j PROVE ys[i] < ys[j]
    BY DEF Ascending
  <2>1. i \in 1..Len(xs)
    BY <1>1
  <2>2. CASE j = Len(xs) + 1
    BY <1>1, <1>2, <1>3, <2>1, <2>2
  <2>3. CASE j \in 1..Len(xs)
    BY <1>2, <2>1, <2>3 DEF Ascending
  <2> QED
    BY <1>1, <2>2, <2>3
<1>5. ys # <<>>
  BY <1>1
<1> QED
  BY <1>1, <1>4, <1>5 DEF LastOf

\* What a load asks for is a window.
LEMMA BoundsAreAWindow ==
  ASSUME NEW label \in Labels, NEW custom \in Window, now \in Int
  PROVE  RangeBounds(label, custom) \in Window
<1>1. CASE label = "custom"
  BY <1>1 DEF RangeBounds
<1>2. CASE label # "custom"
  <2>1. RangeMS[label] \in Nat
    BY <1>2, Constants DEF Labels
  <2> QED
    BY <1>2, <2>1, Constants DEF RangeBounds, Window
<1> QED
  BY <1>1, <1>2

\* Raw or averaged, an answer has finitely many points.
LEMMA PointsAreFinite ==
  ASSUME NEW q \in Window, samples \subseteq Stamps
  PROVE  IsFiniteSet(Points(q)) /\ Points(q) \subseteq Int
<1>1. IsFiniteSet(InWindow(q)) /\ InWindow(q) \subseteq Stamps
  <2>1. IsFiniteSet(Stamps)
    BY Constants, FS_Interval DEF Stamps
  <2>2. InWindow(q) \in SUBSET Stamps
    BY DEF InWindow
  <2> QED
    BY <2>1, <2>2, FS_Subset
<1>2. q.from \in Int /\ q.to \in Int
  BY DEF Window
<1>3. BucketMS(q) \in Nat \ {0}
  <2>1. (q.to - q.from) \div RangeBuckets \in Int
    BY <1>2, Constants
  <2> QED
    BY <2>1 DEF BucketMS
<1>4. \A s \in Int : BucketTS(q, s) \in Int
  <2> SUFFICES ASSUME NEW s \in Int PROVE BucketTS(q, s) \in Int
    OBVIOUS
  <2> DEFINE b == BucketMS(q)
             k == (s - q.from) \div b
  <2>1. k \in Int /\ b \div 2 \in Int
    BY <1>2, <1>3
  <2> HIDE DEF b, k
  <2>2. b \in Int
    BY <1>3 DEF b
  <2>3. b * k \in Int
    BY <2>1, <2>2
  <2> QED
    BY <1>2, <2>1, <2>3 DEF BucketTS, b, k
<1>5. Stamps \subseteq Int
  BY DEF Stamps
<1> DEFINE C == {BucketTS(q, s) : s \in InWindow(q)}
           f == [s \in InWindow(q) |-> BucketTS(q, s)]
<1>6. IsFiniteSet(C)
  <2>1. f \in Surjection(InWindow(q), C)
    BY DEF Surjection
  <2> QED
    BY <1>1, <2>1, FS_Surjection
<1>7. C \subseteq Int
  BY <1>1, <1>4, <1>5
<1> QED
  BY <1>1, <1>5, <1>6, <1>7 DEF Points

\* The answer to a load is a reply with an ascending axis.
LEMMA OrderedPoints ==
  ASSUME NEW S, IsFiniteSet(S), S \subseteq Int, NEW xs \in InOrder(S)
  PROVE  xs \in Seq(Int) /\ Ascending(xs)
<1>1. Cardinality(S) \in Nat
  BY FS_CardinalityType
<1>2. xs \in [1..Cardinality(S) -> S] /\ Ascending(xs)
  BY DEF InOrder
<1>3. xs \in [1..Cardinality(S) -> Int]
  BY <1>2
<1> QED
  BY <1>1, <1>2, <1>3

-----------------------------------------------------------------------------
(* Steps *)

LEMMA InitIInv == Init => IInv
<1> SUFFICES ASSUME Init PROVE IInv
  OBVIOUS
<1> DEFINE l0 == [label |-> FirstRange, window |-> RangeBounds(FirstRange, NoWindow),
                  reply |-> Asked]
<1>1. FirstRange \in Labels /\ Asked \in Reply /\ FirstRange # "custom"
  BY Constants DEF Labels, Asked, Reply
<1>2. RangeBounds(FirstRange, NoWindow) \in Window
  BY <1>1, Constants, BoundsAreAWindow DEF Init
<1>3. l0 \in LoadRequest /\ l0.label = FirstRange /\ l0.reply.axis = <<>>
  BY <1>1, <1>2 DEF LoadRequest, Asked
<1>4. loads = {l0} /\ range = FirstRange
  BY DEF Init
<1> HIDE DEF l0
<1>5. Flags
  BY Zenon DEF Init, Flags
<1>6. Types
  <2>1. ticks \in [Ticks -> TickRequest]
    BY Constants DEF Init, TickRequest, AskedTick, IdleTick
  <2> QED
    BY <1>1, <1>3, <1>4, <2>1, Constants DEF Init, Types
<1>7. AxisInv
  BY <1>3, <1>4 DEF Init, AxisInv, Ascending, LastOf
<1>8. LoadInv
  <2>1. ~buttons
    BY DEF Init
  <2> QED
    BY <1>1, <1>3, <1>4, <2>1 DEF LoadInv
<1> QED
  BY <1>5, <1>6, <1>7, <1>8 DEF IInv

\* Time passes and samples arrive without a chart or a load being touched.
LEMMA WorldStep ==
  ASSUME IInv, SampleIsFlushed \/ TimePasses
  PROVE  IInv'
<1> USE Constants
<1>1. UNCHANGED <<controls, loads, ticks, charts>>
  BY DEF SampleIsFlushed, TimePasses
<1>2. now' \in 0..MaxNow /\ samples' \subseteq Stamps
  <2>1. CASE SampleIsFlushed
    <3>1. now \in 0..MaxNow /\ samples \subseteq Stamps /\ now' = now
      BY <2>1 DEF SampleIsFlushed, IInv, Types
    <3>2. PICK ts \in 1..now : samples' = samples \cup {ts}
      BY <2>1 DEF SampleIsFlushed
    <3>3. ts \in Stamps
      BY <3>1 DEF Stamps
    <3> QED
      BY <3>1, <3>2, <3>3
  <2>2. CASE TimePasses
    BY <2>2 DEF TimePasses, IInv, Types
  <2> QED
    BY <2>1, <2>2
<1>3. Types'
  BY <1>1, <1>2 DEF IInv, Types, controls, charts
<1>4. Flags' /\ AxisInv' /\ LoadInv'
  BY <1>1 DEF IInv, Flags, AxisInv, LoadInv, controls, charts
<1> QED
  BY <1>3, <1>4 DEF IInv

\* While a load is in flight the controls are off and it is the only one.
LEMMA TheLoad ==
  ASSUME IInv, NEW l \in loads
  PROVE  /\ ~buttons
         /\ l \in LoadRequest /\ loads = {l}
         /\ l.label = range
         /\ l.label = "custom" => l.window = bounds
BY DEF IInv, LoadInv

\* The answer to a range request brings an axis that ascends.
LEMMA AnswerStep ==
  ASSUME IInv, RangeIsAnswered
  PROVE  IInv'
<1>1. UNCHANGED <<world, controls, ticks, charts>>
  BY DEF RangeIsAnswered
<1>2. PICK l \in loads :
        \E xs \in InOrder(Points(l.window)) :
          loads' = (loads \ {l})
            \cup {[l EXCEPT !.reply = Answered(xs, Newest(InWindow(l.window)))]}
  BY DEF RangeIsAnswered
<1>3. PICK xs \in InOrder(Points(l.window)) :
        loads' = (loads \ {l})
          \cup {[l EXCEPT !.reply = Answered(xs, Newest(InWindow(l.window)))]}
  BY <1>2
<1> DEFINE r == Answered(xs, Newest(InWindow(l.window)))
           m == [l EXCEPT !.reply = r]
<1>4. /\ ~buttons /\ l \in LoadRequest /\ loads = {l} /\ l.label = range
      /\ l.label = "custom" => l.window = bounds
  BY TheLoad
<1>5. xs \in Seq(Int) /\ Ascending(xs)
  <2>1. l.window \in Window /\ samples \subseteq Stamps
    BY <1>4 DEF LoadRequest, IInv, Types
  <2> QED
    BY <2>1, PointsAreFinite, OrderedPoints
<1>6. r \in Reply /\ r.axis = xs
  <2>1. InWindow(l.window) \subseteq Stamps
    BY DEF InWindow, IInv, Types
  <2>2. Newest(InWindow(l.window)) \in 0..MaxNow
    BY <2>1, NewestIsAStamp
  <2> QED
    BY <1>5, <2>2 DEF Answered, Reply
<1> HIDE DEF r
<1>7. /\ m \in LoadRequest /\ m.reply = r /\ m.label = l.label /\ m.window = l.window
  BY <1>4, <1>6 DEF LoadRequest
<1>8. loads' = {m}
  BY <1>3, <1>4 DEF r
<1> HIDE DEF m
<1>9. Types'
  BY <1>1, <1>7, <1>8 DEF IInv, Types, world, controls, charts
<1>10. Flags'
  BY <1>1 DEF IInv, Flags, controls, charts
<1>11. AxisInv'
  BY <1>1, <1>5, <1>6, <1>7, <1>8 DEF IInv, AxisInv, charts
<1>12. LoadInv'
  BY <1>1, <1>4, <1>7, <1>8 DEF LoadInv, controls
<1> QED
  BY <1>9, <1>10, <1>11, <1>12 DEF IInv

\* Building the charts from an answer, or from none, ends the one load.
LEMMA BuildStep ==
  ASSUME IInv, NEW l \in loads, NEW reply \in Reply, Ascending(reply.axis),
         Build(l, reply), UNCHANGED <<world, range, bounds, ticks>>
  PROVE  IInv'
<1>1. /\ ~buttons /\ l \in LoadRequest /\ loads = {l} /\ l.label = range
      /\ l.label = "custom" => l.window = bounds
  BY TheLoad
<1>2. /\ loads' = {} /\ buttons' = TRUE /\ built' = TRUE /\ axis' = reply.axis
      /\ watermark' = LastOf(reply.axis) /\ newest' = reply.newest
      /\ shown' = [label |-> l.label,
                   window |-> IF l.label = "custom" THEN l.window ELSE NoWindow]
  BY <1>1 DEF Build
<1>3. reply.axis \in Seq(Int) /\ reply.newest \in 0..MaxNow
  BY DEF Reply
<1>4. Types'
  BY <1>2, <1>3, LastIsLast DEF IInv, Types, world
<1>5. Flags'
  BY <1>2, Zenon DEF Flags
<1>6. AxisInv'
  BY <1>2 DEF AxisInv
<1>7. LoadInv'
  BY <1>1, <1>2 DEF LoadInv
<1> QED
  BY <1>4, <1>5, <1>6, <1>7 DEF IInv

\* A control that loads something finds no load under way and lights what it loads.
LEMMA LoadStep ==
  ASSUME IInv, buttons,
         NEW label \in Labels, NEW custom \in Windows \cup {NoWindow},
         LoadCharts(label, custom),
         range' = label, bounds' = custom,
         UNCHANGED <<world, ticks, charts>>
  PROVE  IInv'
<1> DEFINE l == [label |-> label, window |-> RangeBounds(label, custom), reply |-> Asked]
<1>1. loads = {}
  BY DEF IInv, LoadInv
<1>2. custom \in Window /\ now \in Int
  BY Constants DEF IInv, Types
<1>3. Asked \in Reply /\ Asked.axis = <<>>
  BY Constants DEF Asked, Reply
<1>4. /\ l \in LoadRequest /\ l.label = label /\ l.reply = Asked
      /\ label = "custom" => l.window = custom
  BY <1>2, <1>3, BoundsAreAWindow DEF LoadRequest, RangeBounds
<1>5. loads' = {l} /\ buttons' = FALSE
  BY <1>1 DEF LoadCharts
<1> HIDE DEF l
<1>6. Types'
  BY <1>4, <1>5 DEF IInv, Types, world, charts
<1>7. Flags'
  <2>1. buttons' \in BOOLEAN
    BY <1>5, Zenon
  <2>2. built' \in BOOLEAN
    BY Zenon DEF IInv, Flags, charts
  <2> QED
    BY <2>1, <2>2, Zenon DEF Flags
<1>8. AxisInv'
  BY <1>3, <1>4, <1>5 DEF IInv, AxisInv, Ascending, charts
<1>9. LoadInv'
  BY <1>4, <1>5 DEF LoadInv
<1> QED
  BY <1>6, <1>7, <1>8, <1>9 DEF IInv

\* Opening the picker loads nothing.
LEMMA PickerStep ==
  ASSUME IInv, SetRangeCustom
  PROVE  IInv'
<1>1. /\ buttons /\ range' = "custom"
      /\ UNCHANGED <<world, bounds, buttons, loads, ticks, charts>>
  BY DEF SetRangeCustom
<1>2. Types' /\ Flags' /\ AxisInv'
  BY <1>1 DEF IInv, Types, Flags, AxisInv, Labels, world, charts
<1>3. LoadInv'
  BY <1>1 DEF IInv, LoadInv, charts
<1> QED
  BY <1>2, <1>3 DEF IInv

\* The header appends to the charts only what lies beyond their end.
LEMMA TickStep ==
  ASSUME IInv, NEW i \in Ticks, Tick(i)
  PROVE  IInv'
<1> USE Constants
<1>1. UNCHANGED <<world, controls, loads, built, shown>>
  BY DEF Tick, TickIsDue, LatestIsAnswered, TickSucceeds, TickFails, AppendLive, charts
<1>2. ticks \in [Ticks -> TickRequest] /\ ticks[i].ts \in 0..MaxNow
  BY DEF IInv, Types, TickRequest
<1>3. ticks' \in [Ticks -> TickRequest]
  <2>1. IdleTick \in TickRequest /\ AskedTick \in TickRequest
    BY DEF IdleTick, AskedTick, TickRequest
  <2>2. [state |-> "answered", ts |-> Newest(samples)] \in TickRequest
    BY NewestIsAStamp DEF IInv, Types, TickRequest
  <2>3. \E t \in TickRequest : ticks' = [ticks EXCEPT ![i] = t]
    BY <2>1, <2>2 DEF Tick, TickIsDue, LatestIsAnswered, TickSucceeds, TickFails
  <2> QED
    BY <1>2, <2>3
<1>4. /\ axis' \in Seq(Int) /\ watermark' \in Int /\ newest' \in 0..MaxNow
      /\ Ascending(axis') /\ watermark' = LastOf(axis')
  <2>0. /\ axis \in Seq(Int) /\ watermark \in Int /\ newest \in 0..MaxNow
        /\ Ascending(axis) /\ watermark = LastOf(axis)
    BY DEF IInv, Types, AxisInv
  <2>1. CASE UNCHANGED charts
    BY <2>0, <2>1 DEF charts
  <2>2. CASE TickSucceeds(i) /\ ~ UNCHANGED charts
    <3> DEFINE ts == ticks[i].ts
    <3>1. ts > watermark /\ axis' = Append(axis, ts) /\ watermark' = ts /\ newest' = ts
      BY <2>2 DEF TickSucceeds, AppendLive
    <3>2. ts \in Int
      BY <1>2
    <3> QED
      BY <1>2, <2>0, <3>1, <3>2, AppendAscends
  <2> QED
    BY <2>1, <2>2 DEF Tick, TickIsDue, LatestIsAnswered, TickFails
<1>5. Types'
  BY <1>1, <1>3, <1>4 DEF IInv, Types, world, controls
<1>6. Flags'
  BY <1>1, Zenon DEF IInv, Flags, controls
<1>7. AxisInv'
  BY <1>1, <1>4 DEF IInv, AxisInv
<1>8. LoadInv'
  BY <1>1 DEF IInv, LoadInv, controls
<1> QED
  BY <1>5, <1>6, <1>7, <1>8 DEF IInv

\* Every step keeps IInv.
LEMMA InvStep ==
  ASSUME IInv, [Next]_vars
  PROVE  IInv'
<1>1. CASE SampleIsFlushed \/ TimePasses
  BY <1>1, WorldStep
<1>2. CASE RangeIsAnswered
  BY <1>2, AnswerStep
<1>3. CASE LoadSucceeds
  <2>1. PICK l \in loads : l.reply # Asked /\ Build(l, l.reply)
    BY <1>3 DEF LoadSucceeds
  <2>2. l.reply \in Reply /\ Ascending(l.reply.axis)
    BY DEF IInv, Types, AxisInv, LoadRequest
  <2> QED
    BY <1>3, <2>1, <2>2, BuildStep DEF LoadSucceeds
<1>4. CASE LoadFails
  <2>1. PICK l \in loads : Build(l, Asked)
    BY <1>4 DEF LoadFails
  <2>2. Asked \in Reply /\ Ascending(Asked.axis)
    BY Constants DEF Asked, Reply, Ascending
  <2> QED
    BY <1>4, <2>1, <2>2, BuildStep DEF LoadFails
<1>5. CASE SetRange
  <2>1. PICK label \in Ranges : range' = label /\ LoadCharts(label, bounds)
    BY <1>5 DEF SetRange
  <2>2. bounds \in Windows \cup {NoWindow} /\ label \in Labels
    BY DEF IInv, Types, Labels
  <2> QED
    BY <1>5, <2>1, <2>2, LoadStep DEF SetRange
<1>6. CASE SetRangeCustom
  BY <1>6, PickerStep
<1>7. CASE ApplyCustom
  <2>1. PICK w \in Windows : bounds' = w /\ LoadCharts("custom", w)
    BY <1>7 DEF ApplyCustom
  <2> QED
    BY <1>7, <2>1, LoadStep DEF ApplyCustom, Labels
<1>8. CASE \E i \in Ticks : Tick(i)
  BY <1>8, TickStep
<1>9. CASE UNCHANGED vars
  BY <1>9 DEF vars, world, controls, charts, IInv, Types, Flags, AxisInv, LoadInv
<1> QED
  BY <1>1, <1>2, <1>3, <1>4, <1>5, <1>6, <1>7, <1>8, <1>9 DEF Next, Load

-----------------------------------------------------------------------------
(* Theorems *)

\* IInv is an invariant.
THEOREM Inductive == Spec => []IInv
BY InitIInv, InvStep, PTL DEF Spec

\* Type correctness; and there is never more than one range request in flight,
\* although nothing but the disabled buttons keeps a second one away.
THEOREM TypeCorrect == Spec => [](TypeOK /\ Cardinality(loads) <= 1)
<1>1. IInv => TypeOK /\ Cardinality(loads) <= 1
  <2> SUFFICES ASSUME IInv PROVE TypeOK /\ Cardinality(loads) <= 1
    OBVIOUS
  <2>1. Cardinality(loads) <= 1 /\ Cardinality(loads) <= MaxLoads
    <3>1. loads = {} \/ \E l : loads = {l}
      BY DEF IInv, LoadInv
    <3>2. Cardinality(loads) = 0 \/ Cardinality(loads) = 1
      <4>1. CASE loads = {}
        BY <4>1, FS_EmptySet
      <4>2. CASE \E l : loads = {l}
        BY <4>2, FS_Singleton
      <4> QED
        BY <3>1, <4>1, <4>2
    <3> QED
      BY <3>2, Constants
  <2> QED
    BY <2>1 DEF IInv, Types, Flags, TypeOK, Labels, LoadRequest, Reply, TickRequest
<1> QED
  BY <1>1, Inductive, PTL

\* In whatever order answers arrive, the time axis of the charts ascends.
THEOREM AscendingAxis == Spec => []AxisAscends
<1>1. IInv => AxisAscends
  BY DEF IInv, AxisInv, AxisAscends
<1> QED
  BY <1>1, Inductive, PTL

\* With the controls on, the charts are those of the lit button, or of the window
\* that was applied.
THEOREM SelectedIsShown == Spec => []ShownIsSelected
<1>1. IInv => ShownIsSelected
  BY DEF IInv, LoadInv, ShownIsSelected
<1> QED
  BY <1>1, Inductive, PTL
=============================================================================
