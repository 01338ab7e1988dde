---------------------------- MODULE CadenceProofs ----------------------------
(***************************************************************************)
(* What the timers of runLoop guarantee for every interval, flush interval *)
(* and poll duration.  The argument counts back from the last success: the *)
(* timer is armed with Interval at that moment, so the age of the newest   *)
(* sample is what the timer has run down, plus what the next poll has      *)
(* taken so far.                                                           *)
(***************************************************************************)
EXTENDS Cadence, TLAPS

FastTicker == FlushInterval < Interval

\* A buffered sample is always covered by a tick: by the one to come, or by one
\* that waits for a poll to end.  A tick that waits at select was there before
\* the timer had run down.
TickCovers ==
  oldest # None =>
    /\ ~ticked => oldest + toTick <= FlushInterval
    /\ ticked /\ polling => oldest <= FlushInterval + spent
    /\ ticked /\ ~polling => /\ oldest <= FlushInterval + MaxPoll
                             /\ toPoll = 0 => oldest <= FlushInterval

BufferAges == (oldest = None) <=> (newest = None)

\* With a fast ticker the buffer is empty when a poll begins: what it holds is
\* the sample of the last success, which armed the timer.
OnlyTheLast ==
  FastTicker /\ oldest # None =>
    /\ ~polling
    /\ oldest + toPoll = Interval
    /\ newest = oldest
    /\ oldest <= FlushInterval

\* The time since the last success.
SinceSuccess == IF polling THEN Interval + spent ELSE Interval - toPoll

\* Readers see the last success, or, as long as that one is in the buffer, the
\* one before it.
LastTwoSuccesses ==
  FastTicker =>
    /\ run >= 1 /\ oldest = None => shown = SinceSuccess
    /\ run >= 2 /\ oldest # None => shown \in 0..oldest + Interval + MaxPoll

\* While the timer runs after a success it holds at most the interval.
TimerAfterSuccess == run >= 1 => toPoll <= Interval /\ (polling => toPoll = 0)

IInv ==
  /\ TypeOK
  /\ TickCovers
  /\ BufferAges
  /\ OnlyTheLast
  /\ TimerAfterSuccess
  /\ LastTwoSuccesses

-----------------------------------------------------------------------------
\* What the constants are, for the leaves.
LEMMA Constants ==
  /\ Interval \in Nat /\ Interval > 0
  /\ FlushInterval \in Nat /\ FlushInterval > 0
  /\ MaxPoll \in Nat /\ MaxPoll > 0
  /\ Settled \in Nat /\ Settled >= 2
  /\ MaxAge \in Nat /\ MaxAge > 2 * Interval + 2 * MaxPoll + FlushInterval
BY IntervalsAssumption, SettledAssumption, MaxAgeAssumption

\* Ages only grow as time passes, up to the bound.
LEMMA OlderAges ==
  ASSUME NEW a \in Age
  PROVE  /\ Older(a) \in Age
         /\ Older(a) = None <=> a = None
         /\ a # None => Older(a) <= a + 1
         /\ a # None /\ a < MaxAge => Older(a) = a + 1
BY Constants DEF Older, Age, None

\* What is within a bound is within a larger one.
LEMMA WithinMore ==
  ASSUME NEW a \in Int, NEW b \in Nat, a <= FlushInterval
  PROVE  a <= FlushInterval + b
BY Constants

\* IInv holds initially.
LEMMA InitIInv == Init => IInv
<1> SUFFICES ASSUME Init PROVE IInv
  OBVIOUS
<1>1. ~polling /\ ~ticked /\ polling \in BOOLEAN /\ ticked \in BOOLEAN
  BY DEF Init
<1>2. /\ spent \in 0..MaxPoll /\ toPoll = 0 /\ toPoll \in Nat /\ toTick \in 1..FlushInterval
      /\ oldest = None /\ newest = None
      /\ oldest \in Age /\ newest \in Age /\ shown \in Age
      /\ run = 0 /\ run \in 0..Settled
  BY Constants DEF Init, Age, None
<1>3. TypeOK
  BY <1>1, <1>2 DEF TypeOK
<1>4. TickCovers /\ BufferAges /\ OnlyTheLast
  BY <1>2 DEF TickCovers, BufferAges, OnlyTheLast
<1>5. ~(run >= 1) /\ ~(run >= 2)
  BY <1>2
<1>6. TimerAfterSuccess /\ LastTwoSuccesses
  BY <1>5 DEF TimerAfterSuccess, LastTwoSuccesses
<1> QED
  BY <1>3, <1>4, <1>6 DEF IInv

\* The facts of the type invariant that arithmetic needs.
LEMMA Types ==
  IInv => /\ oldest \in Age /\ newest \in Age /\ shown \in Age
          /\ spent \in 0..MaxPoll /\ toPoll \in Nat /\ toTick \in 1..FlushInterval
          /\ polling \in BOOLEAN /\ ticked \in BOOLEAN /\ run \in 0..Settled
BY DEF IInv, TypeOK

\* The start of a poll keeps IInv.
LEMMA PollStartsIInv == IInv /\ PollStarts => IInv'
BY Constants DEF None, PollStarts, IInv, TypeOK, TickCovers, BufferAges, OnlyTheLast,
       LastTwoSuccesses, TimerAfterSuccess, SinceSuccess, FastTicker, Age

\* A successful poll keeps IInv.
LEMMA PollSucceedsIInv == IInv /\ PollSucceeds => IInv'
<1> SUFFICES ASSUME IInv, PollSucceeds PROVE IInv'
  OBVIOUS
<1> USE Types, Constants
<1>1. polling /\ ~polling' /\ polling' \in BOOLEAN
  BY DEF PollSucceeds
<1>2. /\ newest' = 0 /\ oldest' = IF oldest = None THEN 0 ELSE oldest
      /\ toPoll' = Interval /\ run' = (IF run < Settled THEN run + 1 ELSE run)
      /\ spent' = spent /\ toTick' = toTick /\ ticked' = ticked /\ shown' = shown
  BY DEF PollSucceeds
<1>3. /\ spent' \in 0..MaxPoll /\ toPoll' \in Nat /\ toTick' \in 1..FlushInterval
      /\ oldest' \in Age /\ newest' \in Age /\ shown' \in Age /\ run' \in 0..Settled
  BY <1>2 DEF Age, None
<1>4. TypeOK'
  BY <1>1, <1>2, <1>3 DEF TypeOK
<1>5. TickCovers'
  <2>1. CASE oldest = None
    <3>1. oldest' = 0 /\ oldest' + toTick' <= FlushInterval
      BY <1>2, <2>1
    <3>2. oldest' <= FlushInterval /\ oldest' <= FlushInterval + MaxPoll
      BY <3>1
    <3> QED
      BY <1>1, <3>1, <3>2 DEF TickCovers
  <2>2. CASE oldest # None
    <3>1. oldest' = oldest /\ toTick' = toTick /\ toPoll' # 0
      BY <1>2, <2>2
    <3>2. CASE ticked
      <4>1. oldest <= FlushInterval + spent
        BY <1>1, <2>2, <3>2 DEF IInv, TickCovers
      <4>2. oldest' <= FlushInterval + MaxPoll
        BY <3>1, <4>1 DEF Age, None
      <4> QED
        BY <1>1, <1>2, <3>1, <3>2, <4>2 DEF TickCovers
    <3>3. CASE ~ticked
      <4>1. ~ticked'
        BY <1>2, <3>3
      <4>2. oldest + toTick <= FlushInterval
        BY <2>2, <3>3 DEF IInv, TickCovers
      <4> QED
        BY <3>1, <4>1, <4>2 DEF TickCovers
    <3> QED
      BY <3>2, <3>3
  <2> QED
    BY <2>1, <2>2
<1>6. BufferAges'
  BY <1>2 DEF BufferAges, Age, None
<1>7. OnlyTheLast'
  BY <1>1, <1>2 DEF IInv, OnlyTheLast, FastTicker, Age, None
<1>8. TimerAfterSuccess'
  BY <1>1, <1>2 DEF TimerAfterSuccess
<1>9. LastTwoSuccesses'
  <2> SUFFICES ASSUME FastTicker PROVE LastTwoSuccesses'
    BY DEF LastTwoSuccesses, FastTicker
  <2>1. oldest = None /\ oldest' = 0
    BY <1>1, <1>2 DEF IInv, OnlyTheLast
  <2>2. ASSUME run' >= 2 PROVE shown' \in 0..oldest' + Interval + MaxPoll
    <3>1. run >= 1
      BY <1>2, <2>2
    <3>2. shown = SinceSuccess
      BY <2>1, <3>1 DEF IInv, LastTwoSuccesses
    <3>3. shown = Interval + spent
      BY <1>1, <3>2 DEF SinceSuccess
    <3> QED
      BY <1>2, <2>1, <3>3
  <2> QED
    BY <2>1, <2>2 DEF LastTwoSuccesses, None
<1> QED
  BY <1>4, <1>5, <1>6, <1>7, <1>8, <1>9 DEF IInv

\* A failed poll keeps IInv.
LEMMA PollFailsIInv == IInv /\ PollFails => IInv'
<1> SUFFICES ASSUME IInv, PollFails PROVE IInv'
  OBVIOUS
<1> USE Types, Constants
<1>1. polling /\ ~polling' /\ polling' \in BOOLEAN
  BY DEF PollFails
<1>2. /\ newest' = newest /\ oldest' = oldest /\ run' = 0
      /\ spent' = spent /\ toTick' = toTick /\ ticked' = ticked /\ shown' = shown
  BY DEF PollFails
<1>3. toPoll' \in Nat /\ toPoll' # 0 /\ run' \in 0..Settled /\ ~(run' >= 1) /\ ~(run' >= 2)
  BY <1>2, WaitsAssumption DEF PollFails
<1>4. TypeOK'
  BY <1>1, <1>2, <1>3 DEF TypeOK
<1>5. TickCovers'
  BY <1>1, <1>2, <1>3 DEF IInv, TickCovers, Age, None
<1>6. BufferAges'
  BY <1>2 DEF IInv, BufferAges
<1>7. OnlyTheLast'
  BY <1>1, <1>2 DEF IInv, OnlyTheLast
<1>8. TimerAfterSuccess' /\ LastTwoSuccesses'
  BY <1>3 DEF TimerAfterSuccess, LastTwoSuccesses
<1> QED
  BY <1>4, <1>5, <1>6, <1>7, <1>8 DEF IInv

\* A flush keeps IInv.
LEMMA FlushIInv == IInv /\ Flush => IInv'
<1> SUFFICES ASSUME IInv, Flush PROVE IInv'
  OBVIOUS
<1> USE Types, Constants
<1>1. /\ ~polling /\ ~polling' /\ polling' = polling
      /\ ticked' \in BOOLEAN
  BY DEF Flush
<1>2. /\ shown' = IF newest = None THEN shown ELSE newest
      /\ oldest' = None /\ newest' = None
      /\ spent' = spent /\ toPoll' = toPoll /\ toTick' = toTick /\ run' = run
  BY DEF Flush
<1>3. oldest' \in Age /\ newest' \in Age /\ shown' \in Age
  BY <1>2 DEF Age, None
<1>4. TypeOK'
  BY <1>1, <1>2, <1>3 DEF TypeOK
<1>5. TickCovers' /\ BufferAges' /\ OnlyTheLast'
  BY <1>2 DEF TickCovers, BufferAges, OnlyTheLast
<1>6. TimerAfterSuccess'
  BY <1>1, <1>2 DEF IInv, TimerAfterSuccess
<1>7. LastTwoSuccesses'
  BY <1>1, <1>2
     DEF IInv, BufferAges, OnlyTheLast, LastTwoSuccesses, SinceSuccess, Age, None
<1> QED
  BY <1>4, <1>5, <1>6, <1>7 DEF IInv

\* A unit of time that passes keeps IInv.
LEMMA PassIInv == IInv /\ Pass => IInv'
<1> SUFFICES ASSUME IInv, Pass PROVE IInv'
  OBVIOUS
<1> USE Types, Constants
<1>1. /\ polling' = polling /\ run' = run
      /\ toTick' = IF toTick = 1 THEN FlushInterval ELSE toTick - 1
      /\ ticked' = (ticked \/ toTick = 1)
  BY DEF Pass, TickerRuns
<1>2. \/ polling /\ spent < MaxPoll /\ spent' = spent + 1 /\ toPoll' = toPoll
      \/ ~polling /\ toPoll > 0 /\ ~ticked /\ toPoll' = toPoll - 1 /\ spent' = spent
  BY DEF Pass, MayPass
<1>3. /\ oldest' \in Age
      /\ oldest' = None <=> oldest = None
      /\ oldest # None => oldest' <= oldest + 1
      /\ oldest # None /\ oldest < MaxAge => oldest' = oldest + 1
  BY OlderAges DEF Pass
<1>4. /\ newest' \in Age
      /\ newest' = None <=> newest = None
      /\ newest = oldest => newest' = oldest'
  BY OlderAges DEF Pass
<1>5. /\ shown' \in Age
      /\ shown' = None <=> shown = None
      /\ shown # None => shown' <= shown + 1
      /\ shown # None /\ shown < MaxAge => shown' = shown + 1
  BY OlderAges DEF Pass
<1> USE DEF Age, None
<1>6. TypeOK'
  BY <1>1, <1>2, <1>3, <1>4, <1>5 DEF TypeOK
<1>7. TickCovers'
  <2> SUFFICES ASSUME oldest' # None PROVE TickCovers'
    BY DEF TickCovers
  <2>1. CASE ticked
    <3>1. polling /\ polling' /\ ticked' /\ spent' = spent + 1 /\ oldest <= FlushInterval + spent
      <4>1. polling /\ polling' /\ ticked' /\ spent' = spent + 1
        BY <1>1, <1>2, <2>1
      <4>2. oldest # None
        BY <1>3
      <4> QED
        BY <4>1, <4>2, <2>1 DEF IInv, TickCovers
    <3>2. oldest' <= FlushInterval + spent'
      BY <1>3, <3>1
    <3> QED
      BY <3>1, <3>2 DEF TickCovers
  <2>2. CASE ~ticked /\ toTick = 1
    <3>1. ticked' /\ oldest # None
      BY <1>1, <1>3, <2>2
    <3>2. oldest + toTick <= FlushInterval
      BY <3>1, <2>2 DEF IInv, TickCovers
    <3>3. toTick = 1
      BY <2>2
    <3>4. oldest' \in Int /\ oldest' <= FlushInterval
      BY <1>3, <3>1, <3>2, <3>3
    <3>5. spent' \in Nat
      <4>1. spent' = spent + 1 \/ spent' = spent
        BY <1>2
      <4> QED
        BY <4>1
    <3>6. oldest' <= FlushInterval + spent'
      BY <3>4, <3>5, WithinMore
    <3>7. oldest' <= FlushInterval + MaxPoll
      BY <3>4, Constants
    <3> QED
      BY <3>1, <3>4, <3>6, <3>7 DEF TickCovers
  <2>3. CASE ~ticked /\ toTick # 1
    <3>1. ~ticked' /\ toTick' = toTick - 1 /\ oldest + toTick <= FlushInterval
      BY <1>1, <1>3, <2>3 DEF IInv, TickCovers
    <3>2. oldest' + toTick' <= FlushInterval
      BY <1>3, <3>1
    <3> QED
      BY <3>1, <3>2 DEF TickCovers
  <2> QED
    BY <2>1, <2>2, <2>3
<1>8. BufferAges'
  BY <1>3, <1>4 DEF IInv, BufferAges
<1>9. OnlyTheLast'
  BY <1>1, <1>2, <1>3, <1>4 DEF IInv, TickCovers, OnlyTheLast, FastTicker
<1>10. TimerAfterSuccess'
  BY <1>1, <1>2 DEF IInv, TimerAfterSuccess
<1>11. LastTwoSuccesses'
  <2> SUFFICES ASSUME FastTicker PROVE LastTwoSuccesses'
    BY DEF LastTwoSuccesses, FastTicker
  <2>1. CASE oldest = None
    <3>1. ASSUME run >= 1 PROVE shown' = SinceSuccess'
      <4>1. shown = SinceSuccess /\ toPoll <= Interval
        BY <2>1, <3>1 DEF IInv, LastTwoSuccesses, TimerAfterSuccess
      <4>2. CASE polling
        <5>1. shown = Interval + spent /\ spent' = spent + 1 /\ spent < MaxPoll
          BY <4>1, <4>2, <1>2 DEF SinceSuccess
        <5>2. shown' = Interval + spent'
          BY <5>1, <1>5
        <5> QED
          BY <5>2, <4>2, <1>1 DEF SinceSuccess
      <4>3. CASE ~polling
        <5>1. shown = Interval - toPoll /\ toPoll' = toPoll - 1 /\ toPoll > 0
          BY <4>1, <4>3, <1>2 DEF SinceSuccess
        <5>2. shown' = Interval - toPoll'
          BY <4>1, <5>1, <1>5
        <5> QED
          BY <5>2, <4>3, <1>1 DEF SinceSuccess
      <4> QED
        BY <4>2, <4>3
    <3> QED
      BY <1>1, <1>3, <2>1, <3>1 DEF LastTwoSuccesses
  <2>2. CASE oldest # None
    <3>1. oldest <= FlushInterval
      BY <2>2 DEF IInv, OnlyTheLast
    <3>2. oldest' = oldest + 1
      BY <1>3, <2>2, <3>1
    <3>3. ASSUME run >= 2 PROVE shown' \in 0..oldest' + Interval + MaxPoll
      <4>1. shown \in 0..oldest + Interval + MaxPoll
        BY <2>2, <3>3 DEF IInv, LastTwoSuccesses
      <4> QED
        BY <1>5, <3>2, <4>1
    <3> QED
      BY <1>1, <1>3, <2>2, <3>3 DEF LastTwoSuccesses
  <2> QED
    BY <2>1, <2>2
<1> QED
  BY <1>6, <1>7, <1>8, <1>9, <1>10, <1>11 DEF IInv

\* The counting argument holds along every behaviour.
THEOREM Inductive == Spec => []IInv
<1>1. IInv /\ [Next]_vars => IInv'
  <2> SUFFICES ASSUME IInv, [Next]_vars PROVE IInv'
    OBVIOUS
  <2>1. CASE UNCHANGED vars
    BY <2>1 DEF vars, IInv, TypeOK, TickCovers, BufferAges, OnlyTheLast, LastTwoSuccesses,
       TimerAfterSuccess, SinceSuccess
  <2> QED
    BY <2>1, PollStartsIInv, PollSucceedsIInv, PollFailsIInv, FlushIInv, PassIInv DEF Next
<1> QED
  BY <1>1, InitIInv, PTL DEF Spec

\* Type correctness for all intervals.
THEOREM TypeCorrect == Spec => []TypeOK
<1>1. IInv => TypeOK
  BY DEF IInv
<1> QED
  BY <1>1, Inductive, PTL

\* flush_interval bounds the wait in the buffer, if need be with one poll more.
THEOREM TimelyFlush == Spec => []FlushIsTimely
<1>1. IInv => FlushIsTimely
  BY Constants
     DEF IInv, TypeOK, TickCovers, OnlyTheLast, FastTicker, FlushIsTimely, Age, None
<1> QED
  BY <1>1, Inductive, PTL

\* With a fast ticker and polls that succeed, readers are never further behind
\* than an interval, a poll and a flush interval.
THEOREM CurrentReaders == Spec => []ReadersAreCurrent
<1>1. IInv => ReadersAreCurrent
  BY Constants
     DEF IInv, TypeOK, OnlyTheLast, TimerAfterSuccess, LastTwoSuccesses, SinceSuccess,
         FastTicker, ReadersAreCurrent, Age, None
<1> QED
  BY <1>1, Inductive, PTL

\* The health endpoint answers 200 while polls succeed, for every configuration
\* in which a flush interval and a poll together fit into the poll interval.
THEOREM HealthIsOk ==
  ASSUME FlushInterval + MaxPoll <= Interval
  PROVE  Spec => []OkWhilePolling
<1>1. ReadersAreCurrent => OkWhilePolling
  BY Constants DEF ReadersAreCurrent, OkWhilePolling, Ok, None
<1> QED
  BY <1>1, CurrentReaders, PTL
=============================================================================
